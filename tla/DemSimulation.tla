---------------------------- MODULE DemSimulation ----------------------------
(***************************************************************************)
(* DEMSimulation (backend/algorithms/dem_simulation.cpp): particles in a   *)
(* crack of one dimension, the depth, with integers for positions,         *)
(* velocities and accelerations: the unit of acceleration is gravity, that *)
(* of time a step (half of one in integrate_velocities is scaled away).    *)
(***************************************************************************)
EXTENDS Integers, Sequences, FiniteSets

CONSTANTS
    Half,          \* half the depth of the crack
    MaxDist,       \* largest extent of the crack
    MinDist,       \* two particles nearer than this touch: the sum of their radii
    Fixed,         \* sequences of the positions of boundary points
    ContactForce,  \* what a contact may do to its particles: pull (-1) or push (1)
    MAX_CONTACTS,
    CheckEvery     \* 100: the steps after which run() looks whether all is at rest

CrackAssumption ==
    /\ Half \in Nat /\ MaxDist \in Nat /\ Half <= MaxDist
    /\ MinDist \in Nat \ {0}
    /\ Fixed \subseteq Seq(Int)
    /\ ContactForce \subseteq {-1, 1}
    /\ MAX_CONTACTS \in Nat
    /\ CheckEvery \in Nat \ {0}

\* random_point_in_crack
PointInCrack == -Half..Half

gravity == -1

VARIABLES
    tries,      \* particles that generate_particles still has to try
    max_steps,  \* of run()
    particles,  \* particles_
    contacts,   \* contacts_: the pairs of indices that touched
    step,       \* of run()
    at          \* "idle", "generate", the next phase of step(), "check", "done", "thrown"

vars == <<tries, max_steps, particles, contacts, step, at>>

Init ==
    /\ tries = 0
    /\ max_steps = 0
    /\ particles = <<>>
    /\ contacts = {}
    /\ step = 0
    /\ at = "idle"

\* DemSimulatorModule::process makes max_particles / 10 particles (an int,
\* rounded towards 0) and no boundary; the handler of POST
\* /api/cracks/<id>/simulate/<id> makes 1000 and does 1000 steps.
Begin(max_particles, simulation_steps) ==
    /\ at = "idle"
    /\ tries' = IF max_particles > 0 THEN max_particles \div 10 ELSE 0
    /\ max_steps' = simulation_steps
    /\ at' = "generate"
    /\ UNCHANGED <<particles, contacts, step>>

Abs(n) == IF n < 0 THEN -n ELSE n
Distance(x, y) == Abs(x.z - y.z)
Touching(x, y) == Distance(x, y) < MinDist /\ Distance(x, y) > 0

\* One turn of generate_particles; a particle that overlaps is left out.
Generate ==
    /\ at = "generate"
    /\ tries > 0
    /\ \E z \in PointInCrack :
        LET p == [z |-> z, v |-> 0, f |-> gravity, is_fixed |-> FALSE] IN
        particles' = IF \E k \in 1..Len(particles) : Distance(p, particles[k]) < MinDist
                     THEN particles ELSE Append(particles, p)
    /\ tries' = tries - 1
    /\ UNCHANGED <<max_steps, contacts, step, at>>

\* generate_boundary, which only the HTTP handler calls, for the crack's points
Boundary ==
    /\ at = "generate"
    /\ tries = 0
    /\ \E zs \in Fixed :
        particles' = particles \o
            [k \in 1..Len(zs) |-> [z |-> zs[k], v |-> 0, f |-> 0, is_fixed |-> TRUE]]
    /\ at' = "run"
    /\ UNCHANGED <<tries, max_steps, contacts, step>>

\* run(): max_steps / 10 + 1 is converted to an unsigned number for reserve(),
\* which throws std::length_error if it was negative.
ReserveThrows ==
    /\ at = "run"
    /\ max_steps <= -20
    /\ at' = "thrown"
    /\ UNCHANGED <<tries, max_steps, particles, contacts, step>>

Reserve ==
    /\ at = "run"
    /\ max_steps > -20
    /\ at' = "step"
    /\ UNCHANGED <<tries, max_steps, particles, contacts, step>>

Free == {k \in DOMAIN particles : ~particles[k].is_fixed}

IntegrateVelocities ==
    /\ at = "step"
    /\ step < max_steps
    /\ particles' = [k \in DOMAIN particles |->
                        [particles[k] EXCEPT !.v = @ + IF k \in Free THEN particles[k].f ELSE 0]]
    /\ at' = "collide"
    /\ UNCHANGED <<tries, max_steps, contacts, step>>

\* The pairs that touch, and the order in which the two loops come to them
TouchingPairs == {ab \in (DOMAIN particles) \X (DOMAIN particles) :
    ab[1] < ab[2] /\ Touching(particles[ab[1]], particles[ab[2]])}
ComesBefore(ab, cd) == ab[1] < cd[1] \/ (ab[1] = cd[1] /\ ab[2] < cd[2])

\* A contact adds its force to its second particle and takes it from its first.
Push(k, force) ==
    LET pairs(side, f) == {c \in DOMAIN force : c[side] = k /\ force[c] = f} IN
    Cardinality(pairs(2, 1)) - Cardinality(pairs(2, -1))
        - Cardinality(pairs(1, 1)) + Cardinality(pairs(1, -1))

\* detect_collisions, with compute_contact_forces for every pair until there
\* are MAX_CONTACTS
DetectCollisions ==
    /\ at = "collide"
    /\ contacts' = {c \in TouchingPairs :
            Cardinality({d \in TouchingPairs : ComesBefore(d, c)}) < MAX_CONTACTS}
    /\ \E force \in [contacts' -> ContactForce] :
        particles' = [k \in DOMAIN particles |-> [particles[k] EXCEPT !.f = @ + Push(k, force)]]
    /\ at' = "move"
    /\ UNCHANGED <<tries, max_steps, step>>

IntegratePositions ==
    /\ at = "move"
    /\ particles' = [k \in DOMAIN particles |->
            IF k \in Free THEN [particles[k] EXCEPT !.z = @ + particles[k].v, !.f = gravity]
            ELSE particles[k]]
    /\ at' = "boundary"
    /\ UNCHANGED <<tries, max_steps, contacts, step>>

\* Mutant: what has left the crack is only stopped.
ApplyBoundaryStops ==
    /\ at = "boundary"
    /\ LET out == {k \in Free : Abs(particles[k].z) > MaxDist} IN
        particles' = [k \in DOMAIN particles |->
            CASE k \in out -> [particles[k] EXCEPT !.v = 0]
              [] k \notin Free -> [particles[k] EXCEPT !.v = 0, !.f = 0]
              [] OTHER -> particles[k]]
    /\ at' = "check"
    /\ UNCHANGED <<tries, max_steps, contacts, step>>

\* apply_boundary_conditions
ApplyBoundary ==
    /\ at = "boundary"
    /\ LET out == {k \in Free : Abs(particles[k].z) > MaxDist} IN
        \E point \in [out -> PointInCrack] :
            particles' = [k \in DOMAIN particles |->
                CASE k \in out -> [particles[k] EXCEPT !.v = 0, !.z = point[k]]
                  [] k \notin Free -> [particles[k] EXCEPT !.v = 0, !.f = 0]
                  [] OTHER -> particles[k]]
    /\ at' = "check"
    /\ UNCHANGED <<tries, max_steps, contacts, step>>

\* The rest of the turn of run(): it ends early when nothing moves.
CheckRest ==
    /\ at = "check"
    /\ IF step % CheckEvery = 0 /\ step > 0 /\ \A k \in Free : particles[k].v = 0
       THEN at' = "done" /\ UNCHANGED step
       ELSE at' = "step" /\ step' = step + 1
    /\ UNCHANGED <<tries, max_steps, particles, contacts>>

Finish ==
    /\ at = "step"
    /\ step >= max_steps
    /\ at' = "done"
    /\ UNCHANGED <<tries, max_steps, particles, contacts, step>>

Next ==
    \/ Generate \/ Boundary \/ ReserveThrows \/ Reserve
    \/ IntegrateVelocities \/ DetectCollisions \/ IntegratePositions \/ ApplyBoundary
    \/ CheckRest \/ Finish

-----------------------------------------------------------------------------
(* Properties *)

TypeOK ==
    /\ tries \in Nat /\ max_steps \in Int /\ step \in Nat
    /\ particles \in Seq([z : Int, v : Int, f : Int, is_fixed : BOOLEAN])
    /\ contacts \subseteq (DOMAIN particles) \X (DOMAIN particles)
    /\ at \in {"idle", "generate", "run", "step", "collide", "move", "boundary", "check", "done",
               "thrown"}

(* The crack holds its particles, whatever velocity gravity has given them *)
(* and whatever force the contacts: once apply_boundary_conditions has run *)
(* no free particle is farther away than the largest extent of the crack   *)
(* (l.248-259), and a boundary particle is at rest at one of the points    *)
(* that it was made from, though contacts with it push it, too.            *)
HeldByCrack ==
    /\ at # "boundary" => \A k \in Free : Abs(particles[k].z) <= MaxDist
    /\ \A k \in DOMAIN particles \ Free :
        particles[k].v = 0 /\ \E zs \in Fixed : \E l \in 1..Len(zs) : particles[k].z = zs[l]

\* The inductive invariant
IInv == TypeOK /\ HeldByCrack

=============================================================================
