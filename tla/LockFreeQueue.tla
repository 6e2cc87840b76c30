--------------------------- MODULE LockFreeQueue ---------------------------
(***************************************************************************)
(* backend/include/lockfree_queue.h: the linked queue that carries every   *)
(* message between the modules of the server.  Nodes are addresses of a    *)
(* heap whose freed addresses `new` may hand out again; each atomic access *)
(* of the code is one step.  The server gives every queue any number of    *)
(* producer threads (the io threads, or one module) and ONE consumer       *)
(* thread (the module whose input it is), so the consumer is not indexed.  *)
(***************************************************************************)
EXTENDS Naturals, Sequences

CONSTANTS
    Producers,   \* threads that call push
    Addr,        \* addresses `new Node` may return
    Null,        \* nullptr
    MaxPush      \* bound: calls of push per producer

ASSUME NullAssumption == Null \notin Addr
ASSUME MaxPushAssumption == MaxPush \in Nat

VARIABLES
    live,        \* addresses of allocated nodes
    next,        \* Node::next
    value,       \* Node::value; Null is the empty or moved-from optional
    head,        \* head_
    tail,        \* tail_
    ppc,         \* where each producer is in push
    newNode,     \* push: new_node
    oldTail,     \* push: old_tail
    pushes,      \* calls of push each producer has begun
    cpc,         \* where the consumer is in try_pop
    oldHead,     \* try_pop: old_head
    nxt,         \* try_pop: next
    ret,         \* what the last finished try_pop returned
    got,         \* history: the values try_pop has handed out
    chain,       \* auxiliary: the nodes from head_ to tail_, as exchanged
    phase        \* "used", "destroying" (in the destructor)

queueVars == <<live, next, value, head, tail>>
producerVars == <<ppc, newNode, oldTail, pushes>>
consumerVars == <<cpc, oldHead, nxt, ret, got>>
vars == <<queueVars, producerVars, consumerVars, chain, phase>>

Item == Producers \X (1..MaxPush)

TypeOK ==
    /\ live \in SUBSET Addr
    /\ next \in [Addr -> Addr \union {Null}]
    /\ value \in [Addr -> Item \union {Null}]
    /\ head \in Addr \union {Null}
    /\ tail \in Addr
    /\ ppc \in [Producers -> {"idle", "exchange", "link"}]
    /\ newNode \in [Producers -> Addr \union {Null}]
    /\ oldTail \in [Producers -> Addr \union {Null}]
    /\ pushes \in [Producers -> 0..MaxPush]
    /\ cpc \in {"idle", "next", "cas", "take", "free"}
    /\ oldHead \in Addr \union {Null}
    /\ nxt \in Addr \union {Null}
    /\ ret \in {"none", "true", "false"}
    /\ got \in Seq(Item \union {Null})
    /\ chain \in Seq(Addr)
    /\ phase \in {"used", "destroying"}

\* The constructor: head_ and tail_ point to one node without a value.
Init ==
    \E dummy \in Addr :
        /\ live = {dummy}
        /\ next = [a \in Addr |-> Null]
        /\ value = [a \in Addr |-> Null]
        /\ head = dummy
        /\ tail = dummy
        /\ chain = <<dummy>>
        /\ ppc = [p \in Producers |-> "idle"]
        /\ newNode = [p \in Producers |-> Null]
        /\ oldTail = [p \in Producers |-> Null]
        /\ pushes = [p \in Producers |-> 0]
        /\ cpc = "idle"
        /\ oldHead = Null
        /\ nxt = Null
        /\ ret = "none"
        /\ got = <<>>
        /\ phase = "used"

-----------------------------------------------------------------------------
(* push *)

\* Node* new_node = new Node(std::move(value))
Allocate(p) ==
    /\ phase = "used"
    /\ ppc[p] = "idle"
    /\ pushes[p] < MaxPush
    /\ \E a \in Addr \ live :
        /\ live' = live \union {a}
        /\ next' = [next EXCEPT ![a] = Null]
        /\ value' = [value EXCEPT ![a] = <<p, pushes[p] + 1>>]
        /\ newNode' = [newNode EXCEPT ![p] = a]
    /\ pushes' = [pushes EXCEPT ![p] = @ + 1]
    /\ ppc' = [ppc EXCEPT ![p] = "exchange"]
    /\ UNCHANGED <<head, tail, oldTail, consumerVars, chain, phase>>

\* old_tail = tail_.exchange(new_node)
Exchange(p) ==
    /\ ppc[p] = "exchange"
    /\ oldTail' = [oldTail EXCEPT ![p] = tail]
    /\ tail' = newNode[p]
    /\ chain' = Append(chain, newNode[p])
    /\ ppc' = [ppc EXCEPT ![p] = "link"]
    /\ UNCHANGED <<live, next, value, head, newNode, pushes, consumerVars, phase>>

\* Mutant: the link is never stored.
LinkForgotten(p) ==
    /\ ppc[p] = "link"
    /\ next' = next
    /\ ppc' = [ppc EXCEPT ![p] = "idle"]
    /\ UNCHANGED <<live, value, head, tail, newNode, oldTail, pushes,
                   consumerVars, chain, phase>>

\* old_tail->next.store(new_node)
Link(p) ==
    /\ ppc[p] = "link"
    /\ next' = [next EXCEPT ![oldTail[p]] = newNode[p]]
    /\ ppc' = [ppc EXCEPT ![p] = "idle"]
    /\ UNCHANGED <<live, value, head, tail, newNode, oldTail, pushes,
                   consumerVars, chain, phase>>

-----------------------------------------------------------------------------
(* try_pop *)

\* Node* old_head = head_.load()
LoadHead ==
    /\ phase = "used"
    /\ cpc = "idle"
    /\ oldHead' = head
    /\ cpc' = "next"
    /\ UNCHANGED <<queueVars, producerVars, nxt, ret, got, chain, phase>>

\* next = old_head->next.load() is null: return false
ReadNextNull ==
    /\ cpc = "next"
    /\ next[oldHead] = Null
    /\ ret' = "false"
    /\ cpc' = "idle"
    /\ UNCHANGED <<queueVars, producerVars, oldHead, nxt, got, chain, phase>>

ReadNext ==
    /\ cpc = "next"
    /\ next[oldHead] # Null
    /\ nxt' = next[oldHead]
    /\ cpc' = "cas"
    /\ UNCHANGED <<queueVars, producerVars, oldHead, ret, got, chain, phase>>

\* head_.compare_exchange_weak(old_head, next) succeeds
CasOk ==
    /\ cpc = "cas"
    /\ head = oldHead
    /\ head' = nxt
    /\ chain' = Tail(chain)
    /\ cpc' = "take"
    /\ UNCHANGED <<live, next, value, tail, producerVars, oldHead, nxt, ret,
                   got, phase>>

\* Mutant: a failed compare-and-swap answers false.
CasFailReturns ==
    /\ cpc = "cas"
    /\ ret' = "false"
    /\ cpc' = "idle"
    /\ UNCHANGED <<queueVars, producerVars, oldHead, nxt, got, chain, phase>>

\* ... fails, spuriously or because head_ moved, and reloads old_head
CasFail ==
    /\ cpc = "cas"
    /\ oldHead' = head
    /\ cpc' = "next"
    /\ UNCHANGED <<queueVars, producerVars, nxt, ret, got, chain, phase>>

\* Mutant: the value is taken from the node that goes.
TakeFromOldHead ==
    /\ cpc = "take"
    /\ got' = Append(got, value[oldHead])
    /\ value' = [value EXCEPT ![nxt] = Null]
    /\ cpc' = "free"
    /\ UNCHANGED <<live, next, head, tail, producerVars, oldHead, nxt, ret,
                   chain, phase>>

\* out = std::move(next->value)
Take ==
    /\ cpc = "take"
    /\ got' = Append(got, value[nxt])
    /\ value' = [value EXCEPT ![nxt] = Null]
    /\ cpc' = "free"
    /\ UNCHANGED <<live, next, head, tail, producerVars, oldHead, nxt, ret,
                   chain, phase>>

\* Mutant: the new head is deleted in place of the old one.
FreeNewHead ==
    /\ cpc = "free"
    /\ live' = live \ {nxt}
    /\ ret' = "true"
    /\ cpc' = "idle"
    /\ UNCHANGED <<next, value, head, tail, producerVars, oldHead, nxt, got,
                   chain, phase>>

\* Mutant: the old head is not deleted.
FreeNothing ==
    /\ cpc = "free"
    /\ live' = live
    /\ ret' = "true"
    /\ cpc' = "idle"
    /\ UNCHANGED <<next, value, head, tail, producerVars, oldHead, nxt, got,
                   chain, phase>>

\* delete old_head; return true
Free ==
    /\ cpc = "free"
    /\ live' = live \ {oldHead}
    /\ ret' = "true"
    /\ cpc' = "idle"
    /\ UNCHANGED <<next, value, head, tail, producerVars, oldHead, nxt, got,
                   chain, phase>>

-----------------------------------------------------------------------------
(* The destructor, run when the last shared_ptr to the queue goes: no      *)
(* thread is in push or try_pop.                                           *)

DestroyBegin ==
    /\ phase = "used"
    /\ cpc = "idle"
    /\ \A p \in Producers : ppc[p] = "idle"
    /\ phase' = "destroying"
    /\ UNCHANGED <<queueVars, producerVars, consumerVars, chain>>

\* head_.store(old_head->next); delete old_head
DestroyNode ==
    /\ phase = "destroying"
    /\ head # Null
    /\ head' = next[head]
    /\ live' = live \ {head}
    /\ chain' = Tail(chain)
    /\ UNCHANGED <<next, value, tail, producerVars, consumerVars, phase>>

PushStep(p) == Allocate(p) \/ Exchange(p) \/ Link(p)
PopStep == LoadHead \/ ReadNextNull \/ ReadNext \/ CasOk \/ CasFail \/ Take \/ Free

Next ==
    \/ \E p \in Producers : PushStep(p)
    \/ PopStep
    \/ DestroyBegin
    \/ DestroyNode

Spec == Init /\ [][Next]_vars

(* A producer that has begun a push is scheduled until it ends; the        *)
(* consumer polls (ModuleBase::run_loop); a weak compare-and-swap that is  *)
(* retried for ever does not fail for ever.                                *)
FairSpec ==
    /\ Spec
    /\ \A p \in Producers : WF_vars(Exchange(p)) /\ WF_vars(Link(p))
    /\ WF_vars(PopStep)
    /\ SF_vars(CasOk)

-----------------------------------------------------------------------------
(* Properties *)

InChain(a) == \E i \in 1..Len(chain) : chain[i] = a

(* A node some thread is about to read, write or delete is still allocated *)
(* although the consumer deletes nodes while producers hold pointers into  *)
(* the list and freed addresses come back from `new` (lockfree_queue.h     *)
(* l.34, 40, 46, 47).                                                      *)
NoUseAfterFree ==
    /\ \A p \in Producers :
        /\ ppc[p] = "exchange" => newNode[p] \in live
        /\ ppc[p] = "link" => oldTail[p] \in live
    /\ cpc \in {"next", "free"} => oldHead \in live
    /\ cpc = "take" => {nxt, oldHead} \subseteq live

(* Every allocated node is reachable by someone who will delete it: it is  *)
(* in the list, in the hands of a push that has not exchanged yet, or the  *)
(* old head the consumer is about to delete; so the destructor leaves none *)
(* (l.21-26, 32, 47).                                                      *)
NoLeak ==
    \A a \in live :
        \/ InChain(a)
        \/ \E p \in Producers : ppc[p] = "exchange" /\ newNode[p] = a
        \/ cpc \in {"take", "free"} /\ oldHead = a

(* try_pop may answer "nothing there" while completed pushes are queued,   *)
(* but only when the oldest of them waits behind a push that has exchanged *)
(* tail_ and not yet stored its link (l.33-34, 41-43).                     *)
EmptyAnswer ==
    [][(cpc # "idle" /\ cpc' = "idle" /\ ret' = "false") =>
          \/ Len(chain) = 1
          \/ \E p \in Producers : ppc[p] = "link" /\ oldTail[p] = chain[1]]_vars

Contents ==
    IF phase = "destroying" THEN <<>>
    ELSE [i \in 1..(Len(chain) - 1) |-> value[chain[i + 1]]]

Delivered == IF cpc = "take" THEN Append(got, value[nxt]) ELSE got

(* The queue implements an atomic first-in first-out queue: a push takes   *)
(* effect at its exchange of tail_, a pop at its compare-and-swap of head_;*)
(* nothing is lost, duplicated, reordered or handed out moved-from.        *)
Fifo == INSTANCE FifoQueue WITH queue <- Contents, got <- Delivered

ImplementsFifo == Fifo!Spec

(* Whatever a producer has begun to push, the polling consumer gets,       *)
(* unless the queue is destroyed first.                                    *)
EveryPushArrives ==
    \A x \in Item :
        pushes[x[1]] >= x[2] ~>
            (\E i \in 1..Len(got) : got[i] = x) \/ phase = "destroying"

-----------------------------------------------------------------------------
(* The inductive invariant: the pointers of the code against the auxiliary *)
(* list `chain`.                                                           *)

\* p holds a node that is not in the list yet.
Holds(p) == ppc[p] = "exchange"

\* The consumer holds an old head that is no longer in the list.
HoldsOldHead == cpc \in {"take", "free"}

\* Somebody has appended the node after chain[i] and not linked it.
Pending(i) ==
    \E p \in Producers :
        ppc[p] = "link" /\ oldTail[p] = chain[i] /\ newNode[p] = chain[i + 1]

\* head_ and tail_ are the ends of a list of distinct live nodes, linked
\* in order but for the links that are still to be stored.
ListInv ==
    /\ chain = <<>> => phase = "destroying" /\ head = Null
    /\ chain # <<>> => head = chain[1] /\ tail = chain[Len(chain)] /\ next[tail] = Null
    /\ \A i, j \in 1..Len(chain) : chain[i] = chain[j] => i = j
    /\ \A i \in 1..Len(chain) : chain[i] \in live
    /\ \A i \in 1..(Len(chain) - 1) :
        \/ next[chain[i]] = chain[i + 1]
        \/ next[chain[i]] = Null /\ Pending(i)

\* A node in the hands of one producer is nobody else's.
HandInv ==
    \A p \in Producers : Holds(p) =>
        /\ newNode[p] \in live
        /\ ~InChain(newNode[p])
        /\ next[newNode[p]] = Null
        /\ HoldsOldHead => newNode[p] # oldHead
        /\ \A q \in Producers : Holds(q) /\ newNode[q] = newNode[p] => q = p

\* A producer that has still to store its link has its own place in the list.
LinkInv ==
    /\ \A p \in Producers : ppc[p] = "link" =>
        \E i \in 1..(Len(chain) - 1) :
            /\ oldTail[p] = chain[i]
            /\ newNode[p] = chain[i + 1]
            /\ next[chain[i]] = Null
    /\ \A p, q \in Producers :
        ppc[p] = "link" /\ ppc[q] = "link" /\ oldTail[p] = oldTail[q] => p = q

ConsumerInv ==
    /\ cpc \in {"next", "cas"} => oldHead = head
    /\ cpc = "cas" => Len(chain) > 1 /\ nxt = chain[2] /\ next[head] = nxt
    /\ cpc = "take" => nxt = head
    /\ HoldsOldHead => oldHead \in live /\ ~InChain(oldHead)

\* A node carries a value from `new` until the consumer moves it out.
ValueInv ==
    /\ \A i \in 2..Len(chain) : value[chain[i]] \in Item
    /\ cpc = "take" => value[nxt] \in Item
    /\ \A p \in Producers : Holds(p) => value[newNode[p]] \in Item

\* The destructor runs alone.
DestroyInv ==
    phase = "destroying" =>
        cpc = "idle" /\ \A p \in Producers : ppc[p] = "idle"

IInv ==
    /\ TypeOK
    /\ ListInv
    /\ HandInv
    /\ LinkInv
    /\ ConsumerInv
    /\ ValueInv
    /\ DestroyInv
    /\ NoLeak

=============================================================================
