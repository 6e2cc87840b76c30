------------------------ MODULE LockFreeQueue_proofs ------------------------
(***************************************************************************)
(* Proofs about LockFreeQueue, for any set of producers, any heap and any  *)
(* number of pushes.                                                       *)
(***************************************************************************)
EXTENDS LockFreeQueue, SequenceTheorems, TLAPS

LEMMA AppendFacts ==
    ASSUME NEW S, NEW s \in Seq(S), NEW e \in S
    PROVE  /\ Append(s, e) \in Seq(S)
           /\ Len(Append(s, e)) = Len(s) + 1
           /\ \A i \in 1..Len(s) : Append(s, e)[i] = s[i]
           /\ Append(s, e)[Len(s) + 1] = e
  OBVIOUS

LEMMA TailFacts ==
    ASSUME NEW S, NEW s \in Seq(S), s # <<>>
    PROVE  /\ Tail(s) \in Seq(S)
           /\ Len(s) \in Nat /\ Len(s) >= 1
           /\ Len(Tail(s)) = Len(s) - 1
           /\ \A i \in 1..(Len(s) - 1) : Tail(s)[i] = s[i + 1]
           /\ Head(s) = s[1]
  OBVIOUS

LEMMA InitIInv == Init => IInv
<1> SUFFICES ASSUME Init PROVE IInv
  OBVIOUS
<1> PICK dummy \in Addr :
        /\ live = {dummy}
        /\ next = [a \in Addr |-> Null]
        /\ value = [a \in Addr |-> Null]
        /\ head = dummy
        /\ tail = dummy
        /\ chain = <<dummy>>
        /\ ppc = [p \in Producers |-> "idle"]
        /\ newNode = [p \in Producers |-> Null]
        /\ oldTail = [p \in Producers |-> Null]
        /\ pushes = [p \in Producers |-> 0]
        /\ cpc = "idle"
        /\ oldHead = Null
        /\ nxt = Null
        /\ ret = "none"
        /\ got = <<>>
        /\ phase = "used"
  BY DEF Init
<1>1. TypeOK
  BY MaxPushAssumption DEF TypeOK
<1>2. ListInv
  BY DEF ListInv, Pending
<1>3. HandInv /\ LinkInv /\ ConsumerInv /\ DestroyInv
  BY DEF HandInv, LinkInv, ConsumerInv, DestroyInv, Holds, HoldsOldHead
<1>4. ValueInv
  BY DEF ValueInv, Holds
<1>5. NoLeak
  BY DEF NoLeak, InChain
<1> QED BY <1>1, <1>2, <1>3, <1>4, <1>5 DEF IInv

LEMMA AllocateIInv ==
    ASSUME IInv, NEW p \in Producers, Allocate(p)
    PROVE  IInv'
<1> USE NullAssumption, MaxPushAssumption
<1>0. PICK a \in Addr \ live :
        /\ live' = live \union {a}
        /\ next' = [next EXCEPT ![a] = Null]
        /\ value' = [value EXCEPT ![a] = <<p, pushes[p] + 1>>]
        /\ newNode' = [newNode EXCEPT ![p] = a]
  BY DEF Allocate
<1>1. ~InChain(a) /\ (HoldsOldHead => a # oldHead)
  BY <1>0 DEF IInv, ListInv, InChain, ConsumerInv
<1>2. TypeOK'
  BY <1>0 DEF IInv, TypeOK, Allocate, consumerVars, Item
<1>3. ListInv'
  <2>1. \A i \in 1..Len(chain) : next'[chain[i]] = next[chain[i]]
    BY <1>0, <1>1 DEF InChain, IInv, TypeOK
  <2>2. \A i \in 1..(Len(chain) - 1) : Pending(i) => Pending(i)'
    BY <1>0 DEF Pending, Allocate, IInv, TypeOK
  <2> QED BY <1>0, <2>1, <2>2 DEF ListInv, IInv, TypeOK, Allocate
<1>4. HandInv'
  <2>1. ASSUME NEW q \in Producers, Holds(q)', q # p
        PROVE  /\ Holds(q) /\ newNode'[q] = newNode[q] /\ newNode[q] # a
               /\ next'[newNode[q]] = next[newNode[q]]
    BY <1>0, <2>1 DEF HandInv, IInv, TypeOK, Allocate, Holds
  <2>2. newNode'[p] = a /\ next'[a] = Null /\ a \in live'
    BY <1>0 DEF IInv, TypeOK
  <2>3. chain' = chain /\ (HoldsOldHead' <=> HoldsOldHead) /\ oldHead' = oldHead
    BY DEF Allocate, consumerVars, HoldsOldHead
  <2>4. \A q \in Producers : Holds(q) => newNode[q] \in live'
    BY <1>0 DEF HandInv, IInv
  <2> QED BY <1>1, <2>1, <2>2, <2>3, <2>4 DEF HandInv, InChain, IInv
<1>9. LinkInv'
  <2>1. \A i \in 1..Len(chain) : next'[chain[i]] = next[chain[i]]
    BY <1>0, <1>1 DEF InChain, IInv, TypeOK
  <2>2. \A q \in Producers : ppc'[q] = "link" =>
            ppc[q] = "link" /\ newNode'[q] = newNode[q] /\ oldTail'[q] = oldTail[q]
    BY <1>0 DEF Allocate, IInv, TypeOK
  <2>3. chain' = chain /\ Len(chain) \in Nat
    BY DEF Allocate, IInv, TypeOK
  <2> QED BY <2>1, <2>2, <2>3 DEF LinkInv, IInv
<1>5. ConsumerInv'
  BY <1>0, <1>1 DEF ConsumerInv, ListInv, IInv, TypeOK, Allocate, consumerVars, HoldsOldHead, InChain
<1>6. ValueInv'
  BY <1>0, <1>1 DEF ValueInv, ListInv, IInv, TypeOK, Allocate, consumerVars, Holds, InChain, Item, ConsumerInv
<1>7. DestroyInv'
  BY DEF DestroyInv, Allocate, IInv
<1>8. NoLeak'
  <2>1. /\ chain' = chain /\ cpc' = cpc /\ oldHead' = oldHead
        /\ \A q \in Producers : q # p => ppc'[q] = ppc[q] /\ newNode'[q] = newNode[q]
        /\ ppc[p] = "idle" /\ ppc'[p] = "exchange" /\ newNode'[p] = a
    BY <1>0 DEF Allocate, IInv, TypeOK, consumerVars
  <2> QED BY <1>0, <2>1 DEF NoLeak, IInv, InChain
<1> QED BY <1>2, <1>3, <1>4, <1>5, <1>6, <1>7, <1>8, <1>9 DEF IInv

LEMMA ExchangeIInv ==
    ASSUME IInv, NEW p \in Producers, Exchange(p)
    PROVE  IInv'
<1> USE NullAssumption, MaxPushAssumption
<1> DEFINE n == newNode[p]
           k == Len(chain)
<1>0. /\ Holds(p) /\ n \in live /\ n \in Addr /\ ~InChain(n) /\ next[n] = Null
      /\ phase = "used" /\ chain # <<>>
  BY DEF Exchange, Holds, IInv, HandInv, DestroyInv, ListInv, TypeOK
<1>1. /\ chain' \in Seq(Addr) /\ Len(chain') = k + 1 /\ k \in Nat /\ k >= 1
      /\ \A i \in 1..k : chain'[i] = chain[i]
      /\ chain'[k + 1] = n
      /\ chain[k] = tail
  <2>1. chain \in Seq(Addr) /\ chain' = Append(chain, n)
    BY DEF Exchange, IInv, TypeOK
  <2>2. k \in Nat /\ k >= 1
    BY <1>0, <2>1
  <2> QED BY <1>0, <2>1, <2>2, AppendFacts DEF IInv, ListInv
<1>2. /\ live' = live /\ next' = next /\ value' = value /\ head' = head /\ tail' = n
      /\ newNode' = newNode /\ phase' = phase
      /\ cpc' = cpc /\ oldHead' = oldHead /\ nxt' = nxt
      /\ ppc'[p] = "link" /\ oldTail'[p] = tail
      /\ \A q \in Producers : q # p => ppc'[q] = ppc[q] /\ oldTail'[q] = oldTail[q]
  BY DEF Exchange, consumerVars, IInv, TypeOK
<1>3. \A x : InChain(x)' <=> InChain(x) \/ x = n
  BY <1>1 DEF InChain
<1>4. TypeOK'
  BY <1>0, <1>1 DEF IInv, TypeOK, Exchange, consumerVars
<1>5. ListInv'
  <2>1. \A i, j \in 1..(k + 1) : chain'[i] = chain'[j] => i = j
    BY <1>0, <1>1 DEF InChain, IInv, ListInv
  <2>2. \A i \in 1..(k + 1) : chain'[i] \in live'
    BY <1>0, <1>1, <1>2 DEF IInv, ListInv
  <2>3. ASSUME NEW i \in 1..k
        PROVE  \/ next'[chain'[i]] = chain'[i + 1]
               \/ next'[chain'[i]] = Null /\ Pending(i)'
    <3>1. CASE i = k
      BY <3>1, <1>0, <1>1, <1>2 DEF IInv, ListInv, Pending
    <3>2. CASE i # k
      <4>1. i \in 1..(k - 1) /\ i + 1 \in 1..k
        BY <3>2, <1>1
      <4>2. Pending(i) => Pending(i)'
        BY <4>1, <1>0, <1>1, <1>2 DEF Pending, Holds
      <4> QED BY <4>1, <4>2, <1>1, <1>2 DEF IInv, ListInv
    <3> QED BY <3>1, <3>2
  <2>4. chain' # <<>> /\ head' = chain'[1]
    BY <1>0, <1>1, <1>2 DEF IInv, ListInv
  <2> QED BY <2>1, <2>2, <2>3, <2>4, <1>0, <1>1, <1>2 DEF ListInv
<1>6. HandInv'
  <2>1. \A q \in Producers : Holds(q)' => Holds(q) /\ q # p /\ newNode[q] # n
    BY <1>0, <1>2 DEF Holds, IInv, HandInv
  <2> QED BY <2>1, <1>2, <1>3 DEF IInv, HandInv, HoldsOldHead, Holds
<1>7. LinkInv'
  <2>1. ASSUME NEW q \in Producers, ppc'[q] = "link"
        PROVE  \E i \in 1..(Len(chain') - 1) :
            oldTail'[q] = chain'[i] /\ newNode'[q] = chain'[i + 1] /\ next'[chain'[i]] = Null
    <3>1. CASE q = p
      <4>1. k \in 1..(Len(chain') - 1) /\ next[tail] = Null
        BY <1>0, <1>1 DEF IInv, ListInv
      <4> QED BY <3>1, <4>1, <1>1, <1>2
    <3>2. CASE q # p
      <4>1. PICK i \in 1..(k - 1) :
              oldTail[q] = chain[i] /\ newNode[q] = chain[i + 1] /\ next[chain[i]] = Null
        BY <2>1, <3>2, <1>2 DEF IInv, LinkInv
      <4>2. i \in 1..k /\ i + 1 \in 1..k /\ i \in 1..(Len(chain') - 1)
        BY <1>1
      <4> QED BY <3>2, <4>1, <4>2, <1>1, <1>2
    <3> QED BY <3>1, <3>2
  <2>2. ASSUME NEW q \in Producers, ppc[q] = "link"
        PROVE  oldTail[q] # tail
    <3>1. PICK i \in 1..(k - 1) : oldTail[q] = chain[i]
      BY <2>2 DEF IInv, LinkInv
    <3>2. i \in 1..k /\ k \in 1..k /\ i # k
      BY <1>1
    <3> QED BY <3>1, <3>2, <1>1 DEF IInv, ListInv
  <2>3. \A q, r \in Producers :
          ppc'[q] = "link" /\ ppc'[r] = "link" /\ oldTail'[q] = oldTail'[r] => q = r
    BY <2>2, <1>2 DEF IInv, LinkInv
  <2> QED BY <2>1, <2>3 DEF LinkInv
<1>8. ConsumerInv'
  <2>1. HoldsOldHead => oldHead # n
    BY <1>0 DEF IInv, HandInv
  <2>2. Len(chain) > 1 => chain'[2] = chain[2] /\ Len(chain') > 1
    BY <1>1
  <2> QED BY <2>1, <2>2, <1>2, <1>3 DEF IInv, ConsumerInv, HoldsOldHead
<1>9. ValueInv'
  <2>1. \A i \in 2..(k + 1) : value'[chain'[i]] \in Item
    <3>1. value[n] \in Item
      BY <1>0 DEF IInv, ValueInv
    <3>2. \A i \in 2..k : value[chain[i]] \in Item /\ i \in 1..k
      BY <1>1 DEF IInv, ValueInv
    <3> QED BY <3>1, <3>2, <1>1, <1>2
  <2>2. \A q \in Producers : Holds(q)' => Holds(q)
    BY <1>2 DEF Holds
  <2> QED BY <2>1, <2>2, <1>1, <1>2 DEF IInv, ValueInv, Item
<1>10. DestroyInv'
  BY <1>0, <1>2 DEF DestroyInv
<1>11. NoLeak'
  BY <1>2, <1>3 DEF IInv, NoLeak
<1> QED BY <1>4, <1>5, <1>6, <1>7, <1>8, <1>9, <1>10, <1>11 DEF IInv

LEMMA LinkIInv ==
    ASSUME IInv, NEW p \in Producers, Link(p)
    PROVE  IInv'
<1> USE NullAssumption, MaxPushAssumption
<1> DEFINE k == Len(chain)
<1>0. PICK m \in 1..(k - 1) :
        oldTail[p] = chain[m] /\ newNode[p] = chain[m + 1] /\ next[chain[m]] = Null
  BY DEF Link, IInv, LinkInv
<1>1. /\ k \in Nat /\ m \in 1..k /\ m + 1 \in 1..k
      /\ \A i \in 1..k : chain[i] \in Addr
      /\ \A i \in 1..k : \A j \in 1..k : chain[i] = chain[j] => i = j
  <2>1. chain \in Seq(Addr)
    BY DEF IInv, TypeOK
  <2> QED BY <1>0, <2>1 DEF IInv, ListInv
<1>2. /\ live' = live /\ value' = value /\ head' = head /\ tail' = tail
      /\ newNode' = newNode /\ oldTail' = oldTail /\ phase' = phase /\ chain' = chain
      /\ cpc' = cpc /\ oldHead' = oldHead /\ nxt' = nxt
      /\ ppc'[p] = "idle" /\ ppc[p] = "link"
      /\ \A q \in Producers : q # p => ppc'[q] = ppc[q]
  BY DEF Link, consumerVars, IInv, TypeOK
<1>3. /\ next'[chain[m]] = chain[m + 1]
      /\ \A a \in Addr : a # chain[m] => next'[a] = next[a]
  BY <1>0, <1>1 DEF Link, IInv, TypeOK
<1>4. TypeOK'
  BY <1>0, <1>1 DEF Link, consumerVars, IInv, TypeOK
<1>5. ListInv'
  <2>1. chain # <<>> => next'[tail] = Null
    <3>1. k \in 1..k /\ k # m
      BY <1>0, <1>1
    <3> QED BY <3>1, <1>1, <1>3 DEF IInv, ListInv
  <2>2. ASSUME NEW i \in 1..(k - 1)
        PROVE  \/ next'[chain[i]] = chain[i + 1]
               \/ next'[chain[i]] = Null /\ Pending(i)'
    <3>1. CASE i = m
      BY <3>1, <1>3
    <3>2. CASE i # m
      <4>1. next'[chain[i]] = next[chain[i]] /\ chain[i] # chain[m]
        BY <3>2, <1>1, <1>3
      <4>2. Pending(i) => Pending(i)'
        BY <4>1, <1>0, <1>2 DEF Pending
      <4> QED BY <4>1, <4>2 DEF IInv, ListInv
    <3> QED BY <3>1, <3>2
  <2> QED BY <2>1, <2>2, <1>2 DEF IInv, ListInv
<1>6. HandInv'
  <2>1. \A q \in Producers : Holds(q)' => Holds(q) /\ q # p /\ newNode[q] \in Addr /\ newNode[q] # chain[m]
    BY <1>1, <1>2 DEF Holds, IInv, HandInv, InChain, TypeOK
  <2> QED BY <2>1, <1>2, <1>3 DEF IInv, HandInv, HoldsOldHead, Holds, InChain
<1>7. LinkInv'
  <2>1. ASSUME NEW q \in Producers, ppc'[q] = "link"
        PROVE  q # p /\ ppc[q] = "link" /\ oldTail[q] # chain[m]
    BY <2>1, <1>0, <1>2 DEF IInv, LinkInv
  <2>2. ASSUME NEW q \in Producers, ppc'[q] = "link"
        PROVE  \E i \in 1..(Len(chain') - 1) :
            oldTail'[q] = chain'[i] /\ newNode'[q] = chain'[i + 1] /\ next'[chain'[i]] = Null
    <3>1. PICK i \in 1..(k - 1) :
              oldTail[q] = chain[i] /\ newNode[q] = chain[i + 1] /\ next[chain[i]] = Null
      BY <2>1, <2>2 DEF IInv, LinkInv
    <3>2. next'[chain[i]] = Null
      BY <2>1, <2>2, <3>1, <1>1, <1>3
    <3> QED BY <3>1, <3>2, <1>2
  <2> QED BY <2>1, <2>2, <1>2 DEF IInv, LinkInv
<1>8. ConsumerInv'
  <2>1. cpc = "cas" => m # 1
    <3>1. SUFFICES ASSUME cpc = "cas", m = 1 PROVE FALSE
      OBVIOUS
    <3>2. next[head] = chain[2] /\ head = chain[1] /\ chain[2] \in Addr
      BY <3>1, <1>0, <1>1 DEF IInv, ConsumerInv, ListInv
    <3> QED BY <3>1, <3>2, <1>0
  <2>2. cpc = "cas" => next'[head] = next[head]
    <3>1. k > 1 => head = chain[1] /\ 1 \in 1..k
      BY <1>1 DEF IInv, ListInv
    <3> QED BY <2>1, <3>1, <1>1, <1>3 DEF IInv, ConsumerInv
  <2> QED BY <2>2, <1>2 DEF IInv, ConsumerInv, HoldsOldHead, InChain
<1>9. ValueInv'
  <2>1. \A q \in Producers : Holds(q)' => Holds(q)
    BY <1>2 DEF Holds
  <2> QED BY <2>1, <1>2 DEF IInv, ValueInv, Item
<1>10. DestroyInv'
  BY <1>2 DEF DestroyInv, IInv
<1>11. NoLeak'
  <2>1. \A q \in Producers : ppc[q] = "exchange" => ppc'[q] = "exchange"
    BY <1>2
  <2> QED BY <2>1, <1>2 DEF IInv, NoLeak, InChain
<1> QED BY <1>4, <1>5, <1>6, <1>7, <1>8, <1>9, <1>10, <1>11 DEF IInv

\* The steps of try_pop that only read: they move oldHead, nxt and ret.
LEMMA ReadIInv ==
    ASSUME IInv, LoadHead \/ ReadNextNull \/ ReadNext \/ CasFail
    PROVE  IInv'
<1> USE NullAssumption, MaxPushAssumption
<1>1. /\ UNCHANGED <<queueVars, producerVars, chain, phase, got>>
      /\ ~HoldsOldHead /\ ~HoldsOldHead'
      /\ phase = "used" /\ chain # <<>> /\ head = chain[1] /\ head \in Addr
  <2>1. phase = "used" /\ chain # <<>>
    BY DEF LoadHead, ReadNextNull, ReadNext, CasFail, IInv, DestroyInv, TypeOK, ListInv
  <2>2. chain \in Seq(Addr) /\ head = chain[1] /\ 1 \in 1..Len(chain)
    BY <2>1 DEF IInv, ListInv, TypeOK
  <2> QED BY <2>1, <2>2 DEF LoadHead, ReadNextNull, ReadNext, CasFail, HoldsOldHead
<1>2. TypeOK'
  <2>1. next \in [Addr -> Addr \union {Null}] /\ oldHead \in Addr \union {Null}
        /\ (cpc = "next" => oldHead = head)
    BY DEF IInv, TypeOK, ConsumerInv
  <2>2. /\ oldHead' \in Addr \union {Null} /\ nxt' \in Addr \union {Null}
        /\ ret' \in {"none", "true", "false"} /\ cpc' \in {"idle", "next", "cas", "take", "free"}
    BY <1>1, <2>1 DEF LoadHead, ReadNextNull, ReadNext, CasFail, IInv, TypeOK
  <2> QED BY <1>1, <2>2 DEF IInv, TypeOK, queueVars, producerVars
<1>3. ListInv' /\ HandInv' /\ LinkInv' /\ DestroyInv'
  BY <1>1 DEF IInv, ListInv, HandInv, LinkInv, DestroyInv, Pending, Holds, InChain, queueVars, producerVars
<1>4. ConsumerInv'
  <2>1. oldHead = head /\ next[oldHead] # Null => Len(chain) > 1 /\ next[head] = chain[2]
    <3>1. SUFFICES ASSUME next[head] # Null PROVE Len(chain) > 1 /\ next[head] = chain[2]
      OBVIOUS
    <3>2. Len(chain) \in Nat /\ Len(chain) # 0 /\ tail = chain[Len(chain)] /\ next[tail] = Null
      BY <1>1 DEF IInv, TypeOK, ListInv
    <3>3. Len(chain) > 1
      BY <3>1, <3>2, <1>1
    <3> QED BY <3>1, <3>3, <1>1 DEF IInv, ListInv, TypeOK
  <2> QED BY <2>1, <1>1 DEF LoadHead, ReadNextNull, ReadNext, CasFail, IInv, ConsumerInv, HoldsOldHead, queueVars, InChain
<1>5. ValueInv' /\ NoLeak'
  BY <1>1 DEF LoadHead, ReadNextNull, ReadNext, CasFail, IInv, ValueInv, NoLeak, Holds, HoldsOldHead, InChain, Item, queueVars, producerVars
<1> QED BY <1>2, <1>3, <1>4, <1>5 DEF IInv, ConsumerInv

\* Dropping the first node of the list keeps what is said of the others.
LEMMA DropFirst ==
    ASSUME TypeOK, ListInv, LinkInv, Len(chain) > 1, next[head] = chain[2],
           chain' = Tail(chain), head' = chain[2], tail' = tail, next' = next,
           UNCHANGED producerVars
    PROVE  /\ chain' \in Seq(Addr) /\ Len(chain') = Len(chain) - 1 /\ chain' # <<>>
           /\ \A i \in 1..Len(chain') : chain'[i] = chain[i + 1] /\ i + 1 \in 1..Len(chain)
           /\ head \in Addr /\ head = chain[1] /\ head' = chain'[1] /\ tail' = chain'[Len(chain')]
           /\ \A x : InChain(x) <=> InChain(x)' \/ x = head
           /\ \A i \in 1..Len(chain') : chain'[i] # head
           /\ \A i, j \in 1..Len(chain') : chain'[i] = chain'[j] => i = j
           /\ \A i \in 1..(Len(chain') - 1) :
                \/ next'[chain'[i]] = chain'[i + 1]
                \/ next'[chain'[i]] = Null /\ Pending(i)'
           /\ LinkInv'
<1> USE NullAssumption
<1>1. chain \in Seq(Addr) /\ chain # <<>>
  BY DEF TypeOK
<1>2. /\ chain' \in Seq(Addr) /\ Len(chain) \in Nat /\ Len(chain') = Len(chain) - 1
      /\ \A i \in 1..Len(chain') : chain'[i] = chain[i + 1] /\ i + 1 \in 1..Len(chain)
  <2>1. /\ Tail(chain) \in Seq(Addr) /\ Len(chain) \in Nat /\ Len(Tail(chain)) = Len(chain) - 1
        /\ \A i \in 1..(Len(chain) - 1) : Tail(chain)[i] = chain[i + 1]
    BY <1>1, TailFacts
  <2> QED BY <2>1
<1>3. chain' # <<>> /\ 1 \in 1..Len(chain) /\ chain[1] \in Addr /\ chain[2] \in Addr
  <2>1. Len(chain') # 0 /\ 1 \in 1..Len(chain) /\ 2 \in 1..Len(chain)
    BY <1>2
  <2>2. chain' # <<>>
    BY <2>1
  <2> QED BY <2>1, <2>2, <1>1
<1>4. head = chain[1] /\ head \in Addr /\ head' = chain'[1] /\ tail' = chain'[Len(chain')]
  BY <1>1, <1>2, <1>3 DEF ListInv
<1>5. \A i, j \in 1..Len(chain') : chain'[i] = chain'[j] => i = j
  BY <1>2 DEF ListInv
<1>6. ASSUME NEW i \in 1..Len(chain')
      PROVE  chain'[i] # head
  <2>1. chain'[i] = chain[i + 1] /\ i + 1 \in 1..Len(chain) /\ i + 1 # 1
    BY <1>2
  <2>2. chain[i + 1] # chain[1]
    BY <2>1, <1>3 DEF ListInv
  <2> QED BY <2>1, <2>2, <1>4
<1>7. \A x : InChain(x) <=> InChain(x)' \/ x = head
  <2>1. ASSUME NEW i \in 1..Len(chain), chain[i] # head
        PROVE  \E j \in 1..Len(chain') : chain'[j] = chain[i]
    <3>1. i # 1
      BY <2>1, <1>4
    <3>2. i - 1 \in 1..Len(chain') /\ chain'[i - 1] = chain[i]
      BY <3>1, <1>2
    <3> QED BY <3>2
  <2>2. \A j \in 1..Len(chain') : \E i \in 1..Len(chain) : chain[i] = chain'[j]
    BY <1>2
  <2>3. \A x : (\E i \in 1..Len(chain) : chain[i] = x) <=>
               (\E j \in 1..Len(chain') : chain'[j] = x) \/ x = head
    <3>1. ASSUME NEW x, NEW i \in 1..Len(chain), chain[i] = x, x # head
          PROVE  \E j \in 1..Len(chain') : chain'[j] = x
      BY <3>1, <2>1
    <3>2. ASSUME NEW x, NEW j \in 1..Len(chain'), chain'[j] = x
          PROVE  \E i \in 1..Len(chain) : chain[i] = x
      BY <3>2, <2>2
    <3>3. \E i \in 1..Len(chain) : chain[i] = head
      BY <1>3, <1>4
    <3> QED BY <3>1, <3>2, <3>3
  <2> QED BY <2>3 DEF InChain
<1>8. ASSUME NEW i \in 1..(Len(chain') - 1)
      PROVE  \/ next'[chain'[i]] = chain'[i + 1]
             \/ next'[chain'[i]] = Null /\ Pending(i)'
  <2>1. /\ i + 1 \in 1..(Len(chain) - 1) /\ chain'[i] = chain[i + 1]
        /\ chain'[i + 1] = chain[i + 1 + 1]
    BY <1>2
  <2>2. Pending(i + 1) => Pending(i)'
    BY <2>1 DEF Pending, producerVars
  <2> QED BY <2>1, <2>2 DEF ListInv
<1>9. LinkInv'
  <2>1. ASSUME NEW q \in Producers, ppc'[q] = "link"
        PROVE  \E i \in 1..(Len(chain') - 1) :
            oldTail'[q] = chain'[i] /\ newNode'[q] = chain'[i + 1] /\ next'[chain'[i]] = Null
    <3>1. PICK i \in 1..(Len(chain) - 1) :
              oldTail[q] = chain[i] /\ newNode[q] = chain[i + 1] /\ next[chain[i]] = Null
      BY <2>1 DEF LinkInv, producerVars
    <3>2. i # 1
      BY <3>1, <1>3, <1>4
    <3>3. i - 1 \in 1..(Len(chain') - 1) /\ chain'[i - 1] = chain[i] /\ chain'[i - 1 + 1] = chain[i + 1]
      BY <3>2, <1>2
    <3> QED BY <3>1, <3>3 DEF producerVars
  <2> QED BY <2>1 DEF LinkInv, producerVars
<1> QED BY <1>2, <1>3, <1>4, <1>5, <1>6, <1>7, <1>8, <1>9

LEMMA CasOkIInv == IInv /\ CasOk => IInv'
<1> SUFFICES ASSUME IInv, CasOk PROVE IInv'
  OBVIOUS
<1> USE NullAssumption
<1>1. /\ TypeOK /\ ListInv /\ LinkInv /\ Len(chain) > 1 /\ next[head] = chain[2]
      /\ chain' = Tail(chain) /\ head' = chain[2] /\ tail' = tail /\ next' = next
      /\ UNCHANGED producerVars
      /\ nxt = chain[2] /\ cpc = "cas" /\ oldHead = head
  BY DEF CasOk, IInv, ConsumerInv
<1>2. /\ chain' \in Seq(Addr) /\ Len(chain') = Len(chain) - 1 /\ chain' # <<>>
      /\ \A i \in 1..Len(chain') : chain'[i] = chain[i + 1] /\ i + 1 \in 1..Len(chain)
      /\ head \in Addr /\ head = chain[1] /\ head' = chain'[1] /\ tail' = chain'[Len(chain')]
      /\ \A x : InChain(x) <=> InChain(x)' \/ x = head
      /\ \A i \in 1..Len(chain') : chain'[i] # head
      /\ \A i, j \in 1..Len(chain') : chain'[i] = chain'[j] => i = j
      /\ \A i \in 1..(Len(chain') - 1) :
            \/ next'[chain'[i]] = chain'[i + 1]
            \/ next'[chain'[i]] = Null /\ Pending(i)'
      /\ LinkInv'
  BY <1>1, DropFirst
<1>3. /\ live' = live /\ value' = value /\ oldHead' = oldHead /\ nxt' = nxt /\ phase' = phase
      /\ cpc' = "take"
  BY DEF CasOk
<1>4. TypeOK'
  BY <1>1, <1>2, <1>3 DEF CasOk, TypeOK, producerVars
<1>5. ListInv'
  <2>1. next'[tail'] = Null
    BY <1>1 DEF ListInv
  <2>2. \A i \in 1..Len(chain') : chain'[i] \in live'
    BY <1>1, <1>2, <1>3 DEF ListInv
  <2> QED BY <1>2, <2>1, <2>2 DEF ListInv
<1>6. HandInv'
  <2>1. \A q \in Producers : Holds(q)' <=> Holds(q)
    BY <1>1 DEF Holds, producerVars
  <2>2. \A q \in Producers : Holds(q) => newNode[q] # head
    <3>1. InChain(head)
      BY <1>2
    <3> QED BY <3>1 DEF IInv, HandInv
  <2>3. \A q \in Producers : Holds(q) => ~InChain(newNode[q])
    BY DEF IInv, HandInv
  <2>4. ASSUME NEW q \in Producers, Holds(q)
        PROVE  \A i \in 1..Len(chain') : chain'[i] # newNode[q]
    BY <2>3, <2>4, <1>2 DEF InChain
  <2>5. newNode' = newNode
    BY <1>1 DEF producerVars
  <2> QED BY <2>1, <2>2, <2>4, <2>5, <1>1, <1>3 DEF IInv, HandInv, InChain
<1>7. ConsumerInv'
  <2>1. head \in live
    <3>1. 1 \in 1..Len(chain)
      BY <1>1, <1>2
    <3> QED BY <3>1, <1>2 DEF IInv, ListInv
  <2> QED BY <2>1, <1>1, <1>2, <1>3 DEF ConsumerInv, HoldsOldHead, InChain
<1>8. ValueInv'
  <2>1. value[chain[2]] \in Item
    <3>1. 2 \in 2..Len(chain)
      BY <1>1, <1>2
    <3> QED BY <3>1 DEF IInv, ValueInv
  <2>2. \A i \in 2..Len(chain') : value'[chain'[i]] \in Item
    <3>1. \A i \in 2..Len(chain') : i \in 1..Len(chain') /\ i + 1 \in 2..Len(chain)
      BY <1>1, <1>2
    <3> QED BY <3>1, <1>2, <1>3 DEF IInv, ValueInv
  <2> QED BY <2>1, <2>2, <1>1, <1>3 DEF IInv, ValueInv, Holds, producerVars, Item
<1>9. DestroyInv'
  BY <1>1, <1>3 DEF IInv, DestroyInv
<1>10. NoLeak'
  <2>1. ASSUME NEW a \in live
        PROVE  \/ \E i \in 1..Len(chain') : chain'[i] = a
               \/ \E q \in Producers : ppc'[q] = "exchange" /\ newNode'[q] = a
               \/ oldHead' = a
    <3>1. \/ InChain(a)
          \/ \E q \in Producers : ppc[q] = "exchange" /\ newNode[q] = a
      BY <1>1 DEF IInv, NoLeak
    <3>2. InChain(a) => a = head \/ \E i \in 1..Len(chain') : chain'[i] = a
      BY <1>2 DEF InChain
    <3> QED BY <3>1, <3>2, <1>1, <1>3 DEF producerVars
  <2> QED BY <2>1, <1>3 DEF NoLeak, InChain
<1> QED BY <1>2, <1>4, <1>5, <1>6, <1>7, <1>8, <1>9, <1>10 DEF IInv

LEMMA TakeIInv == IInv /\ Take => IInv'
<1> SUFFICES ASSUME IInv, Take PROVE IInv'
  OBVIOUS
<1> USE NullAssumption
<1>1. /\ UNCHANGED <<live, next, head, tail, producerVars, oldHead, nxt, ret, chain, phase>>
      /\ cpc = "take" /\ cpc' = "free" /\ phase = "used" /\ nxt = head /\ value[nxt] \in Item
      /\ \A a \in Addr : a # nxt => value'[a] = value[a]
  BY DEF Take, IInv, ConsumerInv, DestroyInv, ValueInv, TypeOK
<1>2. chain \in Seq(Addr) /\ chain # <<>> /\ head = chain[1] /\ 1 \in 1..Len(chain) /\ head \in Addr
  BY <1>1 DEF IInv, ListInv, TypeOK
<1>3. TypeOK'
  <2>1. value' \in [Addr -> Item \union {Null}]
    BY DEF IInv, TypeOK, Take
  <2>2. got' \in Seq(Item \union {Null})
    BY <1>1, AppendFacts DEF IInv, TypeOK, Take
  <2> QED BY <1>1, <2>1, <2>2 DEF IInv, TypeOK, producerVars
<1>4. ListInv' /\ HandInv' /\ LinkInv' /\ DestroyInv' /\ ConsumerInv' /\ NoLeak'
  BY <1>1 DEF IInv, ListInv, HandInv, LinkInv, DestroyInv, ConsumerInv, NoLeak, Pending,
              Holds, HoldsOldHead, InChain, producerVars
<1>5. ValueInv'
  <2>1. \A i \in 2..Len(chain) : chain[i] # nxt /\ chain[i] \in Addr
    BY <1>1, <1>2 DEF IInv, ListInv
  <2>2. \A q \in Producers : Holds(q) => newNode[q] # nxt /\ newNode[q] \in Addr
    BY <1>1, <1>2 DEF IInv, HandInv, InChain, TypeOK
  <2> QED BY <2>1, <2>2, <1>1 DEF IInv, ValueInv, Holds, producerVars, Item
<1> QED BY <1>3, <1>4, <1>5 DEF IInv

LEMMA FreeIInv == IInv /\ Free => IInv'
<1> SUFFICES ASSUME IInv, Free PROVE IInv'
  OBVIOUS
<1>1. /\ UNCHANGED <<next, value, head, tail, producerVars, oldHead, nxt, got, chain, phase>>
      /\ cpc = "free" /\ cpc' = "idle" /\ phase = "used" /\ live' = live \ {oldHead}
      /\ ~InChain(oldHead) /\ ret' \in {"none", "true", "false"}
  BY DEF Free, IInv, ConsumerInv, DestroyInv, HoldsOldHead, TypeOK
<1>2. TypeOK'
  BY <1>1 DEF IInv, TypeOK, producerVars
<1>3. ListInv'
  BY <1>1 DEF IInv, ListInv, Pending, InChain, producerVars
<1>4. HandInv'
  <2>1. HoldsOldHead /\ ~HoldsOldHead'
    BY <1>1 DEF HoldsOldHead
  <2> QED BY <1>1, <2>1 DEF IInv, HandInv, Holds, InChain, producerVars
<1>5. LinkInv' /\ DestroyInv' /\ ConsumerInv' /\ NoLeak'
  BY <1>1 DEF IInv, LinkInv, DestroyInv, ConsumerInv, NoLeak, HoldsOldHead, InChain, producerVars
<1>6. ValueInv'
  BY <1>1 DEF IInv, ValueInv, Holds, producerVars, Item
<1> QED BY <1>2, <1>3, <1>4, <1>5, <1>6 DEF IInv

LEMMA DestroyIInv == IInv /\ (DestroyBegin \/ DestroyNode) => IInv'
<1> SUFFICES ASSUME IInv, DestroyBegin \/ DestroyNode PROVE IInv'
  OBVIOUS
<1> USE NullAssumption
<1>1. CASE DestroyBegin
  <2>1. /\ UNCHANGED <<live, next, value, head, tail, producerVars, consumerVars, chain>>
        /\ phase = "used" /\ phase' = "destroying"
        /\ cpc = "idle" /\ \A p \in Producers : ppc[p] = "idle"
    BY <1>1 DEF DestroyBegin, queueVars
  <2> QED BY <2>1 DEF IInv, TypeOK, ListInv, HandInv, LinkInv, ConsumerInv, ValueInv,
                 DestroyInv, NoLeak, Pending, Holds, HoldsOldHead, InChain, Item,
                 producerVars, consumerVars
<1>2. CASE DestroyNode
  <2>1. /\ UNCHANGED <<next, value, tail, producerVars, consumerVars, phase>>
        /\ phase = "destroying" /\ head # Null /\ head' = next[head] /\ live' = live \ {head}
        /\ chain' = Tail(chain)
        /\ cpc = "idle" /\ \A p \in Producers : ppc[p] = "idle"
        /\ chain \in Seq(Addr) /\ chain # <<>> /\ head = chain[1]
        /\ tail = chain[Len(chain)] /\ next[tail] = Null
    BY <1>2 DEF DestroyNode, IInv, DestroyInv, ListInv, TypeOK
  <2>2. HandInv' /\ ConsumerInv' /\ DestroyInv'
    BY <2>1 DEF HandInv, ConsumerInv, DestroyInv, Holds, HoldsOldHead, producerVars, consumerVars
  <2>3. CASE Len(chain) = 1
    <3>1. chain' = <<>> /\ head' = Null
      <4>1. Tail(chain) \in Seq(Addr) /\ Len(Tail(chain)) = 0
        BY <2>1, <2>3, TailFacts
      <4> QED BY <2>1, <2>3, <4>1
    <3>2. TypeOK'
      BY <2>1, <3>1 DEF IInv, TypeOK, producerVars, consumerVars
    <3>3. ListInv' /\ LinkInv' /\ ValueInv'
      <4>1. Len(chain') = 0
        BY <3>1
      <4>2. ppc' = ppc /\ cpc' = cpc /\ phase' = phase
        BY <2>1 DEF producerVars, consumerVars
      <4>3. ListInv'
        <5>1. \A i \in 1..Len(chain') : FALSE
          BY <4>1
        <5>2. \A i \in 1..(Len(chain') - 1) : FALSE
          BY <4>1
        <5> QED BY <2>1, <3>1, <4>2, <5>1, <5>2 DEF ListInv
      <4>4. LinkInv' /\ ValueInv'
        BY <2>1, <4>1, <4>2 DEF LinkInv, ValueInv, Holds
      <4> QED BY <4>3, <4>4
    <3>4. live' = {}
      BY <2>1, <2>3 DEF IInv, NoLeak, InChain
    <3> QED BY <2>2, <3>2, <3>3, <3>4 DEF IInv, NoLeak
  <2>4. CASE Len(chain) # 1
    <3>1. Len(chain) \in Nat /\ Len(chain) > 1 /\ 1 \in 1..(Len(chain) - 1)
      <4>1. Len(chain) \in Nat /\ Len(chain) >= 1
        BY <2>1, TailFacts
      <4>2. \A n \in Nat : n >= 1 /\ n # 1 => n > 1 /\ 1 \in 1..(n - 1)
        OBVIOUS
      <4> QED BY <2>4, <4>1, <4>2
    <3>2. next[head] = chain[2]
      BY <2>1, <3>1 DEF IInv, ListInv, Pending
    <3>3. /\ chain' \in Seq(Addr) /\ Len(chain') = Len(chain) - 1 /\ chain' # <<>>
          /\ \A i \in 1..Len(chain') : chain'[i] = chain[i + 1] /\ i + 1 \in 1..Len(chain)
          /\ head \in Addr /\ head = chain[1] /\ head' = chain'[1] /\ tail' = chain'[Len(chain')]
          /\ \A x : InChain(x) <=> InChain(x)' \/ x = head
          /\ \A i \in 1..Len(chain') : chain'[i] # head
          /\ \A i, j \in 1..Len(chain') : chain'[i] = chain'[j] => i = j
          /\ \A i \in 1..(Len(chain') - 1) :
                \/ next'[chain'[i]] = chain'[i + 1]
                \/ next'[chain'[i]] = Null /\ Pending(i)'
          /\ LinkInv'
      BY <2>1, <3>1, <3>2, DropFirst DEF IInv
    <3>4. TypeOK'
      BY <2>1, <3>3 DEF IInv, TypeOK, producerVars, consumerVars
    <3>5. ListInv'
      <4>1. \A i \in 1..Len(chain') : chain'[i] \in live'
        BY <2>1, <3>3 DEF IInv, ListInv
      <4> QED BY <2>1, <3>3, <4>1 DEF ListInv
    <3>6. ValueInv'
      <4>1. \A i \in 2..Len(chain') : i \in 1..Len(chain') /\ i + 1 \in 2..Len(chain)
        BY <3>1, <3>3
      <4> QED BY <2>1, <3>3, <4>1 DEF IInv, ValueInv, Holds, producerVars, consumerVars
    <3>7. NoLeak'
      <4>1. \A a \in live : InChain(a)
        BY <2>1 DEF IInv, NoLeak
      <4> QED BY <4>1, <2>1, <3>3 DEF NoLeak, InChain
    <3> QED BY <2>2, <3>3, <3>4, <3>5, <3>6, <3>7 DEF IInv
  <2> QED BY <2>3, <2>4
<1> QED BY <1>1, <1>2

\* Every step of the queue preserves the inductive invariant.
LEMMA NextIInv == IInv /\ [Next]_vars => IInv'
<1> SUFFICES ASSUME IInv, [Next]_vars PROVE IInv'
  OBVIOUS
<1>1. ASSUME NEW p \in Producers, PushStep(p) PROVE IInv'
  BY <1>1, AllocateIInv, ExchangeIInv, LinkIInv DEF PushStep
<1>2. CASE PopStep
  BY <1>2, ReadIInv, CasOkIInv, TakeIInv, FreeIInv DEF PopStep
<1>3. CASE DestroyBegin \/ DestroyNode
  BY <1>3, DestroyIInv
<1>4. CASE UNCHANGED vars
  BY <1>4 DEF vars, queueVars, producerVars, consumerVars, IInv, TypeOK, ListInv, HandInv,
              LinkInv, ConsumerInv, ValueInv, DestroyInv, NoLeak, Pending, Holds,
              HoldsOldHead, InChain, Item
<1> QED BY <1>1, <1>2, <1>3, <1>4 DEF Next

\* The pointers of the queue always agree with the list of its nodes.
THEOREM Invariance == Spec => []IInv
<1> QED BY InitIInv, NextIInv, PTL DEF Spec

\* The variables of the queue keep their types.
THEOREM TypeCorrect == Spec => []TypeOK
<1>1. IInv => TypeOK
  BY DEF IInv
<1> QED BY <1>1, Invariance, PTL

\* No thread in push or try_pop touches a node that has been deleted.
THEOREM MemorySafe == Spec => []NoUseAfterFree
<1>1. ASSUME IInv PROVE NoUseAfterFree
  <2>1. \A p \in Producers : ppc[p] = "exchange" => newNode[p] \in live
    BY <1>1 DEF IInv, HandInv, Holds
  <2>2. \A p \in Producers : ppc[p] = "link" => oldTail[p] \in live
    BY <1>1 DEF IInv, LinkInv, ListInv, TypeOK
  <2>3. head \in live \/ phase = "destroying"
    BY <1>1 DEF IInv, ListInv, TypeOK
  <2>4. cpc \in {"next", "free"} => oldHead \in live
    BY <1>1, <2>3 DEF IInv, ConsumerInv, HoldsOldHead, DestroyInv
  <2>5. cpc = "take" => {nxt, oldHead} \subseteq live
    BY <1>1, <2>3 DEF IInv, ConsumerInv, HoldsOldHead, DestroyInv
  <2> QED BY <2>1, <2>2, <2>4, <2>5 DEF NoUseAfterFree
<1> QED BY <1>1, Invariance, PTL

\* Every allocated node will be deleted by somebody; after the destructor none is left.
THEOREM NothingLeaks == Spec => []NoLeak
<1>1. IInv => NoLeak
  BY DEF IInv
<1> QED BY <1>1, Invariance, PTL

\* A false answer of try_pop: the list is empty, or its first link is pending.
THEOREM EmptyAnswerCorrect == Spec => EmptyAnswer
<1> DEFINE Answer ==
        (cpc # "idle" /\ cpc' = "idle" /\ ret' = "false") =>
            \/ Len(chain) = 1
            \/ \E p \in Producers : ppc[p] = "link" /\ oldTail[p] = chain[1]
<1>1. ASSUME IInv, [Next]_vars PROVE [Answer]_vars
  <2>1. CASE ReadNextNull
    <3>1. head = chain[1] /\ chain # <<>> /\ chain \in Seq(Addr) /\ next[chain[1]] = Null
      BY <1>1, <2>1 DEF ReadNextNull, IInv, ConsumerInv, ListInv, DestroyInv, TypeOK
    <3>2. Len(chain) # 1 => 1 \in 1..(Len(chain) - 1) /\ chain[2] \in Addr
      <4>1. Len(chain) \in Nat /\ Len(chain) >= 1
        BY <3>1, TailFacts
      <4>2. \A n \in Nat : n >= 1 /\ n # 1 => 1 \in 1..(n - 1) /\ 2 \in 1..n
        OBVIOUS
      <4>3. Len(chain) # 1 => 1 \in 1..(Len(chain) - 1) /\ 2 \in 1..Len(chain)
        BY <4>1, <4>2
      <4> QED BY <3>1, <4>3, ElementOfSeq
    <3> QED BY <1>1, <3>1, <3>2, NullAssumption DEF IInv, ListInv, Pending
  <2>2. CASE ~ReadNextNull
    <3>1. cpc' = "idle" => cpc = "idle" \/ ret' = "true"
      BY <1>1, <2>2 DEF Next, PushStep, PopStep, Allocate, Exchange, Link, LoadHead, ReadNext,
                 CasOk, CasFail, Take, Free, DestroyBegin, DestroyNode, vars, consumerVars
    <3> QED BY <3>1
  <2> QED BY <2>1, <2>2
<1> QED BY <1>1, Invariance, PTL DEF Spec, EmptyAnswer

\* What a list of nodes holds, its first node apart.
ValuesOf(c, v) == [i \in 1..(Len(c) - 1) |-> v[c[i + 1]]]

LEMMA ValuesOfFacts ==
    ASSUME NEW c \in Seq(Addr), c # <<>>, NEW v,
           \A i \in 2..Len(c) : v[c[i]] \in Item
    PROVE  /\ ValuesOf(c, v) \in Seq(Item)
           /\ Len(ValuesOf(c, v)) = Len(c) - 1
           /\ \A i \in 1..(Len(c) - 1) : ValuesOf(c, v)[i] = v[c[i + 1]]
<1> DEFINE n == Len(c) - 1
<1>1. n \in Nat
  BY TailFacts
<1>2. \A i \in 1..n : v[c[i + 1]] \in Item
  <2>1. \A i \in 1..n : i + 1 \in 2..Len(c)
    BY <1>1
  <2> QED BY <2>1
<1>3. ValuesOf(c, v) = [i \in 1..n |-> v[c[i + 1]]]
  BY DEF ValuesOf
<1> HIDE DEF n
<1>4. ValuesOf(c, v) \in Seq(Item) /\ Len(ValuesOf(c, v)) = n
  BY <1>1, <1>2, <1>3
<1> QED BY <1>3, <1>4 DEF n

\* Contents is a sequence of items while the queue is in use.
LEMMA ContentsFacts ==
    ASSUME IInv, phase = "used"
    PROVE  /\ Contents \in Seq(Item) /\ Len(Contents) = Len(chain) - 1
           /\ \A i \in 1..(Len(chain) - 1) : Contents[i] = value[chain[i + 1]]
<1>1. Contents = ValuesOf(chain, value)
  BY DEF Contents, ValuesOf
<1>2. /\ chain \in Seq(Addr) /\ chain # <<>>
      /\ \A i \in 2..Len(chain) : value[chain[i]] \in Item
  BY DEF IInv, TypeOK, ListInv, ValueInv
<1> QED BY <1>1, <1>2, ValuesOfFacts

LEMMA ContentsFactsPrime ==
    ASSUME IInv', phase' = "used"
    PROVE  /\ Contents' \in Seq(Item) /\ Len(Contents') = Len(chain') - 1
           /\ \A i \in 1..(Len(chain') - 1) : Contents'[i] = value'[chain'[i + 1]]
<1>1. Contents' = ValuesOf(chain', value')
  BY DEF Contents, ValuesOf
<1>2. /\ chain' \in Seq(Addr) /\ chain' # <<>>
      /\ \A i \in 2..Len(chain') : value'[chain'[i]] \in Item
  BY DEF IInv, TypeOK, ListInv, ValueInv, Item
<1> QED BY <1>1, <1>2, ValuesOfFacts

\* A push takes effect when it exchanges tail_.
LEMMA ExchangeRefines ==
    ASSUME IInv, NEW p \in Producers, Exchange(p)
    PROVE  Fifo!Next
<1>1. IInv'
  BY ExchangeIInv
<1>2. phase = "used" /\ phase' = "used" /\ value' = value /\ newNode[p] \in Addr
      /\ chain \in Seq(Addr) /\ chain # <<>> /\ chain' = Append(chain, newNode[p])
  BY DEF Exchange, IInv, TypeOK, DestroyInv, HandInv, Holds, ListInv
<1>3. /\ Len(chain) \in Nat /\ Len(chain) >= 1 /\ Len(chain') = Len(chain) + 1
      /\ \A i \in 1..Len(chain) : chain'[i] = chain[i]
      /\ chain'[Len(chain) + 1] = newNode[p]
  BY <1>2, TailFacts, AppendFacts
<1>4. value[newNode[p]] \in Item
  BY DEF Exchange, IInv, ValueInv, Holds
<1>5. Contents' = Append(Contents, value[newNode[p]])
  <2> DEFINE s == Append(Contents, value[newNode[p]])
  <2>1. /\ Contents \in Seq(Item) /\ Len(Contents) = Len(chain) - 1
        /\ \A i \in 1..(Len(chain) - 1) : Contents[i] = value[chain[i + 1]]
    BY <1>2, ContentsFacts
  <2>2. /\ Contents' \in Seq(Item) /\ Len(Contents') = Len(chain)
        /\ \A i \in 1..Len(chain) : Contents'[i] = value[chain'[i + 1]]
    <3>1. /\ Contents' \in Seq(Item) /\ Len(Contents') = Len(chain') - 1
          /\ \A i \in 1..(Len(chain') - 1) : Contents'[i] = value'[chain'[i + 1]]
      BY <1>1, <1>2, ContentsFactsPrime
    <3> QED BY <3>1, <1>2, <1>3
  <2>3. /\ s \in Seq(Item) /\ Len(s) = Len(chain)
        /\ \A i \in 1..(Len(chain) - 1) : s[i] = Contents[i]
        /\ s[Len(chain)] = value[newNode[p]]
    BY <2>1, <1>3, <1>4, AppendFacts
  <2>4. ASSUME NEW i \in 1..Len(chain) PROVE Contents'[i] = s[i]
    <3>1. CASE i = Len(chain)
      BY <3>1, <2>2, <2>3, <1>3
    <3>2. CASE i # Len(chain)
      BY <3>2, <2>1, <2>2, <2>3, <1>3, SMTT(30)
    <3> QED BY <3>1, <3>2
  <2> QED BY <2>2, <2>3, <2>4, SeqEqual
<1>6. Delivered' = Delivered
  BY DEF Exchange, Delivered, consumerVars
<1> QED BY <1>4, <1>5, <1>6 DEF Fifo!Next, Fifo!Push

\* A pop takes effect when it swings head_.
LEMMA CasOkRefines == IInv /\ CasOk => Fifo!Next
<1> SUFFICES ASSUME IInv, CasOk PROVE Fifo!Next
  OBVIOUS
<1>1. IInv'
  BY CasOkIInv
<1>2. /\ phase = "used" /\ phase' = "used" /\ value' = value /\ got' = got /\ nxt' = nxt
      /\ cpc = "cas" /\ cpc' = "take" /\ nxt = chain[2] /\ Len(chain) > 1
      /\ chain \in Seq(Addr) /\ chain' = Tail(chain)
  BY DEF CasOk, IInv, ConsumerInv, DestroyInv, TypeOK
<1>3. /\ Len(chain) \in Nat /\ Len(chain') = Len(chain) - 1
      /\ \A i \in 1..(Len(chain) - 1) : chain'[i] = chain[i + 1]
  <2>1. chain # <<>>
    BY <1>2
  <2> QED BY <1>2, <2>1, TailFacts
<1>4. /\ Contents \in Seq(Item) /\ Len(Contents) = Len(chain) - 1
      /\ \A i \in 1..(Len(chain) - 1) : Contents[i] = value[chain[i + 1]]
  BY <1>2, ContentsFacts
<1>5. Contents # <<>>
  BY <1>2, <1>3, <1>4
<1>6. Head(Contents) = value[nxt]
  <2>1. 1 \in 1..(Len(chain) - 1)
    BY <1>2, <1>3
  <2>2. Head(Contents) = Contents[1]
    BY <1>4, <1>5, TailFacts
  <2> QED BY <2>1, <2>2, <1>2, <1>4
<1>7. Contents' = Tail(Contents)
  <2>1. /\ Contents' \in Seq(Item) /\ Len(Contents') = Len(chain') - 1
        /\ \A i \in 1..(Len(chain') - 1) : Contents'[i] = value'[chain'[i + 1]]
    BY <1>1, <1>2, ContentsFactsPrime
  <2>2. /\ Tail(Contents) \in Seq(Item) /\ Len(Tail(Contents)) = Len(Contents) - 1
        /\ \A i \in 1..(Len(Contents) - 1) : Tail(Contents)[i] = Contents[i + 1]
    BY <1>4, <1>5, TailFacts
  <2>3. ASSUME NEW i \in 1..Len(Contents')
        PROVE  Contents'[i] = Tail(Contents)[i]
    <3>1. /\ i \in 1..(Len(chain') - 1) /\ i \in 1..(Len(Contents) - 1)
          /\ i + 1 \in 1..(Len(chain) - 1)
      BY <2>1, <1>3, <1>4
    <3>2. Contents'[i] = value'[chain'[i + 1]]
      BY <3>1, <2>1
    <3>3. chain'[i + 1] = chain[i + 2] /\ value' = value
      BY <3>1, <1>2, <1>3
    <3>4. Tail(Contents)[i] = Contents[i + 1]
      BY <3>1, <2>2
    <3>5. Contents[i + 1] = value[chain[i + 2]]
      BY <3>1, <1>4
    <3> QED BY <3>2, <3>3, <3>4, <3>5
  <2>4. Len(Contents') = Len(Tail(Contents))
    BY <2>1, <2>2, <1>3, <1>4
  <2> QED BY <2>1, <2>2, <2>3, <2>4, SeqEqual
<1>8. Delivered = got /\ Delivered' = Append(got, value[nxt])
  BY <1>2 DEF Delivered
<1> QED BY <1>5, <1>6, <1>7, <1>8 DEF Fifo!Next, Fifo!Pop

\* The steps that touch a node outside the list, or nothing the users see.
LEMMA QuietRefines ==
    ASSUME IInv, IInv',
           \/ \E p \in Producers : Allocate(p) \/ Link(p)
           \/ LoadHead \/ ReadNextNull \/ ReadNext \/ CasFail \/ Take \/ Free
    PROVE  UNCHANGED <<Contents, Delivered>>
<1>1. phase = "used" /\ phase' = "used" /\ chain' = chain /\ chain \in Seq(Addr) /\ chain # <<>>
  BY DEF IInv, DestroyInv, ListInv, TypeOK, Allocate, Link, LoadHead, ReadNextNull, ReadNext,
         CasFail, Take, Free
<1>2. \A i \in 2..Len(chain) : value'[chain[i]] = value[chain[i]]
  <2>1. ASSUME NEW p \in Producers, Allocate(p)
        PROVE  \A i \in 2..Len(chain) : value'[chain[i]] = value[chain[i]]
    <3>1. PICK a \in Addr \ live : value' = [value EXCEPT ![a] = <<p, pushes[p] + 1>>]
      BY <2>1 DEF Allocate
    <3>2. \A i \in 2..Len(chain) : chain[i] # a /\ chain[i] \in Addr
      BY <1>1, <3>1 DEF IInv, ListInv
    <3> QED BY <3>1, <3>2 DEF IInv, TypeOK
  <2>2. CASE Take
    <3>1. nxt = chain[1] /\ value' = [value EXCEPT ![nxt] = Null]
      BY <2>2, <1>1 DEF Take, IInv, ConsumerInv, ListInv
    <3>2. \A i \in 2..Len(chain) : chain[i] # nxt /\ chain[i] \in Addr
      <4>1. Len(chain) \in Nat /\ 1 \in 1..Len(chain)
        BY <1>1, TailFacts
      <4> QED BY <1>1, <3>1, <4>1 DEF IInv, ListInv
    <3> QED BY <3>1, <3>2 DEF IInv, TypeOK
  <2>3. ~Take /\ (\A p \in Producers : ~Allocate(p)) => value' = value
    BY DEF Link, LoadHead, ReadNextNull, ReadNext, CasFail, Free, queueVars
  <2> QED BY <2>1, <2>2, <2>3
<1>3. Contents' = Contents
  <2>1. /\ Contents \in Seq(Item) /\ Len(Contents) = Len(chain) - 1
        /\ \A i \in 1..(Len(chain) - 1) : Contents[i] = value[chain[i + 1]]
    BY <1>1, ContentsFacts
  <2>2. /\ Contents' \in Seq(Item) /\ Len(Contents') = Len(chain) - 1
        /\ \A i \in 1..(Len(chain) - 1) : Contents'[i] = value'[chain[i + 1]]
    BY <1>1, ContentsFactsPrime
  <2>3. \A i \in 1..(Len(chain) - 1) : i + 1 \in 2..Len(chain)
    BY <1>1, TailFacts
  <2>4. \A i \in 1..Len(Contents) : Contents'[i] = Contents[i]
    BY <2>1, <2>2, <2>3, <1>2
  <2> QED BY <2>1, <2>2, <2>4, SeqEqual
<1>4. Delivered' = Delivered
  <2>1. ASSUME NEW p \in Producers, Allocate(p) PROVE Delivered' = Delivered
    <3>1. PICK a \in Addr \ live : value' = [value EXCEPT ![a] = <<p, pushes[p] + 1>>]
      BY <2>1 DEF Allocate
    <3>2. 1 \in 1..Len(chain)
      BY <1>1, TailFacts
    <3>3. cpc = "take" => nxt # a /\ nxt \in Addr
      BY <1>1, <3>1, <3>2 DEF IInv, ConsumerInv, ListInv
    <3> QED BY <2>1, <3>1, <3>3 DEF Allocate, Delivered, consumerVars, IInv, TypeOK
  <2>2. ASSUME NEW p \in Producers, Link(p) PROVE Delivered' = Delivered
    BY <2>2 DEF Link, Delivered, consumerVars
  <2>3. CASE LoadHead \/ ReadNextNull \/ ReadNext \/ CasFail \/ Take \/ Free
    BY <2>3 DEF LoadHead, ReadNextNull, ReadNext, CasFail, Take, Free, Delivered, queueVars
  <2> QED BY <2>1, <2>2, <2>3
<1> QED BY <1>3, <1>4

\* The linked queue implements the atomic queue.
THEOREM Refinement == Spec => ImplementsFifo
<1>1. Init => Fifo!Init
  <2> SUFFICES ASSUME Init PROVE Fifo!Init
    OBVIOUS
  <2>1. Len(chain) = 1 /\ phase = "used" /\ cpc = "idle" /\ got = <<>>
    BY DEF Init
  <2>2. Contents \in Seq(Item) /\ Len(Contents) = 0
    BY <2>1, InitIInv, ContentsFacts
  <2> QED BY <2>1, <2>2 DEF Fifo!Init, Delivered
<1>2. IInv /\ IInv' /\ [Next]_vars => [Fifo!Next]_Fifo!vars
  <2> SUFFICES ASSUME IInv, IInv', [Next]_vars PROVE [Fifo!Next]_Fifo!vars
    OBVIOUS
  <2>1. ASSUME NEW p \in Producers, PushStep(p) PROVE [Fifo!Next]_Fifo!vars
    BY <2>1, ExchangeRefines, QuietRefines DEF PushStep, Fifo!vars
  <2>2. CASE PopStep
    BY <2>2, CasOkRefines, QuietRefines DEF PopStep, Fifo!vars
  <2>3. CASE DestroyBegin
    BY <2>3 DEF DestroyBegin, Contents, Delivered, consumerVars, queueVars, Fifo!Next, Fifo!Destroy
  <2>4. CASE DestroyNode
    BY <2>4 DEF DestroyNode, Contents, Delivered, consumerVars, IInv, DestroyInv, Fifo!vars
  <2>5. CASE UNCHANGED vars
    BY <2>5 DEF vars, queueVars, producerVars, consumerVars, Contents, Delivered, Fifo!vars
  <2> QED BY <2>1, <2>2, <2>3, <2>4, <2>5 DEF Next
<1> QED BY <1>1, <1>2, Invariance, PTL DEF Spec, ImplementsFifo, Fifo!Spec

=============================================================================
