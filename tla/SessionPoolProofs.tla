------------------------- MODULE SessionPoolProofs -------------------------
(***************************************************************************)
(* For any number of sessions, of goroutines using them and of goroutines    *)
(* closing the pool: a session is in one place at a time, and none is        *)
(* destroyed while an inference can reach it.                                *)
(***************************************************************************)
EXTENDS SessionPool, FiniteSetTheorems, TLAPS

(* Once the channel is closed Close has received every session, and only then  *)
(* does it destroy any.                                                        *)
ClosedIsDrained ==
  /\ chanClosed => drained = Sessions
  /\ destroyed # {} => chanClosed
  /\ \A c \in Closers : pc[c] = "destroying" => chanClosed

HoldersAreInside ==
  \A w \in Workers : Holding(w) <=> pc[w] \in {"received", "running"}

IInv == TypeOK /\ OneHolder /\ ClosedIsDrained /\ HoldersAreInside

LEMMA DrainedByCount ==
  ASSUME PoolAssumption, drained \subseteq Sessions,
         Cardinality(drained) = Cardinality(Sessions)
  PROVE  drained = Sessions
<1>1. drained \in SUBSET Sessions /\ IsFiniteSet(Sessions)
  BY DEF PoolAssumption
<1>2. Cardinality(Sessions) = Cardinality(drained)
  OBVIOUS
<1>3. Cardinality(Sessions) = Cardinality(drained) => Sessions = drained
  BY <1>1, FS_Subset, Zenon
<1> QED BY <1>2, <1>3

LEMMA InitIInv == PoolAssumption /\ Init => IInv
BY DEF PoolAssumption, Init, IInv, TypeOK, OneHolder, ClosedIsDrained, HoldersAreInside, Holding

LEMMA SendBackIInv ==
  ASSUME PoolAssumption, IInv, NEW w \in Workers,
         NEW from \in {"received", "running"}, SendBack(w, from)
  PROVE  IInv'
<1>1. Holding(w)
  BY DEF IInv, HoldersAreInside, SendBack, Goto
<1>2. TypeOK'
  BY <1>1 DEF IInv, TypeOK, SendBack, Goto, Holding
<1>3. OneHolder'
  BY <1>1 DEF IInv, TypeOK, OneHolder, SendBack, Goto, Holding, PoolAssumption
<1>4. ClosedIsDrained'
  BY DEF IInv, TypeOK, ClosedIsDrained, SendBack, Goto, PoolAssumption
<1>5. HoldersAreInside'
  BY <1>1 DEF IInv, TypeOK, HoldersAreInside, SendBack, Goto, Holding, PoolAssumption
<1> QED BY <1>2, <1>3, <1>4, <1>5 DEF IInv

(* Steps that move a goroutine without moving a session. *)
LEMMA StayIInv ==
  ASSUME PoolAssumption, IInv, NEW w \in Workers,
         \/ Goto(w, "idle", "select")
         \/ Goto(w, "select", "idle")
         \/ Goto(w, "received", "running"),
         UNCHANGED <<closed, free, drained, chanClosed, destroyed, held>>
  PROVE  IInv'
<1>1. TypeOK'
  BY DEF IInv, TypeOK, Goto
<1>2. OneHolder'
  BY DEF IInv, OneHolder, Holding
<1>3. ClosedIsDrained'
  BY DEF IInv, TypeOK, ClosedIsDrained, Goto, PoolAssumption
<1>4. HoldersAreInside'
  BY DEF IInv, TypeOK, HoldersAreInside, Goto, Holding, PoolAssumption
<1> QED BY <1>1, <1>2, <1>3, <1>4 DEF IInv

LEMMA ReceiveIInv ==
  ASSUME PoolAssumption, IInv, NEW w \in Workers, Receive(w)
  PROVE  IInv'
<1>1. TypeOK'
  BY DEF IInv, TypeOK, Receive, Goto
<1>2. OneHolder'
  BY DEF IInv, TypeOK, OneHolder, Receive, Goto, Holding, PoolAssumption
<1>3. ClosedIsDrained'
  BY DEF IInv, TypeOK, ClosedIsDrained, Receive, Goto, PoolAssumption
<1>4. HoldersAreInside'
  BY DEF IInv, TypeOK, HoldersAreInside, Receive, Goto, Holding, PoolAssumption
<1> QED BY <1>1, <1>2, <1>3, <1>4 DEF IInv

LEMMA CloserIInv ==
  ASSUME PoolAssumption, IInv, NEW c \in Closers, Swap(c) \/ Close(c)
  PROVE  IInv'
<1>1. CASE Swap(c)
  <2>1. TypeOK'
    BY <1>1 DEF IInv, TypeOK, Swap, Goto
  <2>2. OneHolder' /\ HoldersAreInside'
    BY <1>1 DEF IInv, TypeOK, OneHolder, HoldersAreInside, Swap, Goto, Holding, PoolAssumption
  <2>3. ClosedIsDrained'
    BY <1>1 DEF IInv, TypeOK, ClosedIsDrained, Swap, Goto, PoolAssumption
  <2> QED BY <2>1, <2>2, <2>3 DEF IInv
<1>2. CASE Drain(c)
  <2>0. drained # Sessions
    BY <1>2, FS_CardinalityType DEF PoolAssumption, Drain
  <2>1. TypeOK'
    BY <1>2 DEF IInv, TypeOK, Drain
  <2>2. OneHolder' /\ HoldersAreInside'
    BY <1>2 DEF IInv, TypeOK, OneHolder, HoldersAreInside, Drain, Holding
  <2>3. ClosedIsDrained'
    BY <1>2, <2>0 DEF IInv, TypeOK, ClosedIsDrained, Drain
  <2> QED BY <2>1, <2>2, <2>3 DEF IInv
<1>3. CASE Drained(c)
  <2>0. drained = Sessions
    BY <1>3, DrainedByCount DEF IInv, TypeOK, Drained
  <2>1. TypeOK'
    BY <1>3 DEF IInv, TypeOK, Drained, Goto
  <2>2. OneHolder' /\ HoldersAreInside'
    BY <1>3 DEF IInv, TypeOK, OneHolder, HoldersAreInside, Drained, Goto, Holding, PoolAssumption
  <2>3. ClosedIsDrained'
    BY <1>3, <2>0 DEF IInv, TypeOK, ClosedIsDrained, Drained, Goto, PoolAssumption
  <2> QED BY <2>1, <2>2, <2>3 DEF IInv
<1>4. CASE Destroy(c)
  <2>1. TypeOK'
    BY <1>4 DEF IInv, TypeOK, Destroy
  <2>2. OneHolder' /\ HoldersAreInside' /\ ClosedIsDrained'
    BY <1>4 DEF IInv, OneHolder, HoldersAreInside, ClosedIsDrained, Destroy, Holding
  <2> QED BY <2>1, <2>2 DEF IInv
<1>5. CASE CloseReturns(c)
  <2>1. TypeOK'
    BY <1>5 DEF IInv, TypeOK, CloseReturns, Goto
  <2>2. OneHolder' /\ HoldersAreInside'
    BY <1>5 DEF IInv, TypeOK, OneHolder, HoldersAreInside, CloseReturns, Goto, Holding, PoolAssumption
  <2>3. ClosedIsDrained'
    BY <1>5 DEF IInv, TypeOK, ClosedIsDrained, CloseReturns, Goto, PoolAssumption
  <2> QED BY <2>1, <2>2, <2>3 DEF IInv
<1> QED BY <1>1, <1>2, <1>3, <1>4, <1>5 DEF Close

LEMMA NextIInv == PoolAssumption /\ IInv /\ [Next]_vars => IInv'
<1> SUFFICES ASSUME PoolAssumption, IInv, [Next]_vars PROVE IInv'
  OBVIOUS
<1>1. ASSUME NEW w \in Workers, Enter(w) PROVE IInv'
  BY <1>1, StayIInv DEF Enter
<1>2. ASSUME NEW w \in Workers, Receive(w) PROVE IInv'
  BY <1>2, ReceiveIInv
<1>3. ASSUME NEW w \in Workers, FindClosed(w) PROVE IInv'
  BY <1>3, StayIInv DEF FindClosed
<1>4. ASSUME NEW w \in Workers, Recheck(w) PROVE IInv'
  <2>1. CASE SendBack(w, "received")
    BY <2>1, SendBackIInv
  <2>2. CASE ~SendBack(w, "received")
    BY <1>4, <2>2, StayIInv DEF Recheck
  <2> QED BY <2>1, <2>2
<1>5. ASSUME NEW w \in Workers, GiveUp(w) PROVE IInv'
  BY <1>5, StayIInv DEF GiveUp
<1>6. ASSUME NEW w \in Workers, Release(w) PROVE IInv'
  BY <1>6, SendBackIInv DEF Release
<1>7. ASSUME NEW c \in Closers, Swap(c) \/ Close(c) PROVE IInv'
  BY <1>7, CloserIInv
<1>8. CASE UNCHANGED vars
  BY <1>8 DEF vars, IInv, TypeOK, OneHolder, ClosedIsDrained, HoldersAreInside, Holding
<1> QED BY <1>1, <1>2, <1>3, <1>4, <1>5, <1>6, <1>7, <1>8 DEF Next, Acquire

(* The strengthening holds in every state of the pool. *)
THEOREM PoolInvariance == Spec => []IInv
BY PoolAssumption, InitIInv, NextIInv, PTL DEF Spec

(* Type correctness. *)
THEOREM PoolTypeCorrect == Spec => []TypeOK
BY PoolInvariance, PTL DEF IInv

(* No session is ever inside two inferences. *)
THEOREM SessionsAreExclusive == Spec => []OneHolder
BY PoolInvariance, PTL DEF IInv

(* Close destroys no session that an inference holds: a held session is not     *)
(* among the drained, and none is destroyed until all are.                      *)
THEOREM NothingDestroyedInUse == Spec => []NoUseAfterDestroy
<1>1. IInv => NoUseAfterDestroy
  BY DEF IInv, TypeOK, OneHolder, ClosedIsDrained, NoUseAfterDestroy, Holding
<1> QED BY <1>1, PoolInvariance, PTL

(* No session is sent to a closed channel. *)
THEOREM HandingBackNeverPanics == Spec => []SendIsSafe
<1>1. IInv => SendIsSafe
  BY DEF IInv, TypeOK, OneHolder, ClosedIsDrained, SendIsSafe, Holding
<1> QED BY <1>1, PoolInvariance, PTL
============================================================================
