---------------------------- MODULE SessionPool ----------------------------
(***************************************************************************)
(* internal/biometric/onnx/pool.go: the loaded copies of one model, the      *)
(* inferences that borrow them through Use, and the Close that destroys      *)
(* them.                                                                     *)
(*                                                                           *)
(* free is the buffered channel's content; its order is not modelled, every  *)
(* session being a copy of the same model.  Each access to the atomic flag   *)
(* and to the channel is a step of its own.                                  *)
(***************************************************************************)
EXTENDS Integers, FiniteSets

CONSTANTS
  Sessions,   \* the copies loaded; the capacity of the channel
  Workers,    \* goroutines that call Use
  Closers,    \* goroutines that call Close
  NoSession

ASSUME PoolAssumption ==
  /\ IsFiniteSet(Sessions)
  /\ NoSession \notin Sessions
  /\ Workers \cap Closers = {}

VARIABLES
  closed,       \* Pool.closed
  free,         \* the sessions in Pool.free
  drained,      \* the sessions Close has received
  chanClosed,   \* whether Pool.free has been closed
  destroyed,    \* the sessions whose memory has been freed
  pc,           \* where each goroutine is
  held          \* the session each worker has received and not sent back

vars == <<closed, free, drained, chanClosed, destroyed, pc, held>>

TypeOK ==
  /\ closed \in BOOLEAN /\ chanClosed \in BOOLEAN
  /\ free \subseteq Sessions
  /\ drained \subseteq Sessions
  /\ destroyed \subseteq Sessions
  /\ pc \in [Workers \cup Closers ->
               {"idle", "select", "received", "running",
                "draining", "destroying", "closed"}]
  /\ held \in [Workers -> Sessions \cup {NoSession}]

Init ==
  /\ closed = FALSE /\ chanClosed = FALSE
  /\ free = Sessions
  /\ drained = {}
  /\ destroyed = {}
  /\ pc = [g \in Workers \cup Closers |-> "idle"]
  /\ held = [w \in Workers |-> NoSession]

Goto(g, from, to) == pc[g] = from /\ pc' = [pc EXCEPT ![g] = to]

----------------------------------------------------------------------------
(* Acquire.  A closed pool or a context already done is refused before the    *)
(* select, which leaves the goroutine where it was.                           *)
Enter(w) ==
  /\ ~closed
  /\ Goto(w, "idle", "select")
  /\ UNCHANGED <<closed, free, drained, chanClosed, destroyed, held>>

(* Seeded defect: the receive does not wait, and its nil is taken for a session. *)
ReceiveAtOnce(w) ==
  /\ Goto(w, "select", "received")
  /\ \/ free = {} /\ UNCHANGED <<free, held>>
     \/ \E s \in free :
          /\ free' = free \ {s}
          /\ held' = [held EXCEPT ![w] = s]
  /\ UNCHANGED <<closed, drained, chanClosed, destroyed>>

Receive(w) ==
  /\ Goto(w, "select", "received")
  /\ \E s \in free :
       /\ free' = free \ {s}
       /\ held' = [held EXCEPT ![w] = s]
  /\ UNCHANGED <<closed, drained, chanClosed, destroyed>>

(* The context ends while the goroutine queues. *)
GiveUp(w) ==
  /\ Goto(w, "select", "idle")
  /\ UNCHANGED <<closed, free, drained, chanClosed, destroyed, held>>

(* A receive from the closed and empty channel. *)
FindClosed(w) ==
  /\ chanClosed /\ free = {}
  /\ Goto(w, "select", "idle")
  /\ UNCHANGED <<closed, free, drained, chanClosed, destroyed, held>>

(* p.free <- s *)
SendBack(w, from) ==
  /\ Goto(w, from, "idle")
  /\ free' = free \cup {held[w]}
  /\ held' = [held EXCEPT ![w] = NoSession]
  /\ UNCHANGED <<closed, drained, chanClosed, destroyed>>

(* Seeded defects: the session received from a closing pool is lost; it is     *)
(* sent back and used all the same.                                           *)
RecheckLosing(w) ==
  IF closed
  THEN /\ Goto(w, "received", "idle")
       /\ held' = [held EXCEPT ![w] = NoSession]
       /\ UNCHANGED <<closed, free, drained, chanClosed, destroyed>>
  ELSE /\ Goto(w, "received", "running")
       /\ UNCHANGED <<closed, free, drained, chanClosed, destroyed, held>>

RecheckKeeping(w) ==
  /\ Goto(w, "received", "running")
  /\ free' = IF closed THEN free \cup {held[w]} ELSE free
  /\ UNCHANGED <<closed, drained, chanClosed, destroyed, held>>

(* Close may have started since Enter: hand the session back for it to count. *)
Recheck(w) ==
  \/ closed /\ SendBack(w, "received")
  \/ /\ ~closed
     /\ Goto(w, "received", "running")
     /\ UNCHANGED <<closed, free, drained, chanClosed, destroyed, held>>

(* fn returns, fails or panics: the deferred Release runs either way. *)
Release(w) == SendBack(w, "running")

----------------------------------------------------------------------------
(* Seeded defect: the sessions are destroyed without waiting for those out. *)
SwapWithoutWaiting(c) ==
  /\ Goto(c, "idle", IF closed THEN "closed" ELSE "destroying")
  /\ closed' = TRUE
  /\ UNCHANGED <<free, drained, chanClosed, destroyed, held>>

(* Close.  Only the first call drains; any other returns at once. *)
Swap(c) ==
  /\ Goto(c, "idle", IF closed THEN "closed" ELSE "draining")
  /\ closed' = TRUE
  /\ UNCHANGED <<free, drained, chanClosed, destroyed, held>>

(* One of the receives of the loop in Close, which makes as many as the pool   *)
(* has sessions.                                                               *)
Drain(c) ==
  /\ pc[c] = "draining"
  /\ Cardinality(drained) < Cardinality(Sessions)
  /\ \E s \in free :
       /\ free' = free \ {s}
       /\ drained' = drained \cup {s}
  /\ UNCHANGED <<closed, chanClosed, destroyed, pc, held>>

(* Seeded defect: the channel is left open for the goroutines still queueing. *)
DrainedLeavingOpen(c) ==
  /\ Cardinality(drained) = Cardinality(Sessions)
  /\ Goto(c, "draining", "destroying")
  /\ UNCHANGED <<closed, free, drained, chanClosed, destroyed, held>>

(* close(p.free) *)
Drained(c) ==
  /\ Cardinality(drained) = Cardinality(Sessions)
  /\ Goto(c, "draining", "destroying")
  /\ chanClosed' = TRUE
  /\ UNCHANGED <<closed, free, drained, destroyed, held>>

Destroy(c) ==
  /\ pc[c] = "destroying"
  /\ \E s \in Sessions \ destroyed : destroyed' = destroyed \cup {s}
  /\ UNCHANGED <<closed, free, drained, chanClosed, pc, held>>

CloseReturns(c) ==
  /\ destroyed = Sessions
  /\ Goto(c, "destroying", "closed")
  /\ UNCHANGED <<closed, free, drained, chanClosed, destroyed, held>>

----------------------------------------------------------------------------
Acquire(w) == Receive(w) \/ FindClosed(w) \/ Recheck(w)

Close(c) == Drain(c) \/ Drained(c) \/ Destroy(c) \/ CloseReturns(c)

Next ==
  \/ \E w \in Workers : Enter(w) \/ Acquire(w) \/ GiveUp(w) \/ Release(w)
  \/ \E c \in Closers : Swap(c) \/ Close(c)

Spec == Init /\ [][Next]_vars

----------------------------------------------------------------------------
Holding(w) == held[w] # NoSession

(* A session is never inside two inferences: it is with one worker, or in the  *)
(* channel, or taken back by Close, and nowhere else.                          *)
OneHolder ==
  /\ \A v, w \in Workers : Holding(v) /\ held[v] = held[w] => v = w
  /\ \A w \in Workers : held[w] \notin free \cup drained
  /\ free \cap drained = {}

(* Close frees no memory that an inference can still reach: a session in use,  *)
(* or about to be, is not destroyed.                                           *)
NoUseAfterDestroy == \A w \in Workers : Holding(w) => held[w] \notin destroyed

(* Handing a session back never panics: while any session is out, the channel  *)
(* has not been closed.                                                        *)
SendIsSafe == \A w \in Workers : Holding(w) => ~chanClosed
============================================================================
