------------------------------ MODULE RWMutex ------------------------------
(***************************************************************************)
(* sync.RWMutex, as the index and the collection use it.  A writer first   *)
(* gets hold of the lock among the writers, from then on new readers wait, *)
(* then it waits for the readers there are; when it is done every waiting  *)
(* reader is let in before the next writer.  A goroutine that reads twice  *)
(* counts twice: the lock does not know that it is the same.               *)
(***************************************************************************)
EXTENDS Naturals

CONSTANTS Goroutines,
          Nobody        \* not one of them

Free == [reads |-> [g \in Goroutines |-> 0], waiting |-> {}, writer |-> Nobody]

RWLocks == [reads : [Goroutines -> Nat], waiting : SUBSET Goroutines,
            writer : Goroutines \cup {Nobody}]

(* RLock enters, or waits until Unlock lets it in; MayRead when it has     *)
(* returned.                                                               *)
RLock(m, g) == IF m.writer = Nobody THEN [m EXCEPT !.reads[g] = @ + 1]
                                    ELSE [m EXCEPT !.waiting = @ \cup {g}]
MayRead(m, g) == g \notin m.waiting
RUnlock(m, g) == [m EXCEPT !.reads[g] = @ - 1]

(* Lock in its two parts: CanLock and Lock; MayWrite when it has returned. *)
CanLock(m)     == m.writer = Nobody
Lock(m, g)     == [m EXCEPT !.writer = g]
MayWrite(m, g) == m.writer = g /\ \A h \in Goroutines : m.reads[h] = 0
Unlock(m) ==
    [reads   |-> [h \in Goroutines |->
                    IF h \in m.waiting THEN m.reads[h] + 1 ELSE m.reads[h]],
     waiting |-> {},
     writer  |-> Nobody]
=============================================================================
