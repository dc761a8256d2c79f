------------------------------ MODULE SampleQueue ------------------------------
(***************************************************************************)
(* What the sample ring promises to its two callers, with no trace of how  *)
(* it stores anything: a bounded first-in first-out queue of samples.  A   *)
(* call is not instantaneous.  A put accepts a prefix of what is offered,  *)
(* as long as the free space seen at some moment between its invocation    *)
(* and its return; a get returns as much as was queued at some such        *)
(* moment.  Both return whatever the other side does.                      *)
(***************************************************************************)
EXTENDS Integers, Sequences

CONSTANTS Sample,     \* the values a sample can take
          Capacity,   \* how many samples the queue holds
          Chunks,     \* the sequences a producer may offer
          MaxRead     \* the most samples a consumer asks for

VARIABLES queue,      \* the samples accepted and not yet returned
          putting,    \* a put is in flight
          offer,      \* the samples offered by that put
          putMin,     \* the space that was free when it was invoked
          getting,    \* a get is in flight
          ask,        \* how many samples it asked for
          getMin,     \* how many were queued when it was invoked
          got         \* the samples returned by the last get

vars == <<queue, putting, offer, putMin, getting, ask, getMin, got>>

putVars == <<putting, offer, putMin>>
getVars == <<getting, ask, getMin, got>>

Smaller(a, b) == IF a < b THEN a ELSE b
Free == Capacity - Len(queue)

Init == /\ queue = <<>>
        /\ putting = FALSE /\ offer = <<>> /\ putMin = 0
        /\ getting = FALSE /\ ask = 0 /\ getMin = 0 /\ got = <<>>

PutCall(s) == /\ ~putting
              /\ putting' = TRUE
              /\ offer' = s
              /\ putMin' = Free
              /\ UNCHANGED <<queue, getVars>>

PutReturn == /\ putting
             /\ \E free \in putMin..Free :
                  queue' = queue \o SubSeq(offer, 1, Smaller(Len(offer), free))
             /\ putting' = FALSE
             /\ offer' = <<>>
             /\ putMin' = 0
             /\ UNCHANGED getVars

GetCall(n) == /\ ~getting
              /\ getting' = TRUE
              /\ ask' = n
              /\ getMin' = Len(queue)
              /\ got' = <<>>
              /\ UNCHANGED <<queue, putVars>>

GetReturn == /\ getting
             /\ \E queued \in getMin..Len(queue) :
                  LET k == Smaller(ask, queued) IN
                  /\ got' = SubSeq(queue, 1, k)
                  /\ queue' = SubSeq(queue, k + 1, Len(queue))
             /\ getting' = FALSE
             /\ ask' = 0
             /\ getMin' = 0
             /\ UNCHANGED putVars

Next == \/ \E s \in Chunks : PutCall(s)
        \/ PutReturn
        \/ \E n \in 0..MaxRead : GetCall(n)
        \/ GetReturn

SafeSpec == Init /\ [][Next]_vars
Spec == SafeSpec /\ WF_vars(PutReturn) /\ WF_vars(GetReturn)
================================================================================
