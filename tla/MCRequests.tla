----------------------------- MODULE MCRequests -----------------------------
(* Instances of Requests for TLC. *)
EXTENDS RequestsInv, TLC

CONSTANTS s1, s2, s3, t1, t2, q1, q2, q3, o1, o2

DumpLens == [o \in Objs |-> 2]
Int32 == 2147483647

\* Lengths short of the dump, covering it, and one whose count wraps.
AnyLengths == {0, 1, Int32}
CoveringLengths == {1}

\* What a program may do with its requests.  In Mixed, anything but to start
\* one again or to wait for one it cancelled or receives from any source.
Mixed == [q \in Req |-> IF q = q1 THEN {"irecv", "recv_init", "start", "wait", "waitall", "test"}
                        ELSE {"irecv", "test", "cancel"}]
MixedSource == [q \in Req |-> IF q = q1 THEN s1 ELSE AnySource]
\* Requests that are waited for, polled, or either, also in arrays.
Arrays ==
  [q \in Req |-> {"irecv"} \cup
     (IF q = q3 THEN {} ELSE {"wait", "waitall", "waitany", "waitsome"}) \cup
     (IF q = q1 THEN {} ELSE {"test", "testany", "testall", "testsome"})]
Restarted == [q \in Req |-> {"recv_init", "start", "restart", "test"}]

\* What the senders write.
AnyWrites == [s \in Senders |-> {"send"} \X Tags \X Lengths \X Objs]
MixedWrites ==
  [s \in Senders |->
     IF s = s1 THEN {<<"send", t1, 0, o1>>, <<"send", t1, Int32, o1>>,
                     <<"isend", t1, 1, o1>>, <<"isend", t1, 0, o1>>, <<"send", t2, 1, o2>>}
     ELSE {<<"isend", t2, 1, o1>>, <<"send", t2, Int32, o1>>, <<"start", t2, 1, o1>>}]
\* The third sender says nothing: its request only fills the list.
TwoLetters == [s \in Senders |-> IF s = s3 THEN 0 ELSE 1]
TwoAndOne == [s \in Senders |-> IF s = s1 THEN 2 ELSE 1]

\* Both requests at one sender, told apart by the tag.
SameSender == [q \in Req |-> s1]
TagEach == [q \in Req |-> IF q = q1 THEN t1 ELSE t2]
\* One sender for each request, any tag.
SenderEach == [q \in Req |-> IF q = q1 THEN s1 ELSE IF q = q2 THEN s2 ELSE s3]
AnyTags == [q \in Req |-> AnyTag]
\* Arrays list the requests in this order.
Listed == [q \in Req |-> IF q = q1 THEN 1 ELSE IF q = q2 THEN 2 ELSE 3]
=============================================================================
