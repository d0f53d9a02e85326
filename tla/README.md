# A TLA+ project for MPI Ruby

MPI Ruby is a C extension that lets Ruby programs send objects over MPI. An MPI
message is a typed buffer of a size the receiver must know, a Ruby object is
neither, so almost every method of the binding is a small protocol on top of
MPI: an int that announces a size, then the bytes of the object's Marshal dump.
The interesting behaviour of the code is what becomes of those protocols when
processes run at their own pace, when senders compete for one receiver, when a
background thread works on the same requests as the program, and when one step
of several raises.

All paths below are relative to the repository; `mpi_comm.c` stands for
`src/mpi_comm.c`, and so on.

## The system

| component | state | operations | talks to |
|---|---|---|---|
| blocking point-to-point (`mpi_comm.c` 610-838) | locals of the calls, messages in transit | `send` `ssend` `rsend` `bsend` `recv` `sendrecv` | MPI, one message for the size and one for the data |
| receive requests (`mpi_request.c`, `irecv` and `recv_init` of `mpi_comm.c`) | `struct mpi_request`: handle, stage, peer, buffer, object; `rlist`, the requests in their size stage | `irecv` `recv_init` `start` `wait*` `test*` `cancel` | MPI; the background Ruby thread `request_thread` shares `rlist` and the requests with the program |
| nonblocking and persistent sends | `struct mpi_request`, locals MPI still points to | `isend` ... `rsend_init` `start` | MPI; `ibsend` needs the attached buffer |
| buffered sends | `bufsize` and `buffer` of a communicator, MPI's one attached buffer | `buffer_for` `unbuffer` `bsend` | MPI |
| allgather (`mpi_comm.c` 1296-1363) | locals; messages with tag 43 | `allgather` | MPI point-to-point, a ring |
| gather, bcast (`mpi_comm.c` 1186-1294) | locals; messages with tag 42 | `gather` `bcast` | MPI point-to-point (gather) and collective (bcast) |
| scatter, alltoall, barrier | locals | | one MPI collective each |
| reductions (`mpi_comm.c` 1498-2146, `ops.rb`) | locals; `op_table[].resize` | `reduce` `allreduce` `scan` `reduce_scatter` | MPI collectives, which call the operation back on some processes |
| operator table and predefined operations (`mpi_op.c`) | `op_table` | `Op.create`, collection, MAX ... MINLOC | MPI, the reductions |
| communicators, groups, topologies, attributes, status, exceptions, start-up | handles | accessors | one MPI call each |

What makes each correct, and hard:

* **Point-to-point.** The size and the data a call receives must be those of one
  object, although senders interleave, tags and sources are wildcards, sends
  may or may not be buffered, and either side may raise between its two
  messages. (ChangeLog:17 records the bug that made `recv` pin its source.)
* **Requests.** A receive has two stages behind one object and two parties can
  move it from the first to the second: the background thread and a wait. The
  second receive must be posted once, for the right source, into the right
  buffer, and `rlist` must hold a request exactly as long as it is needed there.
* **allgather.** All messages of all rounds of all calls look alike to MPI; only
  order tells a size from a string, one round and one call from the next.
* **gather.** Nobody waits for the others: a process may be several rounds ahead
  of the root it sends to, and the messages share the program's communicator.
* **Reductions.** Processes with different dumps and arrays must agree on the
  element size, refuse together, and repeat together when a result outgrows the
  elements.
* **Operator table.** Slots are reused as operations come and go, MPI calls a C
  function that finds its Proc and leaves its `resize` in a slot, and the
  predefined operations, which have no slot, use slot 0.

### What `length` holds

No sending method assigns the int it announces. `StringValueCStr` replaced a
call that stored the length, and `length` (`dlen`, `length_right`, ...) is sent
as declared (for example `mpi_comm.c:634`). The models treat it as it is: every
call finds some int in it, any member of the constant `Lengths`, the same one at
both uses, unless the call has ended before MPI reads it. The instances take a
length too short for the dump, one that covers it, and `INT_MAX`, whose count
wraps; those of `Reduction` take negative ones too. Safety properties hold
whatever `Lengths` is unless they say otherwise; `Covering` and `Exact` name the
lengths under which objects arrive, which is how the methods would behave with
the assignment restored.

## Modules

| module | models |
|---|---|
| `MpiMatching` | what MPI promises of messages: a receive takes a message its source and tag accept, messages of one sender do not overtake |
| `Framing` | a dump as length + 1 bytes after an int; counts that wrap, messages longer than the buffer, what `Marshal.load` makes of what arrived |
| `PointToPoint` | the blocking calls; refines `ObjectMailbox`, in which objects travel whole |
| `PointToPointInv`, `PointToPointProofs` | its inductive invariant and the theorems |
| `Requests` | receive requests, all methods that wait and test, the background thread; senders that use `send`, `isend` or a persistent send |
| `RequestsInv`, `RequestsProofs`, `RequestsPairProofs` | its inductive invariants, for every program and for the careful ones, and the theorems |
| `Allgather`, `AllgatherInv`, `AllgatherProofs` | the ring, its inductive invariant, the theorems |
| `Gather` | gather and bcast in programs of rounds, with reports to a root that receives from anywhere |
| `GatherInv`, `GatherProofs` | its inductive invariant and the theorems |
| `Collective` | what a collective promises: `Allgather` and `Gather` implement it |
| `Reduction` | the four reductions with an operation of the program |
| `ReductionInv`, `ReductionProofs` | its inductive invariant and the theorems |
| `Operators`, `OperatorsProofs` | the table of operations, what the operations compute and what becomes of results that do not fit, in one process; its theorems |
| `Numbers` | a lemma about naturals several proofs need |
| `MC*` | the instances: small sets for the constants, and the definitions the `.cfg` files name |

A name in a module is the code's where there is one: `stage`, `peer`, `buflen`,
`rlist`, `jnext`, `longest`, `resize`, `arymax`, `GATHER_TAG`. What is not in
the code is said so where it is declared: the letter a message belongs to, the
call a string is of, the message that filled a buffer. Such fields let a
property speak of identity; no guard reads them, with one exception: `cast` of
`Gather` is indexed by the round, which stands for MPI's own pairing of the n-th
broadcasts.

**Steps.** A step of a process runs from one MPI call to the next: nothing else
of a process is visible to another. In `PointToPoint` and `Allgather` a send and
a receive of one MPI call complete separately, in either order, and a send
completes when its message is matched or earlier, as MPI likes; a synchronous
one only when matched; a ready one may start only when its receive is posted. In
`Requests` the program and the background thread are Ruby threads that run until
they return to Ruby or yield, so a pass of the thread does not begin while the
program is inside a method (`upc = "idle"`), and no method begins in the middle
of a pass (`scan = 0`); MPI and the senders run all the time.

**Exceptions.** `mpi_exception` raises on an error code and leaves everything
else as it is. Every place where one can leave a method between two MPI calls is
an action or a disjunct: truncated messages, counts MPI rejects, dumps with a
null byte (where only some process raises), operations that cannot load their
arguments, counts that are not one for each process (`CountsRaise`: the local
check of `reduce_scatter`, before it meets anybody). Where an exception ends a
call whose `MPI_Isend` is still pending, as in `gather`, MPI reads the variable
`length` of a frame that is gone: the root finds any int in it (`Read`).

**A mailbox.** `ObjectMailbox` says what point-to-point promises a program that
knows nothing of sizes: a call may post one letter and may take one; each letter
is taken once, by its addressee, in the order its sender posted those of one
tag; a call that took a letter returns its object or raises.
`PointToPoint` implements it under the mapping `Mailbox`: a letter is in the
mail while its size message is in transit.

**A collective.** `Collective` has no messages, rounds or sizes: all processes
make the same calls one after the other and contribute to each; a call that
collects returns every contribution, in its place and of this very call, and not
before all have begun it; other calls may return at any time. In `Allgather`
every call collects everywhere, in `Gather` a gather collects at its root.

**Requests in arrays.** `waitany`, `waitsome`, `testany`, `testall` and
`testsome` work on copies of the handles. When all requests of a `waitany` are
in their size stage it posts the second receive for the last one of the array,
clears the handle of the one that completed and loads its missing buffer
(`mpi_request.c:231`); `waitsome` and `testsome` clear the first handles of the
array, as many as are complete, and take a size for the data (`371`, `517`).
An exception, a receive truncated say, leaves every one of these methods, and
`waitall`, before the handles MPI has freed are cleared in the requests
(`RaiseStale`). The model makes these steps and then sets `upc` to `"astray"`:
handles of receives still posted are lost or freed ones kept, and nothing is
promised any more. What the other branches do is held to the same properties as
`wait`. `testsome` looks at `i`, not `outcount` (507), and so raises when all its
handles are null, which changes nothing; so does `cancel` of a null handle,
after it has put the request back to its size stage.

**Ways to send.** `Writes` of `Requests` says how a sender sends each letter.
`isend` and its variants return before MPI has read the variable `length` of
their stack frame: the size a receiver gets is any value the frame may hold by
then (`Isend`). `start` of a persistent send announces and sends `buflen` bytes,
which is 0 (`StartSend`).

**Operations.** In `Operators` all calls MPI makes happen in one process, the
worst case for the table. Results are united sets of ranks for an operation of
the program, integers, sets of bits, or pairs of a value and a location for the
predefined ones. `length` of a predefined operation is never assigned: what they
copy may be the whole result or a part (`Cut`), and whether a result counts as
too long is anybody's guess; a `Proc` the program has dropped may be collected
at any time (`Sweep`), and calling it ends the model's program.

**Collectives in MPI.** In `Reduction` MPI matches the n-th collective of every
process, whatever they are. The reduction itself is any bracketing: MPI may
combine at a process its value with another's contribution or partial result,
calling the operation there, in any order, and it may hand a complete result
over. The result of the operation grows with the number of contributions, as
the union of arrays does in `examples/op.rb`.

## Runs

Twelve runs, each a few minutes at most. "States" are distinct states.

| run | checks | shows |
|---|---|---|
| `fan_in` | `IInv` `Pairing` `NoOrphans` `ImplementsMailbox` `RecvReturns` | two workers, synchronous and ready sends, a master that receives from anywhere, every kind of length (150,000 states) |
| `exchange` | `IInv` `Delivered` `ImplementsMailbox` | send, recv and sendrecv in any mix, to oneself too, two tags and wildcards (600,000) |
| `unset_length` | `Delivered`, violated | `recv` raises with what `length` may hold |
| `mixed` | `PairInv` `RequestPairing` `WatchedExactly` `NoStrayReceive` `DoneIsDone` `OwnObject` | a persistent request waited for beside a wildcard one polled and cancelled, letters sent in all three ways (680,000) |
| `crowd` | `IInv` `NoStrayReceive` `OneDataReceive` `WaitEnds` `TestSucceeds` | three requests on two slots, so that `rlist` grows, waited for and polled one by one and in arrays: waits end, polling succeeds (110,000) |
| `restart` | `DoneIsDone`, violated | the stage of a persistent request is not reset |
| `ring` | `IInv` `InPlace` `Framed` `AllReturn` `ImplementsCollective` | three processes, two calls each, any lengths (290,000) |
| `strlen` | `Gathered`, violated | with the length one would assign, the second round raises |
| `rounds` | `IInv` `InPlace` `Ordered` `NothingLeft` `AllDone` `ImplementsCollective` | any two rounds of gather, bcast and reports, and three gathers (160,000) |
| `agree` | `IInv` `InStep` `WholeResult` `RefusedByAll` `AllReduced` | any two reductions (200,000) |
| `table` | `IInv` `OwnProc` `OwnFlag` `Right` `NothingDropped` | three operations on two slots, created, collected and used beside six predefined ones (1,400,000) |
| `outgrown` | `Result`, violated | a result that outgrows its elements |

**Bounds.** Two senders are what it takes to intermingle, a third process to
receive from both: `fan_in` has three, and two letters of each so that a second
one can be mistaken for the first. `exchange` has two processes because a
sendrecv cycle needs no more. A ring of three is the smallest whose processes
pass on a string that is not their own; two calls are what lets a process be a
call ahead of its neighbour (`Meets` says never two). `rounds` has a gather
overlap with what precedes and follows it. In `crowd` the three requests
outnumber the slots, so that `request_watch` doubles the list and a slot nobody
wrote is met. In `Reduction` two processes suffice for the hazards, which are
all about one process doing what the other does not; a length for one dump, for
the union of two, short, wrapping and below any count, and an array of two
beside a scalar, make every branch happen. `table` has one operation more than slots, so
that slots are reused and creation refused, and one whose Proc the program
drops; three ranks are what lets MPI choose an order and a bracketing; the
predefined operations are one of each way to treat a result. Two of the three
operations are interchangeable, which the run uses as a symmetry. In `crowd` the
third sender is silent: its request only fills the list, the arrays are of every
subset of the requests. Bounds are constants: `MaxCalls`,
`MaxLetters`, `MaxStarts`, and the length of `Plans`.

`CHECK_DEADLOCK FALSE` is in all the configurations because all the bounded
programs end, and because a process that waits for one that raised waits for
ever, in the code too; that nothing else waits for ever is what `RecvReturns`,
`WaitEnds`, `TestSucceeds`, `AllReturn`, `AllDone` and `AllReduced` say.

**Fairness.** Weak fairness of what a process does once it is in a call, and of
MPI's delivery of a message whose receive is posted: MPI promises progress.
Calls themselves are fair only where the property is about a program that makes
them (`Allgather`, `Gather`, `Reduction`). A send is not assumed to be buffered:
it is fair only once its message has been taken, and a broadcast, in which MPI
may wait for all, only once all have come to it (`AllCome`). The background thread is fair
because Ruby's scheduler gives it a turn whenever the program is in Ruby code;
`TestSucceeds` (and with it `WaitEnds`) is checked with strong fairness of the
program's `test` added (`PollSpec`), for a program that keeps polling, since a
pass of the thread disables it again and again.
`AllReturn`, `AllDone` and `AllReduced` carry their condition: that lengths are
exact, that nobody raises, that no repetition is asked for. Without it they
fail, because nothing in the code wakes the partners of a process that raised.

**What a property excludes.** Programs are kept to what the code can do right,
and the exclusions are the code's limits:
`Disciplined` of `PointToPoint` keeps ANY_SOURCE out of `sendrecv`, which pairs
the size of one sender with the data of another (`mpi_comm.c:829`), and wrapping
lengths out of programs that call it. Requests are told apart by source or tag,
a wildcard request is polled and not waited for, since `wait` does not use the
source of the size (`mpi_request.c:165`), and a cancelled one is not waited for
(`mpi_request.c:540`). In `Gather` a program names the tag of its own receives:
with ANY_TAG they take gather's messages. Objects have no null byte in their
dump outside `DumpRaises`: `StringValueCStr` refuses the others before anything
is sent.

`Right` and `NothingDropped` say of the predefined operations only what holds:
`lxor` takes its own 0 for true from the second call on, `land` and `lor` call
methods no object has and always raise, and a result of a predefined operation
that does not fit is dropped, because its mark goes to slot 0 and the reduction
looks wherever the operation's unassigned `idx` points.

## Disagreements

* `unset_length`: `length` is never assigned; a receive raises or takes bytes
  that end before the dump does.
* `restart`: `request_start` leaves `stage` at TX_DATA, so `test` reports a
  receive complete when only a size has come.
* `strlen`: `comm_allgather` passes the received string, whose last byte is
  null, to `StringValueCStr`, which raises: three processes cannot allgather.
* `outgrown`: the repetition a resize asks for happens on the one process where
  MPI called the operation; the others return what they have.

## Proofs

Everything in the eight proof modules is checked by TLAPS to the last leaf, for
all values of the constants that satisfy the modules' assumptions.

**`PointToPointProofs`**: for any processes, tags, objects, dump lengths,
`Lengths`, modes and programs that are `Disciplined`, `Spec => []IInv`; from it
`Pairing`, `NoOrphans`, `Delivered` (for lengths that cover the dumps) and
`Mailbox!MailSpec`, the refinement. `Pairing` is not inductive. The invariant
adds that the locals of a call follow its program counter (`CallShape`), that a
letter is known by its sender and number (`Fresh`), that the data of a letter
whose size is anywhere is in transit or still to be sent by its sender
(`SizeBeforeData`), and, the heart of it, what a receiver that has taken a size
knows (`ReaderOk`): nothing of that sender that its second receive accepts is
older than the data of that letter. That last part is why pinning the source is
enough, even with ANY_TAG, and why no other sender can intervene.

**`AllgatherProofs`**: for any N, any `Lengths` and any dumps, `Spec => []IInv`,
hence `InPlace`, `Framed` and `Meets`. A message has a place in its sender's
programme: the call, the round, size or data. `Chained` says that the messages
between two neighbours are, one after the other, the places from the receiver's
next receive up to the sender's next send. Everything follows: what arrives is
always the thing the receiver expects although nothing in a message says so. The
proof splits each step of a process into what it does to the channel on its left
and to the one on its right. From the invariant follows the refinement,
`Spec => ImplementsCollective`: entering a call is `Begin`, leaving the last
round `Finish`, where `InPlace` gives the contributions and `Meets` that all have
begun, an exception `Fail`, and every other step a stutter.

**`OperatorsProofs`**: for any table size, operations, ranks and contributions,
`Spec => []IInv`, from which `OwnProc`, `OwnFlag`, `Right` and `NothingDropped`.
`OwnProc` is about the reduction in progress; what makes it inductive is that a
slot is taken exactly as long as one operation owns it (`SlotsExact`, with the
slots of operations MPI refused, which are never given back), that the Proc of
an idle operation is in place too (`ProcsInPlace`), and that an operation is not
collected while it is in use (`InUse`). For `NothingDropped`, a result that was
not stored has left its mark in the slot (`Armed`). `Right` is its own
induction: the value at a rank is what the operation stands for of the ranks
covered, and joining two of them keeps it so.

**`GatherProofs`**: for any N, tags, dumps, `Lengths` and any plan of rounds,
`Spec => []IInv`; from it `InPlace`, `Ordered`, `NothingLeft` and
`Spec => ImplementsCollective`, with `Begin`, `Finish` and `Fail` as in the
ring. A letter is known by its sender and round (`Letters`); its size is on the
wire before its data (`SizeBeforeData`); a letter of a gather without data is of
a process that has raised in that very round and sends nothing more
(`CutShort`); a root that has taken a size knows that nothing older which its
second receive accepts is left, and that the data come or the letter is cut off
(`ReaderOk`). So a root that was told a length out of a dead frame waits, and
takes nothing else for the data. What gather
needs beyond that is that its roots take turns: what a process has sent to a
root that lacks it is still on the wire (`Awaited`), nothing is there for a turn
that is over (`NothingOld`), and a turn that is over has filled its place
(`Filled`) or was everybody's (`Visited`). So a process several rounds ahead
never hands a root the object of a later round. The module assumes that the
wildcards and `None` are no data.

**`ReductionProofs`**: for any N, plan, lengths of arrays and dumps,
`Spec => []IInv`; from it `InStep`, `WholeResult` and `RefusedByAll`. Each
process keeps a log of the collectives it has entered. The logs follow the
program (`InOrder`, `Later`); a process past an agreement knows that all have
come to the same one and what they contributed (`Agreed`), and went on as the
values found say (`Founded`, `Compares`); a reduction is over with contributions
of processes in the same collective, all that are wanted (`Gathered`); and a
collective everybody has left was the same one for all (`Behind`). While no
operation has asked for a repetition (`Calm`, the hypothesis of both
properties), nobody can be a collective short of the others, which is `InStep`,
and what a process has put together is what MPI brought it (`Uncut`), which with
`Gathered` is `WholeResult`. `RefusedByAll` needs no such hypothesis: the reason
for which one process was refused is a value all processes have seen, so by
`Founded` none of them can have gone on.

**`RequestsProofs`**: for any senders, requests, sources, tags, lengths and any
program (`Uses`), restarts, cancellations and arrays included, `Spec => []IInv`;
from it `WatchedExactly`, `NoStrayReceive` and `OneDataReceive`. The two threads
are in nobody's way because a pass of the background thread and a method of the
program never overlap (`Turns`), and a method that posts the receives of data
has seen every size complete and has found under `rlist` what the thread left
there. A request started has a handle, another is in its size stage and unwatched
(`Known`); one that is never started again is watched once, exactly while its
size is missing (`Watched`), and posts the receive of its data when it leaves
that stage and at no other time (`Posted`). `NoStrayReceive` carries itself: a
handle is overwritten only when its receive is complete, or the program goes
astray. The conditions in `WatchedExactly` and `OneDataReceive` on what the
program does with a request are part of the properties: a restarted request does
keep its stage (the run `restart`), a cancelled one may be received for again. The
assumptions are that the requests are finitely many and that `Order` numbers
them, that the null values are no data, and that ANY_SOURCE is no sender.

**`RequestsPairProofs`**: for any senders, letters, ways to send them, requests,
sources, tags, lengths and any program that is `Careful`, `RequestPairing`,
`DoneIsDone` and `OwnObject`, all from `Spec => []PairInv`. Careful means that no
letter is for two requests; that no request is started twice; that one for which
the program calls `wait` or `waitall` names its sender and is not cancelled; and
that no `isend` fails between its size and its data. None of these can be
dropped: `restart` violates `DoneIsDone`, and with any of the others taken out of
the programs of `mixed` (two requests with one source and tag, a wait for
ANY_SOURCE, a wait after a cancel, an `isend` of a length that wraps) TLC finds
`RequestPairing` violated. `mixed` is careful, so there `PairInv` is all it
says. What a program does after it has gone astray is excluded by the properties
themselves, as in `NoStrayReceive`: `waitany` may then have posted a receive of
data before it knew of which letter. Letters go on behaving after that, which is
why `Streams` and `SizeOf` are outside the condition.

The invariant joins three things. *Letters* (`Streams`): each is known by its
sender and its number, its two halves have its tag, and the data of a letter
whose size is out are on the wire or still with its sender (`Coming`,
`Followed`). *Requests and letters* (`Untouched`, `Reader`): as long as a request
has not got its size, of none of the letters it accepts is the size gone and the
data left; when it has got one, everything else of that sender that it accepts
is of a later letter whose size is still there (`DataNext`). So the first receive
can only take a size, the oldest, and the second, which names the sender, only
its data. That the letters of different requests are different keeps the step of
one request from disturbing this for another. *Requests and threads* (`Waiting`,
`Filling`, `Blocking`): a request on `rlist` holds the receive of its size, with
the source it was created with; one in its data stage holds that of its data
or has it. Therefore whoever posts the second receive finds in the status, or in
`peer` when it is a wait, the sender of the size. A length no buffer can have
(`Hopeless`) ends the request: its handle may be null and its size stays on
`rlist`, but nothing of it is received any more. From the same invariant comes
`DataComes`, the safety half of `WaitEnds`: a receive of data still posted waits
for data that are with MPI, or whose sender is between its two messages.

**Only model-checked**: all liveness (the prover does not reason about fairness
and ENABLED), that is `RecvReturns`, `WaitEnds`, `TestSucceeds`, `AllReturn`,
`AllDone` and `AllReduced`. Every invariant and every refinement the runs check
is proved.

## Not modelled

* `scatter` and `alltoall` give MPI counts that are wrong by a factor of the
  element size or the number of processes (`mpi_comm.c:1422`, `1480`): with more
  than one process they cannot work, and there is no protocol to check.
  `barrier` is one MPI call.
* `bsend` is to its receiver a `send` that never waits. `buffer_for` and
  `unbuffer` manage the one buffer MPI has in a process, while each communicator
  keeps a `bufsize` of its own (`mpi_comm.c:1134`): they are meant for one
  communicator. The first `buffer_for` detaches a buffer nobody attached, and
  what follows is what the MPI library makes of that.
* The sender's own request of `isend` and the persistent sends is one MPI request
  without stages; the second ready send of `irsend` (`mpi_comm.c:977`) is valid
  only if its receive happens to be posted. `startall` calls `request_start` with
  the class instead of the request (`mpi_request.c:649`) and raises for every
  receive or persistent send.
* The collection of requests: `request_free` releases a request that may be on
  `rlist`, and raises inside the collector for a null handle. Programs of the
  models keep their requests. What follows `"astray"` is not modelled either.
* Communicators, groups and topologies, status objects, the table of exceptions,
  `wtime` and the like: one MPI call and a conversion. Attributes: `Init_Keyval`
  is never called, so they cannot be reached.
* Memory: overruns are reported as hazards but bytes outside buffers do not
  exist in the models. Buffers the garbage collector may take too early neither.

## Plan

Done, in this order: `MpiMatching`, `Framing`, `PointToPoint` with its mailbox
and proofs; `Requests`; `Allgather` with its proofs; `Gather`; `Reduction`;
`Operators` with its proofs; the array methods and the ways to send in
`Requests`; `Collective`, with the proof that `Allgather` implements it; the
proofs of `Gather`, its refinement included, of `Reduction` and of `Requests`, the
pairing of careful programs last.

What is left is liveness, which the prover does not reach; its safety half is
proved where it is stated (`SpecDataComes`, `SizeBeforeData`). To model, if the
code comes to work there: `buffer_for` and `bsend`, `scatter` and `alltoall` with
counts that match.
