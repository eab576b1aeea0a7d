# OlcbChecker in TLA+

OlcbChecker checks whether an OpenLCB (LCC) device follows the standards. Some
ninety `check_*.py` scripts talk to the device under check through a Python
protocol library (`openlcb/`) and a small runtime (`olcbchecker/`). This
directory specifies the parts of that program whose correctness depends on the
order of events, checks them with TLC on small instances, and proves the most
important results with TLAPS for instances of any size.

Paths below are relative to the repository.

## 1. Inventory

### Parts and how they interact

```
 check_*.py, control_*.py          main thread: purge, send, wait, decide
   | sendMessage      ^ getMessage(timeout), getFrame(timeout)
   v                  |
 olcbchecker/         messageQueue, frameQueue
   |                  ^
   |                  | processMessage, receiveFrame      (receive thread)
 openlcb/canbus/canlink.py         aliases, segmentation, reassembly
   |                  ^
 openlcb/canbus/canphysicallayergridconnect.py    frames <-> text
   |                  ^
 tcpsocket.py / seriallink.py      one hub, many programs, one CAN bus
```

The receive thread (`olcbchecker/setup.py:77-96`) reports the link as up, then
reads text, parses frames and runs every handler of `CanLink` to completion
before it takes the next frame. The main thread sends through the same
`CanLink` object without a lock, and receives through two queues. Beside this
path the library has a datagram service and a memory service that work by
callbacks, a TCP link layer, and stores and processors of nodes; programs built
on the library use them, the checks do not.

| Component | State | Operations | What is hard |
|---|---|---|---|
| `CanLink`, aliases | `state`, `localAliasSeed`, `localAlias`, `aliasToNodeID`, `nodeIdToAlias`, `nextInternallyAssignedNodeID` | link up, down, restarted; CID, RID, AMD, AME, AMR and data frames | the frames of several programs interleave; no wait before an alias is used; two maps for one relation |
| `CanLink`, messages | `accumulator` and the maps | `sendMessage` (segmentation), `handleReceivedData` (reassembly) | frames of several messages interleave; aliases become known between two frames; frames are lost with the link |
| `DatagramService` | `pendingWriteMemos`, `currentOutstandingMemo`, `quiesced`, `listeners` | `sendDatagram`, replies, quiesce, restart, datagrams received | callbacks that call back into the service; a repeat after an outage; late replies |
| `MemoryService` | `readMemos`, `writeMemos`, `spaceLengthCallback` | read, write, space length, reply datagrams | replies name only their sender; each operation has two replies (to the datagram and by datagram), either of which may fail |
| Checker runtime | the two queues | `purgeMessages`, `getMessage`, `getTargetID`, `gatherPIP` | a reply later than its timeout; messages of other nodes in the same queue; a dead receive thread looks like a silent device |
| Stream helpers | stream-ID counter, cache of support | `read_via_stream`, `write_via_stream` and their parts | windows counted on both sides; messages skipped while waiting for another |
| GridConnect and sockets | `inboundBuffer` | `receiveChars`, `send` | text cut anywhere; partial sends |
| `TcpLink` | `accumulatedData`, `accumulatedParts` | `receiveListener`, `sendMessage` | chunks, parts, several gateways |
| Node stores, processors | nodes, their state, PIP, SNIP, events | one handler per MTI | order of link and node messages |
| Check scripts | local variables, and the state they put the device in | send, wait for an expected message, decide, restore | each waits for one message and must ignore or judge all others; every way out must leave the device as it was |
| Control programs | totals | run the checks, add up | nothing but the sum |

`PROJECT.json` lists every part with its files, and every hazard with its line.

### What makes each component correct

* Aliases: two programs never go on using one alias unnoticed; maps agree with
  the bus once it is quiet; a program never loses its own alias; the
  negotiation ends.
* Messages: what is delivered is what was sent, whole, once, in the order of
  its sender; whatever frames are lost, bytes of two conversations never mix.
* Datagrams: one outstanding at a time; handled in order; each outcome
  reported once, and only after it exists; nothing forgotten.
* Memory: each answer goes to its own request; reads one at a time; each
  received datagram acknowledged once.
* Runtime: a check never takes an old reply for a new one, nor the message of
  another node for the device's; the thread that receives stays alive.
* Streams: all bytes, in order, within the window, and neither side waits for
  the other for ever.
* Check scripts: a device that follows the standards passes, in whatever order
  the threads and its timers run; one that does not, and whose fault the
  check looks at, does not pass; traffic between other nodes changes nothing; the device
  is left as it was; the check ends, and ends with a verdict.

## 2. Plan

1. `CanLink`: aliases. Written, checked, proved.
2. `MessageBus`, `CanReassembly`: messages over frames. Written, checked,
   proved, the refinement included.
3. `DatagramService`, `DatagramExchange`, `DatagramPromise`. Written, checked,
   proved, the refinement included.
4. `MemoryAccess`: the memory service on the same `DatagramService` module.
   Written, checked, proved.
5. `CheckSteps`, `StreamSteps`: the forms that the check scripts are made of, and
   the helpers they share. Written.
6. `StreamTransfer`: both directions of `stream_utils.py` with their windows.
   Written, checked, proved: the windows, the bytes, and that neither side waits for
   the other for ever.
7. `MessageChecks`, `MemoryChecks`, `DescriptionChecks`, `ClockChecks`,
   `FrameChecks`, `TrainChecks`, `SearchChecks`, `StreamChecks`: every check
   script as a sequence of steps. Written.
8. `DeviceUnderCheck`, `CheckScripts`, `CheckRun`: the device, the scripts with
   their configurations, and the run of one script by the two threads; `CheckShape`:
   what can be told of a script from its text. Written, checked, proved.

GridConnect, the TCP link, the node processors and the control programs were
considered and left out; section 7 says why.

Modules are written to be proved about: parameters are constants with named
assumptions, an action is a whole handler, helpers are functions without
recursion.

## 3. Modules

### CanLink

Several programs, each with one `CanLink`, on one bus. `out[n]` and `in[n]` are
the two directions of a program's connection to the hub; `Forward` moves one
frame from a program to all others. Every handler is an action named after it;
the common preamble `checkAndHandleAliasCollision` is one action for the case
that it finds a collision and a conjunct (`TakeClear`) of the others.
`SendData` and `QueryAlias` are the main thread, which may send before the link
is up, with source alias 0. `handleReceivedLinkDown`, `handleReceivedLinkUp`,
`handleReceivedLinkRestarted` and `Restart` (the program run again) lose what is
on its way.

Abstracted: the 48-bit seed and the 12-bit alias made from it become a finite set of
seeds with a successor and an alias each; the four CID frames are `CidFrames`
many; the data of frames is reduced to a node ID or nothing.

### CanReassembly and MessageBus

One receiver and several senders, each of which transmits one message at a
time, frame by frame. A byte is named by its message and its place in it, so a
cut, doubled or mixed message can be told from a whole one. The receiver's
dictionary has three kinds of value per key, as the code's has: no entry, the
`None` left behind by a shipped message, and a list. `alive` turns false when a
handler raises, since the receive loop does not catch that. `MessageBus` is the
promise to the layers above; `settled` is mapped to the messages whose last
frame has been transmitted.

### DatagramService, DatagramExchange and DatagramPromise

`DatagramService` has the handlers of `datagramservice.py` as functions from the
service's state to its next one, because `MemoryService` calls them from its
own. `DatagramExchange` makes actions of them, with remotes that reply and a
link that fails. The reply handlers run a callback between two changes of the
queue; `handleReply` has both cases, a callback that returns and one that
submits another datagram (`Chaining`). `Keeps` says whether a remote still has,
after an outage, the datagrams it was sent before. `DatagramPromise` is what
users may rely on; `submitted`, `handled` and `answered` map to themselves.

### MemoryAccess

Reads, writes and length requests on top of the same functions. `wire` holds
what the program has sent and the remotes have not handled, `arriving[r]` what remote
`r` has sent. A request datagram is answered in one of the four ways of `Answers`; reply datagrams name only
their sender, and `called` records for each callback which request the remote
had answered. Callbacks may make a request. An outage takes the link down and leaves open
what the remotes go on doing meanwhile; when the link is back, `Leftovers` chooses what is
still there: nothing (the message, or the answer, was lost), or, with `MayKeep`, the last of
the messages that a remote had been sent and the last of those it had to send. The code
then sends the outstanding datagram again without asking (`datagramservice.py:246`), so a remote
may have it twice and answer twice. `repeated` records that this has happened: the
datagram was sent again while its remote still had it, or had not sent all of its
answer. A second reply to the datagram finds the memo of another one, or none, and the
exception ends the receive thread (`handleUnmatchedReply`, `alive`).

### StreamTransfer

One transfer by stream, in either direction. `pc` names the loop of
`stream_utils.py` that the checker is in: `accept` is `accept_incoming_stream`,
`reply` the two waits for the reply datagram, `receive` is
`receive_stream_data`, `open` and `opening` are `open_outbound_stream`, `send`
is `send_stream_data` with `close_stream`, `proceed` is `_wait_for_proceed`.
`window` is `bytes_since_proceed` when it reads and the bytes sent in the
current window when it writes. Bytes are numbered, so that a gap or an exchange
shows. The other end is a node that follows the stream standard: it proposes or accepts any
window of `Buffers`, sends as much as its credit allows in pieces of any
size, may send data before its reply datagram, and may give up. The code looks at no
stream ID while it collects, so `ForeignData` lets the same node send data of
another stream. The checker's `Timeout` is one that cannot be avoided: its queue is
empty and the node can do nothing (`NodeActs`, which says in terms of the state what `Node`
needs; were it true where `Node` is disabled, the two would wait for ever and
the run would end in a deadlock; were it false where `Node` is enabled, the checker would
time out too early and `NoNeedlessTimeout` would).

### The check scripts

A check script is a function: it purges, sends, waits for messages it judges one
after the other, and returns 0 to 3. It is modelled by the sequence of its
steps; `CheckRun` runs the steps of one script together with a receive thread and a
device.

* `CheckSteps` has one constructor per form that the scripts repeat. `Await` is
  the loop around `getMessage`, with its filters in the order in which the code
  applies them and the outcome of each (`next`, `skip`, `failed`, `raise` and
  others); a script's own `Await` changes the filters in which it differs.
  `TryExcept` and `TryFinally`, `Loop`, `IfGot` and `When` are Python's
  statements; a return runs the `finally` parts it is inside of. `PipGate` is
  the part of `gatherPIP` that ends a check which does not apply.
* `StreamSteps` has the functions of `stream_utils.py`, and the memory helpers
  that `check_cd30_acdi.py` and `check_mc80_write.py` repeat, as steps.
* `MessageChecks` (message network, events, `getTargetID`, `gatherPIP`), `MemoryChecks` (datagrams, memory
  configuration), `DescriptionChecks` (SNIP, CDI, FDI, ACDI), `ClockChecks`
  (broadcast time), `FrameChecks` (CAN frames), `TrainChecks` (train control),
  `SearchChecks` (train search, DCC detector) and `StreamChecks` (streams) have
  one operator per script, named after its file. The operator's argument is
  the configuration: the options, and what the device lists.
* `CheckScripts` names them and gives each script the configurations and kinds
  of device that it tells apart.
* `DeviceUnderCheck` is the other end: a device that follows the standards, as
  far as the scripts ask something of it. It is no code of the repository and
  is marked external.
* `CheckRun` has the state of the program (`pc`, `handlers` for the open `try`
  blocks, `leaving` for what a `finally` holds back, `queue`, what the script
  stored) and of its surroundings (`device`, `transit`). `SendMessage`,
  `PurgeMessages`, `GetMessage`, `Timeout`, `JudgeContent`, `Compute` and
  `Resume` are the main thread, `ProcessMessage` is the receive thread. `DeviceTimer`
  is a timer of the device; `ReplyGoesWrong`, `DeviceRestarts`,
  `DeviceHurries` and `DeviceReports` are what may go wrong, one thing per run;
  `Stray` and `Chatter` are other nodes. A device that a script watches (`Soaks`) may restart
  at any step that takes time; `fault` tells whether the script was polling for it with
  nothing before it in the queue, with a message of the device before it, or was
  doing something else. A stray message is any message that looks like
  an answer the script waits for, or like one that it must not get, but for its source or
  its destination (`Lookalikes`). Two variables are only observed: `marks`, whose messages the
  script has acted on, and `opened`, the streams that it has opened.
* `CheckShape` looks at a script as a text, before it runs: `Outcomes` are what a
  step may decide, `Moves` where it may go on, `Nest` the `try` blocks around each
  step, `Finals` the steps of `finally` parts. `WellNested` and `Guarded` say that
  every step leads to a place with the right blocks around it and that what is
  raised is caught; `IgnoresOthers` that no loop can have certain outcomes on a
  message that is not the device's to the checker. `ScriptSound` of `CheckRun` puts
  them together for each script with its place in the lists.

Abstracted: a message is its MTI, its source and destination, which of the
bodies that the script tells apart it has, and a value where the script compares
one. `purgeMessages` is one step. It waits until what is on its way in time
has come; a reply that is *late* comes after it. A `Timeout` is one that the device
cannot avoid: what is on its way in time comes before it. Repetitions are cut: the
300 messages of fr50 are three, the soaks do three pings, a description is two
datagrams. Of the ten polls between two pings two are left: `Quiet` stands for those at
which no ping is due, until one times out, and `Due` for the one after which it is, which
any message of the device ends too (`SoakFor`). The configuration values that cannot change what a script does are
left out.

## 4. Runs

| Run | Configuration | What it shows |
|---|---|---|
| `canlink_settles` | two programs, same first alias, one message or query at any moment | own alias known, negotiation ends |
| `canlink_outage` | one link loss or restart | maps agree when quiet (with messages sent at any moment as well: theorem `MapsAlwaysAgree`) |
| `canlink_duplicate` | both programs have one node ID | no unnoticed clash |
| `reassembly_bus` | two senders, two messages each, one to three frames, two formats | the receiver implements `MessageBus`; nothing begun with the link up is missed |
| `reassembly_unknown` | one alias unknown, one link loss | whole messages before the loss, one conversation per message after it |
| `reassembly_mixed` | two aliases unknown | violated: two messages are joined |
| `exchange_promise` | three datagrams, two remotes, three outages | `DatagramPromise`, one outstanding, all answered |
| `exchange_any` | callbacks that submit, remotes that keep datagrams | tracking and queue consistent in every case |
| `memory_all` | all operations, one outage in which remotes lose or keep what they have | one reply per datagram, in every case; reads serialized and matched and replies find their memo until a datagram is sent again to a remote that has it |
| `memory_live` | remotes that reply | every read and write answered with its own answer |
| `streams` | both directions, totals below, at and above the window | nothing lost or out of order unseen, windows kept on both sides, no mutual wait, every transfer ends |
| `checks` | 95 scripts, their configurations, one fault or one stray message | the properties below |

`ClashInFlight` is checked where it is hardest, with one node ID on both
programs; the theorem `ClashNoticed` has it for all instances.

The properties of `checks` are statements about all scripts, and a script for which one does
not hold is named in a definition beside it, with what that
script does. These definitions are results as much as the properties are:

| Property | What holds | Scripts that are named, and why |
|---|---|---|
| `ConformingPasses` | a device that follows the standards, alone on the network, passes | `Misjudged`: seven cases, section 6 |
| `DefectNoticed` | after a lost, refused, wrong or short reply, a clock that runs ahead, a restart of a device that is watched for one, or with a silent device the check does not pass | `Unnoticed`, per fault: a stream that is not opened counts as a pass (`OpensFirst`), no answer is expected (`Expectless`), a failed query leaves a part out (`Queries`), the content is not looked at (`Unread`, `Logged`, `Unvalued`, `Unnamed`), a restart is purged or comes during a ping (`Pinging`, `Glancing`) and others |
| `TakesOnlyAnswers` | only what the device says to the checker lets the check go on | `FromAnyone`: the source is not tested; `ToAnyone`: the destination is not |
| `BlamesOnlyDevice` | what other nodes say to each other fails no check | `StrictAboutSource`, `StrictAboutDestination`: the test ends in a failure where `continue` was possible |
| `LateNeverCounts` | the answer to an earlier request is not taken for that to a later one | `Unpurged`: no purge between the two requests |
| `LeavesNoTrace` | whatever happens, the device is left as it was | `LeavesTrace`, per fault: the undoing step is not on every way out |
| `NeverCrashes` | no exception leaves a check | `Crashing`: an exception that nothing catches |
| `Undisturbed` | a message that is not from the device to the checker changes nothing: not the step, nor what is stored or concluded | `Disturbed`: the scripts of the four lists above; 36 scripts take no notice |
| `ScriptSound` | the text of each script has the shape from which `CheckRun_proofs` shows four of these and the type invariant for every run | the same lists: a script in `FromAnyone` and `ToAnyone` may take what others send, and so on |
| `EveryCheckEnds` | every check ends, ev60 and ev70 also where another node never stops sending | none |

### Bounds

* Aliases: two programs are enough for a collision; the alias cycles `a b c` and
  `a b a` make a second collision possible, avoidable and repeatable. One CID
  frame stands for four: they differ only in the bits of the node ID, which no
  handler reads. One outage is followed by every renegotiation there is. Two
  duplicates let each program answer the other once.
* Reassembly: a message after another of the same key needs two messages; the
  lengths are zero, one more than a frame holds, and two full datagram frames. Two
  formats differ in the bytes per frame and in the key.
* Datagrams: three memos give an outstanding one, a next one and a last one;
  two remotes make a reply from the wrong node possible.
* Memory: three requests to two nodes give every order of a read, a write and a
  length request, two of them open at once to one node. One outage at any moment, with
  every choice of what is kept, has 1.5 million distinct states; `Answers` and
  `Others` leave out what differs only in what is reported ("error" is a "reply" that says
  so) or in the reply to a datagram that nobody asked for ("Unknown" is refused as "Short"
  is, "Unexpected" is acknowledged). The proofs have them all. `memory_all` uses that the two
  nodes may change places (`NodesAlike`); no liveness is checked there.
* Streams: `MaxBuffer` 3 and `Chunk` 2 keep the relations of 256 and 64 that
  matter: a window is more than one message and no multiple of it. `Buffers`
  1 to 4 has windows below, at and above the chunk and one above the checker's
  own limit. `Totals` are nothing, less than a window, one window, one byte
  more, and two windows and a byte. `MaxForeign` 2 is a foreign byte and a
  foreign end.
* Checks: one fault or one stray message per run (`MaxStrays` 1), but for a restart, which may
  come behind a report that the device has just sent: a verdict that
  depends on two things that go wrong at once is not looked for. `MaxQueue` 2
  bounds how far the main thread may be behind when the stray message comes. A
  script is run with each configuration that it reads, 1046 initial states in all. A
  *short* reply has the bytes that tell what it is and lacks what follows: one
  of a single byte ends several scripts with an `IndexError`, which the model does not
  show.

### Fairness

Weak fairness of the hub and of the receive loop: a socket delivers and the
thread runs while its link is up (`CanLink`); of the transmission of a message
that has been begun (`CanReassembly`); of remotes that work, of the receive
loop and of a link that comes back after an outage (`DatagramExchange`,
`MemoryAccess`); of the checker and of the node, each on its own
(`StreamTransfer`); of the two threads, the device's timers and the node that
never stops sending together: time passes (`CheckRun`). Nothing obliges a user to submit, a check
to send, a link to fail, a reply to go wrong or another node to send. `Settles`
is checked without outages, because a link that went down may stay down.

Deadlock is not checked where users may stop asking, links may stay down, or the
bounds end every behaviour. `StreamTransfer` and `CheckRun` check it: a transfer or a
script that has ended stutters (`Finished`), and any other state without a
successor is an error.

## 5. Proofs

TLAPS checks these for any number of programs, aliases, nodes, datagrams and
outages; the assumptions are the modules' `ConstantsAssumption`, which TLC evaluates
on every run. Two of them are worth naming: an internal node ID is never a real node's
(`CanReassembly`; they are numbers counted up from 1, which no node is given), and
`None` is neither a request nor a memo (`MemoryAccess`).

### CanLink_proofs

* `TypeCorrect`: the type invariant; in particular a local alias is never 0.
* `ClashNoticed`: as long as two programs use one alias, a frame that carries
  it is on its way to or from one of them. The statement is nearly inductive:
  when a program starts to use an alias it has just sent frames with it; when
  such a frame is handled by the other user the collision check makes that one
  give the alias up; a third program's frames only add. The proof needs the
  type invariant and that a program in `Initial` is not `Permitted`.
* `QuietAliasesUnique`: hence on a quiet bus no two programs share an alias.
* `OwnAliasAlwaysKnown`: a program that may transmit has its own alias in both
  maps. It needs that no handler writes the own entries: data and AMD frames with the
  own alias are caught by the collision check first, an AMD with the own node
  ID by the duplicate check, and internal node IDs are never real ones.
  Node IDs are distinct (`DistinctIds`): a program that shares one rewrites the entry.
* `MapsAlwaysAgree`: `MapsAgree`, under `DistinctIds` too, for any number of
  programs: on a quiet bus every program that may transmit has the current alias of
  every other one in both maps. The invariant `MapsInv` says why, of two programs m
  and n: n has been sent a frame with its own alias and will take a new one, and
  tell it (`Clashes`); or an enquiry for all is on its way from m or to n, and n will answer
  (`Asks`); or m will know n from what is on its way (`Told`): there is an
  AMD of n with nothing after it that spoils the entry, or the entry is there
  and nothing on the way spoils it. A frame of a third program spoils it only if it
  carries the alias of n (`Spoils`), and the hub gives that frame to n as well. That both
  the AMD and the AME are part of every allocation is what the proof rests
  on; that the code takes no notice of an AMR with an unknown alias costs nothing.

### DatagramExchange_proofs

First for all behaviours, with callbacks that submit and remotes that keep
datagrams through an outage. The inductive invariant `IInv` is the type invariant,
`OutstandingIsHead` and `NoDatagramForgotten`; each handler is characterised by
a lemma on its function, and each action preserves the three.

* `TrackingHolds`: the check of tracking logic in the reply handlers, which
  logs an error if it fails, never fails.
* `NoneForgotten`: the submitted datagrams are the answered ones followed by the
  queue, in order.

Then for `Plain` behaviours: callbacks submit nothing, and an outage loses what
is on its way. Both restrictions are needed: with `Chaining` TLC finds the first result below
violated, since a callback that submits to an empty queue has its datagram sent
twice (`datagramservice.py:214`); without the other a late second reply does
the same.
The invariant `PInv` adds that while the link is up the head of the queue is
either on the wire, or handled with its reply on the way, and that nothing else
is; while the link is down nothing is on its way.

* `AtMostOne`: one datagram or reply on its way.
* `NoneRaises`: every reply finds its memo.
* `KeepsPromise`: `DatagramExchange` implements `DatagramPromise`. `Submit` is
  `Submit`; a remote handles only the head of the queue, which by
  `NoDatagramForgotten` is the oldest unanswered datagram, so its step is
  `Handle`; a reply is for the head, which has been handled, so its step is
  `Answer`; all other steps stutter.

* `ExchangeTypes`: the type invariant.

### CanReassembly_proofs

For any aliases, messages and outages. The invariant has five parts, each a
definition: `Types`; `Lists` and `Received`, that the bytes held under a key, and those of
each message given to the listeners, are one sender's, of that sender's messages of the
key, in the order they were sent, and were transmitted; `Unused`, that nothing is held
under a node ID that no alias has been given yet; `Gapless`, that before the first
outage what is held of a message in transmission is exactly the bytes
transmitted so far, or no entry if its start was missed.

* `ReassemblyTypes`: the type invariant.
* `ConversationsKept` (`OneUnknown`): whatever outages there are, a message delivered has
  bytes of one sender, with one MTI and destination, in order.
* `ReceiverAlive` (`OneUnknown`, no outage): no continuation meets a key whose
  message has been shipped, so the receive thread is not ended by an exception.
* `MessagesWhole` (`OneUnknown`): before the first outage every message delivered is
  one that was sent.
* `BusImplemented` (all aliases known, no outage): `CanReassembly` implements
  `MessageBus`. A sender's beginning a message is `Send`; the frame that completes one
  is `Receive`, or `Miss` while the link is not up yet; other frames stutter.

`OneUnknown` says that at most one alias is missing from the receiver's map. With two,
both get one internal node ID and their messages mix: the run `reassembly_mixed`.
An outage makes a message lack bytes, and a continuation after it may find the `None`
that a shipped message left behind, which ends the thread. So each hypothesis is needed.
The unknown alias keeps its internal node ID in the messages delivered, which is why
`BusImplemented` asks for all.

### MemoryAccess_proofs

For any nodes, requests, answers, foreign datagrams and outages, and whatever remotes lose
or keep in an outage. What the code promises breaks at one place, the repetition of
`datagramservice.py:246`: when the remote had the datagram, it answers twice, the second
reply takes the memo of another datagram or finds none, the second answer is reported to the next
read (`memoryservice.py:183`), and the next read is sent while this one is still being
answered. TLC finds each of the three in some ten steps if the condition
is dropped. So three of the theorems hold as long as `repeated` is false, which is what
their statements say; the fourth needs no condition. Without outages, or when an outage
loses what the remote had, `repeated` stays false.

The invariant `IInv` has two parts. `TInv` holds always: the types, and that each
datagram received has been replied to. `KeepNow` holds while `repeated` is false; it is
stated of the state in the middle of a handler too, because a reply's handler runs a callback
that may make a request:

* `Queued`: the outstanding datagram is the head of the queue, and the queue has each
  request once;
* `OneOutstanding`: one request datagram at most is on the wire, or has a reply to it on
  the way, and it is the head's;
* `Answering`: of a request that is answered no second answer is on its way, and it
  is out of the queue except for the reply that comes before the answer;
* `Serial`: the only read that is queued or being answered is the oldest read memo, and
  the only length request is the one whose callback is kept;
* `Reads`, `Writes`: the memos are of requests that were made, each kind in its list;
* `Fitting`: what `ReadAnswersMatch` says of the callbacks made so far.

Each action has two lemmas, one for each part. `Serial` is what makes the answers to reads fit: a
read reply takes the first memo of its sender, and by `Serial` no other read has been sent.
That `FirstFor` finds the first is proved by the least-number principle (`LeastNumber`). That
a restart keeps `KeepNow` rests on `LeftoversAre`: what is left over are the last
messages of what was there, in their order.

* `OneReadAtATime`: reads are serialized, until a datagram is repeated to a remote that has it.
* `ReadsGetTheirAnswers`: a read's callback gets that read's answer, until then. (After a read
  that was rejected or lost no read is answered at all, section 6, but none is
  answered wrongly.)
* `RepliesFindTheirMemo`: a reply to a datagram finds its memo, until then.
* `ExactlyOneReply`: each datagram received is replied to once, in its handler, after
  repetitions too.

### MemoryWrites_proofs

Writes are not serialized, so for them more has to hold. `WritesGetTheirAnswers` is
`AnswersMatch` for all three operations, under two hypotheses: `AlwaysAnswered`, each
request is taken and answered with a datagram that reports success or failure, and
`NoOutages`. A write that is rejected, or acknowledged for good by its datagram's
reply, or whose answer is lost in an outage leaves its memo behind (section 6), and the
reply to the next write to that node meets the wrong memo; `AnswersMatch` is false then. The
invariant adds to `TInv` and `KeepNow` that three sequences have one order, that of the requests'
numbers: the memos (`Remembered`), the writes in the datagram queue (`QueueInOrder`)
and the answers from each remote, with those to the writes still queued after them
(`AnswersInOrder`); and that a memo is there exactly for an open write (`Remembered`,
`HasMemo`). A write is open until its answer is received, because the reply to its
datagram, which takes it from the queue, is followed by the answer (`AnswerFollows`). So the
answer that comes first from a remote is to the oldest write to it, whose memo is the
first for that remote.

### StreamTransfer_proofs

For any window, message size, length and limit, in both directions
(`StreamAssumption`).

* `StreamTypes`: the type invariant; the window agreed on is never above the
  checker's limit, and what is counted of it never above the window.
* `WindowsKept`: the node is never sent more than it can take, and the checker
  sends a Proceed only when a whole window has come.
* `NothingLost`: what is collected is what was sent, in order and without a gap
  (`NothingLostOrReordered`).

The inductive invariant `IInv` of the first two has a part for each direction. When the checker reads, the
bytes it counts and the windows it has sent Proceeds for are together no more than what it
has collected (`ReadCounts`). When it writes, the two counts of one window are kept by two
programs, and the messages between them hold the difference. `Carries` says that
the data on the way to the node is what lies between the bytes it has taken
and those that were sent; `Sending` that the node's credit is the bytes on the way and what the
checker has left of its window, with no Proceed on the way; `Waiting` that either
all the credit is on the way and no Proceed is, or nothing is on the way, the credit is
a full window, and one Proceed at most comes back. A second Proceed would let the
checker send a window too much, so that there is never one is the heart of it.

The third theorem is about the bytes. Data of another stream and a node that sends
before its reply datagram are included. The invariant `BytesInv` has again a part for each
direction, and is inductive together with `IInv`.

* `Follows` says what the messages on the way carry: each the bytes next after
  those before it (`Part`), from what has come to what was sent. It is stated with
  the counts at which the messages begin, so that it is kept when a message is added at one
  end or taken at the other without any induction over the queue.
* When the checker reads (`ReadBytes`), what was thrown away and what was
  collected are together (`Taken`) the first bytes in order (`InOrder`), and what follows is on
  the way. The end of the stream is behind the last byte unless data of another
  stream is mixed in: `stream_utils.py` looks at no stream ID, and then that data counts
  towards the length asked for. Before the stream is accepted the node has sent no byte
  (`Unaccepted`).
* When it writes (`WriteBytes`), the node has taken what was sent but for what is
  on the way, the close comes behind the last byte, and a reply datagram means that the node has
  seen the close. So `returned` means that all has arrived.

### StreamProgress_proofs

`NeverBothWait`: `NoNeedlessTimeout` for any window, message size and length, again from
`StreamAssumption` alone; the module extends `StreamTransfer_proofs`. A deadlock in which the checker waits for a message and the
node for a Proceed, the next data or the end would end in a timeout with nothing
on its way and nothing to do, so this is freedom from deadlock stated as a safety property; that
a transfer ends at all stays with TLC. The invariant `MovesInv` is inductive
together with `IInv` and `BytesInv`.

* When the checker reads (`ReadMoves`), the node's credit, the bytes that
  are on their way and those that the checker counts are together a whole window or more
  (`WindowOut`), or a Proceed is on its way. The checker counts less than
  a window, so with nothing on its way the node has credit left. Bytes thrown away
  before the reply datagram would be missing from that sum: `Ordered` says
  that there are none if the node sent its reply first, which is why `ahead` excuses a timeout.
* When it writes (`WriteMoves`), each wait has what it waits for on its way: in
  `opening` the request or its reply; in `proceed` data that the node has not taken, or
  the Proceed; in `reply` the close or the reply datagram. That the Proceed comes exactly
  when the last byte is taken uses `Waiting` of `IInv`.
* A `Terminate_Due_To_Error` or a refusal comes only from a node that has given
  up (`Blameless`, `Refuses`).

### CheckRun_proofs

Five properties of the scripts, for every run of every script that has the shape
`ScriptSound`, with any number of stray messages, any queue length and any of the
faults (`BoundsAssumption` is all that is assumed of the bounds):

* `StaysInScript`: the type invariant. A check is at one of its steps, or has ended;
  in exactly the `try` blocks around that step; and holds a result back only while a
  `finally` part runs.
* `NoCheckCrashes`: `NeverCrashes`. What is raised is caught, also in
  `finally` parts and in repeated rounds.
* `OnlyAnswersTaken` and `OnlyDeviceBlamed`: `TakesOnlyAnswers` and
  `BlamesOnlyDevice`.
* `NeverDisturbed`: the action property `Undisturbed`.

Where the proof goes from and to: TLC finds out for each script, a finite text, that it has
the shape, and exhaustively so, since `Scripts` and `Options` are all there are. What a script of
that shape does is then shown for every order of the messages, every interleaving of the two
threads and every fault, which TLC does for one fault or stray message and a
queue of two only. `ScriptSound` is needed of the initial state alone, because no step changes
`script` and `profile`. It is a hypothesis of the theorems and no assumption of
the module, because it is about the definitions of the scripts, which a change of a script
may break: then `ScriptSound` is violated in the run, and TLC says for which script. That the 95
scripts have it is not proved: their steps are put together with folds over
sequences, and computing these is induction over data.

The inductive invariant `Inv`:

* `Placed`: `pc` is a step of the script, `handlers` is the `Nest` of that step, and
  a result is held back only in `Finals`. `WellNested` says that every outcome of a step
  leads to such a place again; that an exception or a return in the middle of
  nested blocks does needs that behind each handler lies the rest of
  the blocks that were open (`NestKept`).
* `Bounds`: the two counters stay within their bounds.
* `Mail`: what is on its way comes from the device and goes to the checker or to
  all, and what the device sends to another node, which may be in the queue too, is of a
  kind that names its destination (`Proper`). This needs the whole device: lemma `ReactWhole` goes through
  everything that it answers or sends by its timers, `SpoiltMessage` through what
  replies become when they go wrong, and `StrayMessage` through what other nodes send.
  For me30, which crashes on a reply of one byte, it also says that there is
  no short one unless the fault is that.
* `Caught`: a script that `Crashing` does not name neither has crashed nor runs a
  `finally` part with an exception held back.
* `TakesOnlyAnswers` and `BlamesOnlyDevice` themselves, about `marks`.

The lemma `OutcomePossible` connects the two levels: what `GetMessage` decides about
a message is among the `Outcomes` of the step. `Ignored` is what makes the three last
theorems: a loop with `Ignores` has none of the outcomes that it excludes on a message that is
not the device's to the checker, even where that message agrees with the awaited one in all but
its source or its destination.

### Only model-checked

Liveness (`Settles`, `EveryMessageArrives`, `EveryDatagramAnswered`,
`EveryRequestAnswered`, `EveryTransferEnds`,
`EveryCheckEnds`): the prover has no rule for fairness and `ENABLED`.
`AnswersMatch` where a
request may be refused: false there. `ScriptSound`: a finite list of texts, which TLC
evaluates one by one. `ConformingPasses`, `DefectNoticed`, `LateNeverCounts` and
`LeavesNoTrace`: what a verdict means and what is left in the device depends on the
text of each script and on the device together, step by step, so that a proof would
be one by hand for each of the 95 scripts. What recursive data computes (that cutting and
joining a message are inverse for every length) would need induction over data.

## 6. Where the code differs from what it says

One difference has a run of its own (`findings` in `PROJECT.json`): a
destination alias that is not known is given the next internal node ID without
advancing the counter (`canlink.py:275` and `:328`), so the next unknown source
shares it, and their messages mix (`reassembly_mixed`).

The models reach these as well; they are listed as hazards:

* After a link loss ended by a restart notice `CanLink` stays Inhibited
  (`canlink.py:107`); action `handleReceivedLinkRestarted`.
* A frame whose start was lost kills the receive thread if an earlier message of
  its kind was shipped (`canlink.py:314`); action `DieOnFrame`.
* A callback that submits a datagram to an empty queue has it sent twice
  (`datagramservice.py:214`); `DatagramExchange` with `Chaining`.
* `quiesced` is never read (`datagramservice.py:236`); a datagram submitted after
  a quiesce is sent at once.
* After an outage the outstanding datagram is sent again, whether or not its destination
  has it (`datagramservice.py:246`). If it has, the second reply to it finds no memo, which
  raises in the receive thread (`datagramservice.py:212`; action
  `handleUnmatchedReply` of `DatagramExchange` and `MemoryAccess`), or finds that of another datagram; and the
  second answer to a read is reported to the next read of that node
  (`memoryservice.py:183`). `~repeated` in the properties of `MemoryAccess` excludes it.
* A read whose datagram is rejected is never called back, and every later read
  waits behind it (`memoryservice.py:146`).
* A reply datagram lost in an outage is never asked for again
  (`memoryservice.py:150`), and a write completed by its acknowledgement alone is
  never called back (`memoryservice.py:261`). Its memo stays, as does that of a
  write that is rejected, and the reply to the next write to the node is
  reported to it; so `WritesGetTheirAnswers` excludes them.
* Stream data that comes before the reply datagram is thrown away
  (`stream_utils.py:557`); `skipped` in `StreamTransfer`.
* That the query for streams failed is remembered for the rest of the program
  (`stream_utils.py:79`).

In the check scripts (the definitions of `CheckRun` name all of them; without
`Misjudged`, `ConformingPasses` is violated by the first three):

* `check_me20_verify.py:52` takes only the reply of a full node to its global
  request. Of the reply of a simple node, which it never looks at, it says (`:69`)
  that it did not come, so every simple node fails.
* `check_mc20_ckasi.py:140` takes the flag for a lowest address for a reserved
  bit that is set, and tests for that flag four lines on.
* `check_bt120_consumer_startstop.py:13-14` says of active and inactive "Both
  are valid", its list (`:101`) has the first of them only.
* `check_tr050_gestop.py` and `check_tr060_geoff.py` let the trains go again only
  if nothing failed before.
* `check_mc40_lock.py` returns with the lock held, and `check_mc80_write.py:242`
  does not restore the byte when it reads something else than it wrote.
* The soaks of `check_mc60_out_of_range.py:247-284`, `check_da40_unknown_protocol.py`,
  `check_st10_initiate.py` and `check_st85_stability.py` watch for a restart for 30 s, but purge
  the queue before each ping and skip what comes during it: a restart at that moment goes
  unnoticed if the device answers the ping.
* `check_st60_data_send.py:149-152` does not close the stream when the device terminates
  it, though it does when the Proceed is wrong or missing (`:156-165`);
  `check_st200_complete_with_byte_count.py:174` closes it in none of these cases.
* `check_cd20_read.py:161` asks for the length of a description outside of any
  `try`.
* `check_bt30_immediate.py:87` takes an identification of the event that was
  set, `check_bt20_set.py:111` only a report.
* `check_bt60_requested.py:8` waits "up to 30 seconds", but each message starts
  the time anew.
* `check_st190_suggested_did.py:13` has the suggested stream ID echoed, which
  the script does not look at.
* `check_st37_max_buffer.py:79` tests for a buffer above 0xFFFF, which two bytes
  cannot hold.

## 7. Not modelled

* GridConnect and the sockets: a buffer of characters, read by one thread;
  what can go wrong there is a matter of characters and not of the order of
  events. `CanLink` begins at the frames. Partial sends are retried in a loop without
  any other state.
* The TCP link layer: only its own unit tests create a `TcpLink`; the checker
  speaks GridConnect. Its parts are joined as the frames of `CanReassembly` are.
* Nodes, stores and processors: the checker creates none. Of these files it uses
  the decoding of PIP and SNIP contents.
* Identifiers and conventions: no state and no order of events; their unit tests
  reach them.
* Control programs: menus that call one script after the other. A script leaves
  nothing in the program but the cache of stream support, and purges what is in the queues
  first.
* Options, tools, schemas and other data have no state beyond the start.
* The arithmetic of alias seeds, formats of messages, and what a script prints.
* The main thread inside `sendMessage` while the receive thread changes the alias maps
  (`canlink.py:409`): the maps are Python dictionaries, each access to them is
  atomic, and the checker never gives up its alias unless another program takes it.
* Malformed frames: every frame here is one that some program running this code,
  or a device that follows the standard, sends.
