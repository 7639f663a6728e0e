----------------------------- MODULE InputReader -----------------------------
(***************************************************************************)
(* The reader of input devices: InputReader, EventDevice::scanDevice and   *)
(* InotifyDevice of frameworks/inputmanager, run by the one thread of the  *)
(* pool mInputReaderthread.  It finds the devices, keeps them in           *)
(* deviceList and in an epoll set, and reads those that are ready, while   *)
(* the devices come and go and the other threads open descriptors.         *)
(*                                                                         *)
(* watched tells two programs apart: the one of packages/inputmanager,     *)
(* which only scans, and one that has first put the InotifyDevice in the   *)
(* list and has made it watch /dev/input.  What is read from a device is   *)
(* the matter of EventDevice; here it is a number of frames.               *)
(*                                                                         *)
(* External: the table of descriptors, epoll, inotify and the nodes.       *)
(***************************************************************************)
EXTENDS Integers, Sequences, FiniteSets, Functions

CONSTANTS
  Devices,      \* character devices /dev/input/event*
  MaxFd,        \* bound: descriptors of the process, but for those of no matter
  MaxChanges,   \* bound: how often devices are plugged and unplugged
  MaxFrames,    \* bound: frames that devices send
  MaxOthers     \* bound: descriptors opened by other threads (dup, Binder)

ASSUME BoundsOK ==
  /\ MaxFd \in Nat /\ MaxChanges \in Nat /\ MaxFrames \in Nat
  /\ MaxOthers \in Nat /\ IsFiniteSet(Devices)

ASSUME NotADevice == "closed" \notin Devices /\ "other" \notin Devices

VARIABLES
  watched,      \* the InotifyDevice is in deviceList and watches /dev/input
  plugged,      \* devices that have a node
  fds,          \* what each descriptor is open on
  hung,         \* descriptors of a device that is gone
  unread,       \* frames to be read from each descriptor
  inotify,      \* inotify events not yet read
  epoll,        \* descriptors in the set of mEpollFd
  deviceList,   \* mDeviceName and mFd of each EventDevice
  pc,           \* of the reader: "scan", "wait", "walk", "notify" or "open"
  toScan,       \* names that readdir has yet to give
  pending,      \* mPendingEventItems, from i on
  batch,        \* inotify events in event_buf, from event_pos on
  iRet,         \* of InotifyDevice::process: it cooks at cookEvent + iRet
  changes, frames, others,  \* how many there have been
  scanFailed,   \* history: scanDevice has returned -1
  hangUps,      \* history: readOnce has closed a device that had hung up
  robbed        \* history: the reader has closed another thread's descriptor

kernelVars == <<plugged, hung, unread, inotify>>
envCounts == <<changes, frames, others>>
batchVars == <<batch, iRet>>
vars == <<watched, kernelVars, fds, epoll, deviceList, pc, toScan, pending,
          batchVars, envCounts, scanFailed, hangUps, robbed>>

Fd == 1 .. MaxFd
InotifyFd == 0    \* inotify_init: opened first and never closed
Closed == "closed"
Other == "other"

\* The number that the kernel gives to what is opened next.
Lowest(f) == fds[f] = Closed /\ \A g \in 1 .. f - 1 : fds[g] # Closed

Listed == {deviceList[k].fd : k \in DOMAIN deviceList}

Init ==
  /\ watched \in BOOLEAN
  /\ plugged \in SUBSET Devices
  /\ fds = [f \in Fd |-> Closed]
  /\ hung = {}
  /\ unread = [f \in Fd |-> 0]
  /\ inotify = <<>>
  /\ epoll = IF watched THEN {InotifyFd} ELSE {}
  /\ deviceList = <<>>
  /\ pc = "scan"
  /\ toScan = plugged
  /\ pending = <<>>
  /\ batch = <<>>
  /\ iRet = 0
  /\ changes = 0 /\ frames = 0 /\ others = 0
  /\ scanFailed = FALSE /\ hangUps = FALSE /\ robbed = FALSE
-----------------------------------------------------------------------------
(* The kernel: descriptors.                                                *)

\* close of a number that is not open fails and changes nothing.  A closed
\* descriptor leaves the epoll set, for nobody has a dup of it.
Close(f) ==
  /\ fds' = [fds EXCEPT ![f] = Closed]
  /\ hung' = hung \ {f}
  /\ unread' = [unread EXCEPT ![f] = 0]
  /\ robbed' = (robbed \/ fds[f] = Other)

\* delEpollFd, then close.
DelAndClose(f) ==
  /\ epoll' = epoll \ {f}
  /\ Close(f)

\* open, and addDevice: deviceList.push_back, then addEpollFd.
AddDevice(d) ==
  /\ \E f \in Fd :
       /\ Lowest(f)
       /\ fds' = [fds EXCEPT ![f] = d]
       /\ deviceList' = Append(deviceList, [name |-> d, fd |-> f])
       /\ epoll' = epoll \cup {f}
  /\ UNCHANGED <<hung, unread, robbed>>
-----------------------------------------------------------------------------
(* The devices and the other threads.                                      *)

Notices == [mask : {"IN_CREATE", "IN_DELETE"}, name : Devices]

Notify(mask, d) ==
  inotify' = IF watched THEN Append(inotify, [mask |-> mask, name |-> d])
                        ELSE inotify

\* readdir may give a name that is new since opendir, and need not.
Plug(d) ==
  /\ d \notin plugged /\ changes < MaxChanges
  /\ plugged' = plugged \cup {d}
  /\ Notify("IN_CREATE", d)
  /\ \/ UNCHANGED toScan
     \/ pc = "scan" /\ toScan # {} /\ toScan' = toScan \cup {d}
  /\ changes' = changes + 1
  /\ UNCHANGED <<watched, fds, hung, unread, epoll, deviceList, pc, pending,
                 batchVars, frames, others, scanFailed, hangUps, robbed>>

Unplug(d) ==
  /\ d \in plugged /\ changes < MaxChanges
  /\ plugged' = plugged \ {d}
  /\ hung' = hung \cup {f \in Fd : fds[f] = d}
  /\ Notify("IN_DELETE", d)
  /\ changes' = changes + 1
  /\ UNCHANGED <<watched, fds, unread, epoll, deviceList, pc, toScan, pending,
                 batchVars, frames, others, scanFailed, hangUps, robbed>>

Send(d) ==
  /\ d \in plugged /\ frames < MaxFrames
  /\ unread' = [f \in Fd |->
       IF fds[f] = d /\ f \notin hung THEN unread[f] + 1 ELSE unread[f]]
  /\ frames' = frames + 1
  /\ UNCHANGED <<watched, plugged, fds, hung, inotify, epoll, deviceList, pc,
                 toScan, pending, batchVars, changes, others, scanFailed,
                 hangUps, robbed>>

\* addListener's dup, or the driver for a descriptor in a message.
OtherOpens ==
  /\ others < MaxOthers
  /\ \E f \in Fd : Lowest(f) /\ fds' = [fds EXCEPT ![f] = Other]
  /\ others' = others + 1
  /\ UNCHANGED <<watched, kernelVars, epoll, deviceList, pc, toScan, pending,
                 batchVars, changes, frames, scanFailed, hangUps, robbed>>

Environment ==
  \/ \E d \in Devices : Plug(d) \/ Unplug(d) \/ Send(d)
  \/ OtherOpens
-----------------------------------------------------------------------------
(* scanDevice: a node that is gone is passed over if stat finds out, and   *)
(* ends the scan if open does, without closedir.  The directory's own      *)
(* descriptor, and that it is then never closed, is left out.              *)

ScanNode(d) ==
  /\ pc = "scan" /\ d \in toScan /\ d \in plugged
  /\ AddDevice(d)
  /\ toScan' = toScan \ {d}
  /\ UNCHANGED <<watched, plugged, inotify, pc, pending, batchVars, envCounts,
                 scanFailed, hangUps>>

ScanGone(d) ==
  /\ pc = "scan" /\ d \in toScan /\ d \notin plugged
  /\ \/ toScan' = toScan \ {d} /\ UNCHANGED scanFailed
     \/ toScan' = {} /\ scanFailed' = TRUE
  /\ UNCHANGED <<watched, kernelVars, fds, epoll, deviceList, pc, pending,
                 batchVars, envCounts, hangUps, robbed>>

ScanEnd ==
  /\ pc = "scan" /\ toScan = {}
  /\ pc' = "wait"
  /\ UNCHANGED <<watched, kernelVars, fds, epoll, deviceList, toScan, pending,
                 batchVars, envCounts, scanFailed, hangUps, robbed>>
-----------------------------------------------------------------------------
(* readOnce.                                                               *)

EPOLLIN(f) == IF f = InotifyFd THEN inotify # <<>> ELSE unread[f] > 0
Ready == {f \in epoll : EPOLLIN(f) \/ f \in hung}
Item(f) == [fd |-> f, hup |-> f \in hung]

\* The orders in which epoll may give what is ready; at most 16 items.
Orders(S) == {s \in [1 .. Cardinality(S) -> S] : IsInjective(s)}

EpollWait ==
  /\ pc = "wait" /\ Ready # {}
  /\ \E s \in Orders(Ready) : pending' = [k \in DOMAIN s |-> Item(s[k])]
  /\ pc' = "walk"
  /\ UNCHANGED <<watched, kernelVars, fds, epoll, deviceList, toScan,
                 batchVars, envCounts, scanFailed, hangUps, robbed>>

\* Variant: the hang-up is only reported.
HangUpReported ==
  /\ pc = "walk" /\ pending # <<>> /\ Head(pending).hup
  /\ pending' = Tail(pending)
  /\ hangUps' = TRUE
  /\ UNCHANGED <<watched, kernelVars, fds, epoll, deviceList, pc, toScan,
                 batchVars, envCounts, scanFailed, robbed>>

\* A device that has hung up is closed, and stays in deviceList.
HangUp ==
  /\ pc = "walk" /\ pending # <<>> /\ Head(pending).hup
  /\ DelAndClose(Head(pending).fd)
  /\ pending' = Tail(pending)
  /\ hangUps' = TRUE
  /\ UNCHANGED <<watched, plugged, inotify, deviceList, pc, toScan, batchVars,
                 envCounts, scanFailed>>

\* The first device that has something to read ends the walk: its process is
\* called.  A read from one that has gone since gives ENODEV.  A descriptor
\* that no Device has ("no this device in list") is passed over.
ProcessEvents ==
  /\ pc = "walk" /\ pending # <<>> /\ ~Head(pending).hup
  /\ Head(pending).fd # InotifyFd
  /\ IF Head(pending).fd \in Listed
     THEN /\ unread' = [unread EXCEPT
               ![Head(pending).fd] = IF Head(pending).fd \in hung THEN @ ELSE 0]
          /\ pending' = <<>>
          /\ pc' = "wait"
     ELSE pending' = Tail(pending) /\ UNCHANGED <<unread, pc>>
  /\ UNCHANGED <<watched, plugged, fds, hung, inotify, epoll, deviceList,
                 toScan, batchVars, envCounts, scanFailed, hangUps, robbed>>

WalkEnd ==
  /\ pc = "walk" /\ pending = <<>>
  /\ pc' = "wait"
  /\ UNCHANGED <<watched, kernelVars, fds, epoll, deviceList, toScan, pending,
                 batchVars, envCounts, scanFailed, hangUps, robbed>>

\* Variant: what follows the first event in event_buf is lost.
ReadFirstInotify ==
  /\ pc = "walk" /\ pending # <<>> /\ Head(pending).fd = InotifyFd
  /\ batch' = <<Head(inotify)>> /\ inotify' = <<>>
  /\ iRet' = 0
  /\ pending' = <<>>
  /\ pc' = "notify"
  /\ UNCHANGED <<watched, plugged, fds, hung, unread, epoll, deviceList, toScan,
                 envCounts, scanFailed, hangUps, robbed>>

\* InotifyDevice::process reads what there is: event_buf holds 16 events.
ReadInotify ==
  /\ pc = "walk" /\ pending # <<>> /\ Head(pending).fd = InotifyFd
  /\ batch' = inotify /\ inotify' = <<>>
  /\ iRet' = 0
  /\ pending' = <<>>
  /\ pc' = "notify"
  /\ UNCHANGED <<watched, plugged, fds, hung, unread, epoll, deviceList, toScan,
                 envCounts, scanFailed, hangUps, robbed>>

(* processCreate: if stat still finds the node, it is a character device    *)
(* and the event is cooked at cev, which must not lie before the array;    *)
(* then it is opened.                                                      *)

CreateSeen ==
  /\ pc = "notify" /\ batch # <<>> /\ Head(batch).mask = "IN_CREATE"
  /\ Head(batch).name \in plugged /\ iRet >= 0
  /\ pc' = "open"
  /\ UNCHANGED <<watched, kernelVars, fds, epoll, deviceList, toScan, pending,
                 batchVars, envCounts, scanFailed, hangUps, robbed>>

CreateGone ==
  /\ pc = "notify" /\ batch # <<>> /\ Head(batch).mask = "IN_CREATE"
  /\ Head(batch).name \notin plugged
  /\ batch' = Tail(batch)
  /\ UNCHANGED <<watched, kernelVars, fds, epoll, deviceList, pc, toScan,
                 pending, iRet, envCounts, scanFailed, hangUps, robbed>>

CreateOpened ==
  /\ pc = "open" /\ batch # <<>> /\ Head(batch).name \in plugged
  /\ AddDevice(Head(batch).name)
  /\ iRet' = iRet + 1
  /\ batch' = Tail(batch)
  /\ pc' = "notify"
  /\ UNCHANGED <<watched, plugged, inotify, toScan, pending, envCounts,
                 scanFailed, hangUps>>

CreateFailed ==
  /\ pc = "open" /\ batch # <<>> /\ Head(batch).name \notin plugged
  /\ iRet' = iRet - 1
  /\ batch' = Tail(batch)
  /\ pc' = "notify"
  /\ UNCHANGED <<watched, kernelVars, fds, epoll, deviceList, toScan, pending,
                 envCounts, scanFailed, hangUps, robbed>>

(* processRemove: delDevice takes the first Device of that name, if any.   *)

IsNamed(k, d) == deviceList[k].name = d
IsFirstNamed(k, d) == IsNamed(k, d) /\ \A j \in 1 .. k - 1 : ~IsNamed(j, d)

Without(k) == SubSeq(deviceList, 1, k - 1)
              \o SubSeq(deviceList, k + 1, Len(deviceList))

\* Variants: the descriptor stays open, or the Device stays in the list.
RemoveFromListOnly(k) ==
  /\ deviceList' = Without(k)
  /\ UNCHANGED <<epoll, fds, hung, unread, robbed>>
RemoveFromEpollOnly(k) ==
  /\ DelAndClose(deviceList[k].fd)
  /\ UNCHANGED deviceList

Remove(k) ==
  /\ deviceList' = Without(k)
  /\ DelAndClose(deviceList[k].fd)

delDevice(d) ==
  \/ \E k \in DOMAIN deviceList : IsFirstNamed(k, d) /\ Remove(k)
  \/ /\ \A k \in DOMAIN deviceList : ~IsNamed(k, d)
     /\ UNCHANGED <<deviceList, epoll, fds, hung, unread, robbed>>

ProcessRemove ==
  /\ pc = "notify" /\ batch # <<>> /\ Head(batch).mask = "IN_DELETE"
  /\ iRet >= 0
  /\ delDevice(Head(batch).name)
  /\ iRet' = iRet + 1
  /\ batch' = Tail(batch)
  /\ UNCHANGED <<watched, plugged, inotify, pc, toScan, pending, envCounts,
                 scanFailed, hangUps>>

NotifyEnd ==
  /\ pc = "notify" /\ batch = <<>>
  /\ pc' = "wait"
  /\ UNCHANGED <<watched, kernelVars, fds, epoll, deviceList, toScan, pending,
                 batchVars, envCounts, scanFailed, hangUps, robbed>>

Reader ==
  \/ \E d \in Devices : ScanNode(d) \/ ScanGone(d)
  \/ ScanEnd
  \/ EpollWait \/ HangUp \/ ProcessEvents \/ WalkEnd
  \/ ReadInotify \/ CreateSeen \/ CreateGone \/ CreateOpened
  \/ CreateFailed \/ ProcessRemove \/ NotifyEnd

Next == Environment \/ Reader

\* The reader's thread runs whenever it can.
Spec == Init /\ [][Next]_vars /\ WF_vars(Reader)
-----------------------------------------------------------------------------
TypeOK ==
  /\ watched \in BOOLEAN /\ plugged \subseteq Devices
  /\ fds \in [Fd -> Devices \cup {Closed, Other}]
  /\ hung \subseteq Fd /\ unread \in [Fd -> Nat]
  /\ epoll \subseteq Fd \cup {InotifyFd}
  /\ deviceList \in Seq([name : Devices, fd : Fd])
  /\ pending \in Seq([fd : Fd \cup {InotifyFd}, hup : BOOLEAN])
  /\ inotify \in Seq(Notices) /\ batch \in Seq(Notices) /\ iRet \in Int
  /\ hangUps \in BOOLEAN /\ robbed \in BOOLEAN

\* Every descriptor that is polled, and every one that epoll has reported and
\* readOnce has not come to, belongs to a Device in the list, so that none is
\* passed over and reported again for ever: delDevice and a hang-up between
\* them take it out of both (InputReader.cpp:56-59, 128-140).
PolledIsListed ==
  /\ epoll \subseteq Listed \cup {InotifyFd}
  /\ \A k \in DOMAIN pending : pending[k].fd \in Listed \cup {InotifyFd}

\* When the reader has carried out all that inotify told it, it polls every
\* device that has a node, however often nodes came and went, and were found
\* twice, while it scanned and while it read (InotifyDevice.cpp:220-232,
\* 262-269).  Not so after scanDevice gave up (EventDevice.cpp:164), nor after
\* readOnce closed a device that delDevice then closes again: by then the
\* number may be another device's (InputReader.cpp:132, 59).
PluggedIsHeard ==
  /\ pc = "wait" /\ inotify = <<>>
  /\ watched \/ changes = 0
  /\ ~scanFailed /\ ~hangUps
  => \A d \in plugged : \E f \in epoll \cap Fd : fds[f] = d /\ f \notin hung

\* The reader closes descriptors of other threads, a listener's socket say,
\* in one way only: delDevice of a device that readOnce has closed before.
\* The program of packages/inputmanager never calls delDevice
\* (InputReader.cpp:59, 132).
OthersAreSafeUntilAHangUp == robbed => watched /\ hangUps

\* InotifyDevice::process is about to write before the caller's array: an open
\* that failed has taken 1 from iRet (InotifyDevice.cpp:225, 323-328).
Underrun == pc = "notify" /\ batch # <<>> /\ iRet < 0

\* Whatever epoll reports, input, a hang-up or inotify events, is dealt with,
\* in whichever order and although readOnce returns after the first device
\* with input; provided that the others fall silent at last
\* (InputReader.cpp:126-144).
ReadyIsServed ==
  \A f \in Fd \cup {InotifyFd} : f \in Ready ~> f \notin Ready \/ Underrun
=============================================================================
