------------------------- MODULE InputReaderProofs --------------------------
(***************************************************************************)
(* Theorems about InputReader for any devices, however many descriptors    *)
(* and however often the devices come and go: nothing that epoll reports   *)
(* is unknown to the list, the reader closes another thread's descriptor   *)
(* only through a delDevice after a hang-up, and until then every device   *)
(* that has a node is heard once inotify has been read.                    *)
(***************************************************************************)
EXTENDS InputReader, FiniteSetTheorems, SequenceTheorems, TLAPS

\* What the table of descriptors, the epoll set and the list have to do with
\* each other.  The list is only right about its descriptors as long as
\* readOnce has closed none of them.
TablesTyped ==
  /\ fds \in [Fd -> Devices \cup {Closed, Other}]
  /\ epoll \subseteq Fd \cup {InotifyFd}
  /\ deviceList \in Seq([name : Devices, fd : Fd])
PolledIsInList == epoll \subseteq Listed \cup {InotifyFd}
PolledIsADevice == \A f \in epoll \cap Fd : fds[f] \in Devices
ListOwnsItsDescriptors ==
  ~hangUps =>
    /\ \A k \in DOMAIN deviceList : fds[deviceList[k].fd] \in Devices
    /\ \A j, k \in DOMAIN deviceList :
         deviceList[j].fd = deviceList[k].fd => j = k

Tables == /\ TablesTyped /\ PolledIsInList /\ PolledIsADevice
          /\ ListOwnsItsDescriptors

\* Outside of its walk the reader has no items; in it, each is of a descriptor
\* of its own that is still polled, and only a device can have hung up.
ItemsOnlyInAWalk == pc # "walk" => pending = <<>>
ItemsArePolled ==
  \A k \in DOMAIN pending :
    /\ pending[k].fd \in epoll
    /\ pending[k].hup => pending[k].fd \in Fd
ItemsAreDistinct ==
  \A j, k \in DOMAIN pending : pending[j].fd = pending[k].fd => j = k

Items == ItemsOnlyInAWalk /\ ItemsArePolled /\ ItemsAreDistinct

\* Without the InotifyDevice nothing is ever created or removed.
UnwatchedIsQuiet ==
  ~watched => /\ inotify = <<>> /\ batch = <<>>
              /\ InotifyFd \notin epoll
              /\ pc \notin {"notify", "open"}

IInv == TypeOK /\ Tables /\ Items /\ UnwatchedIsQuiet /\ OthersAreSafeUntilAHangUp
-----------------------------------------------------------------------------
\* The invariant holds when the reader starts.
THEOREM InitIsGood == Init => IInv
<1> SUFFICES ASSUME Init PROVE IInv
  OBVIOUS
<1>1. TypeOK
  <2>1. /\ <<>> \in Seq([name : Devices, fd : Fd]) /\ <<>> \in Seq(Notices)
        /\ <<>> \in Seq([fd : Fd \cup {InotifyFd}, hup : BOOLEAN])
    OBVIOUS
  <2>2. /\ fds \in [Fd -> Devices \cup {Closed, Other}]
        /\ unread \in [Fd -> Nat] /\ epoll \subseteq Fd \cup {InotifyFd}
    BY DEF Init
  <2>3. plugged \subseteq Devices /\ hung \subseteq Fd /\ iRet \in Int
    BY DEF Init
  <2>5. hangUps \in BOOLEAN /\ robbed \in BOOLEAN /\ watched \in BOOLEAN
    BY Zenon DEF Init
  <2>4. deviceList = <<>> /\ pending = <<>> /\ inotify = <<>> /\ batch = <<>>
    BY DEF Init
  <2> QED
    BY <2>1, <2>2, <2>3, <2>4, <2>5, Zenon DEF TypeOK
<1>2. Tables
  BY DEF Init, Tables, TablesTyped, PolledIsInList, PolledIsADevice,
     ListOwnsItsDescriptors, Fd, InotifyFd, Closed, Other
<1>3. Items
  BY DEF Init, Items, ItemsOnlyInAWalk, ItemsArePolled, ItemsAreDistinct
<1> QED
  BY <1>1, <1>2, <1>3
     DEF Init, IInv, UnwatchedIsQuiet, OthersAreSafeUntilAHangUp, InotifyFd
-----------------------------------------------------------------------------
(* The tables.                                                               *)

\* What is left of a sequence without its k-th element are the others.
LEMMA WithoutOne ==
  ASSUME NEW T, NEW s \in Seq(T), NEW k \in DOMAIN s
  PROVE  LET r == SubSeq(s, 1, k - 1) \o SubSeq(s, k + 1, Len(s))
         IN  /\ r \in Seq(T)
             /\ DOMAIN r = 1 .. Len(s) - 1
             /\ \A j \in DOMAIN r : r[j] = IF j < k THEN s[j] ELSE s[j + 1]
<1> DEFINE a == SubSeq(s, 1, k - 1)
           b == SubSeq(s, k + 1, Len(s))
<1>1. k \in 1 .. Len(s) /\ Len(s) \in Nat
  OBVIOUS
<1>2. a \in Seq(T) /\ Len(a) = k - 1 /\ \A j \in 1 .. k - 1 : a[j] = s[j]
  BY <1>1, SubSeqProperties
<1>3. b \in Seq(T) /\ Len(b) = Len(s) - k
        /\ \A j \in 1 .. Len(s) - k : b[j] = s[k + j]
  BY <1>1, SubSeqProperties
<1> HIDE DEF a, b
<1>4. a \o b \in Seq(T) /\ Len(a \o b) = Len(s) - 1
  BY <1>1, <1>2, <1>3, ConcatProperties
<1>6. DOMAIN (a \o b) = 1 .. Len(s) - 1
  BY <1>4
<1>5. \A j \in 1 .. Len(s) - 1 :
         (a \o b)[j] = IF j < k THEN s[j] ELSE s[j + 1]
  <2> TAKE j \in 1 .. Len(s) - 1
  <2>1. CASE j < k
    BY <1>1, <1>2, <1>3, <2>1, ConcatProperties
  <2>2. CASE ~(j < k)
    <3>3. /\ a \in Seq(T) /\ b \in Seq(T) /\ Len(a) = k - 1
          /\ j \in 1 .. Len(a) + Len(b) /\ ~(j <= Len(a))
      BY <1>1, <1>2, <1>3, <2>2
    <3>1. (a \o b)[j] = b[j - (k - 1)]
      BY <3>3, ConcatProperties
    <3>2. j - (k - 1) \in 1 .. Len(s) - k /\ k + (j - (k - 1)) = j + 1
      BY <1>1, <2>2
    <3> QED
      BY <1>3, <2>2, <3>1, <3>2
  <2> QED
    BY <2>1, <2>2
<1> QED
  BY <1>4, <1>5, <1>6, Zenon DEF a, b

\* The elements of a list of devices.
LEMMA ListElements ==
  ASSUME deviceList \in Seq([name : Devices, fd : Fd])
  PROVE  /\ Len(deviceList) \in Nat
         /\ DOMAIN deviceList = 1 .. Len(deviceList)
         /\ \A k \in 1 .. Len(deviceList) : deviceList[k].fd \in Fd
<1> DEFINE E == [name : Devices, fd : Fd]
<1>1. \A e \in E : e.fd \in Fd
  OBVIOUS
<1> HIDE DEF E
<1>2. deviceList \in Seq(E)
  BY DEF E
<1>3. \A k \in 1 .. Len(deviceList) : deviceList[k] \in E
  BY <1>2, ElementOfSeq
<1> QED
  BY <1>1, <1>2, <1>3

\* A device that is opened is polled, listed, and alone on its descriptor.
LEMMA AddDeviceKeepsTables ==
  ASSUME Tables, NEW d \in Devices, AddDevice(d), hangUps' = hangUps
  PROVE  Tables' /\ epoll \subseteq epoll'
<1>1. PICK f \in Fd :
        /\ Lowest(f)
        /\ fds' = [fds EXCEPT ![f] = d]
        /\ deviceList' = Append(deviceList, [name |-> d, fd |-> f])
        /\ epoll' = epoll \cup {f}
  BY DEF AddDevice
<1>2. fds \in [Fd -> Devices \cup {Closed, Other}]
      /\ deviceList \in Seq([name : Devices, fd : Fd])
      /\ epoll \subseteq Fd \cup {InotifyFd}
  BY DEF Tables, TablesTyped
<1>3. fds[f] = Closed /\ Closed \notin Devices
  BY <1>1, NotADevice DEF Lowest, Closed
<1> DEFINE n == Len(deviceList)
           e == [name |-> d, fd |-> f]
<1>9. e \in [name : Devices, fd : Fd] /\ e.fd = f
  OBVIOUS
<1>10. \A k \in 1 .. n : deviceList[k].fd \in Fd
  BY <1>2, ListElements
<1> HIDE DEF e
<1>11. /\ deviceList' \in Seq([name : Devices, fd : Fd])
       /\ n \in Nat /\ DOMAIN deviceList = 1 .. n
       /\ DOMAIN deviceList' = 1 .. n + 1
       /\ \A k \in 1 .. n : deviceList'[k] = deviceList[k]
       /\ deviceList'[n + 1] = e
  BY <1>1, <1>2, <1>9, AppendProperties DEF e
<1>4. /\ n \in Nat
      /\ DOMAIN deviceList = 1 .. n
      /\ DOMAIN deviceList' = 1 .. n + 1
      /\ \A k \in 1 .. n : deviceList'[k] = deviceList[k] /\ deviceList[k].fd \in Fd
      /\ deviceList'[n + 1].fd = f
      /\ deviceList' \in Seq([name : Devices, fd : Fd])
  BY <1>9, <1>10, <1>11
<1> HIDE DEF n
<1>5. TablesTyped'
  BY <1>1, <1>2, <1>4 DEF TablesTyped
<1>6. PolledIsInList'
  <2>1. Listed \subseteq Listed' /\ f \in Listed'
    BY <1>4 DEF Listed
  <2> QED
    BY <1>1, <2>1 DEF Tables, PolledIsInList
<1>7. PolledIsADevice'
  BY <1>1, <1>2 DEF Tables, PolledIsADevice
<1>8. ListOwnsItsDescriptors'
  <2> SUFFICES ASSUME ~hangUps
               PROVE  /\ \A k \in 1 .. n + 1 : fds'[deviceList'[k].fd] \in Devices
                      /\ \A j, k \in 1 .. n + 1 :
                           deviceList'[j].fd = deviceList'[k].fd => j = k
    BY <1>4 DEF ListOwnsItsDescriptors
  <2>1. \A k \in 1 .. n : fds[deviceList[k].fd] \in Devices
    BY <1>4 DEF Tables, ListOwnsItsDescriptors
  <2>2. \A j, k \in 1 .. n : deviceList[j].fd = deviceList[k].fd => j = k
    BY <1>4 DEF Tables, ListOwnsItsDescriptors
  <2>3. \A k \in 1 .. n : deviceList'[k].fd # f
    BY <1>3, <1>4, <2>1
  <2>4. \A k \in 1 .. n + 1 : fds'[deviceList'[k].fd] \in Devices
    BY <1>1, <1>2, <1>4, <2>1
  <2>5. \A j, k \in 1 .. n + 1 : deviceList'[j].fd = deviceList'[k].fd => j = k
    BY <1>4, <2>2, <2>3
  <2> QED
    BY <2>4, <2>5
<1> QED
  BY <1>1, <1>5, <1>6, <1>7, <1>8 DEF Tables

\* Closing a descriptor that is taken out of the epoll set.
LEMMA CloseKeepsPolled ==
  ASSUME Tables, NEW f \in Fd, DelAndClose(f), robbed \in BOOLEAN
  PROVE  /\ fds' \in [Fd -> Devices \cup {Closed, Other}]
         /\ epoll' = epoll \ {f}
         /\ PolledIsADevice'
         /\ \A g \in Fd \ {f} : fds'[g] = fds[g]
         /\ fds[f] \in Devices => robbed' = robbed
<1>1. /\ epoll' = epoll \ {f}
      /\ fds' = [fds EXCEPT ![f] = Closed]
      /\ robbed' = (robbed \/ fds[f] = Other)
  BY DEF DelAndClose, Close
<1>2. fds \in [Fd -> Devices \cup {Closed, Other}]
  BY DEF Tables, TablesTyped
<1>3. fds[f] \in Devices => fds[f] # Other
  BY NotADevice DEF Other
<1>4. fds[f] \in Devices => robbed' = robbed
  BY <1>1, <1>3
<1>5. PolledIsADevice'
  BY <1>1, <1>2 DEF Tables, PolledIsADevice
<1> QED
  BY <1>1, <1>2, <1>4, <1>5

\* delDevice leaves the other devices as they are, and robs nobody as long as
\* the list owns its descriptors.
LEMMA DelDeviceKeepsTables ==
  ASSUME Tables, NEW d, delDevice(d), hangUps' = hangUps, robbed \in BOOLEAN
  PROVE  Tables' /\ (~hangUps => robbed' = robbed)
<1>1. CASE UNCHANGED <<deviceList, epoll, fds, hung, unread, robbed>>
  BY <1>1 DEF Tables, TablesTyped, PolledIsInList, PolledIsADevice,
     ListOwnsItsDescriptors, Listed
<1>2. ASSUME NEW k \in DOMAIN deviceList, Remove(k)
      PROVE  Tables' /\ (~hangUps => robbed' = robbed)
  <2> DEFINE n == Len(deviceList)
             f == deviceList[k].fd
  <2>1. deviceList \in Seq([name : Devices, fd : Fd])
    BY DEF Tables, TablesTyped
  <2>2. n \in Nat /\ DOMAIN deviceList = 1 .. n /\ k \in 1 .. n /\ f \in Fd
        /\ \A j \in 1 .. n : deviceList[j].fd \in Fd
    BY <1>2, <2>1, ListElements
  <2>3. /\ deviceList' \in Seq([name : Devices, fd : Fd])
        /\ DOMAIN deviceList' = 1 .. n - 1
        /\ \A j \in 1 .. n - 1 :
             deviceList'[j] = IF j < k THEN deviceList[j] ELSE deviceList[j + 1]
    BY <1>2, <2>1, WithoutOne, Zenon DEF Remove, Without
  <2> HIDE DEF n
  <2>4. DelAndClose(f)
    BY <1>2 DEF Remove
  <2> HIDE DEF f
  <2>5. /\ fds' \in [Fd -> Devices \cup {Closed, Other}]
        /\ epoll' = epoll \ {f}
        /\ PolledIsADevice'
        /\ \A g \in Fd \ {f} : fds'[g] = fds[g]
        /\ fds[f] \in Devices => robbed' = robbed
    BY <2>2, <2>4, CloseKeepsPolled
  <2>6. TablesTyped'
    BY <2>3, <2>5 DEF Tables, TablesTyped
  <2>7. PolledIsInList'
    <3>1. \A j \in 1 .. n : deviceList[j].fd # f => deviceList[j].fd \in Listed'
      <4> TAKE j \in 1 .. n
      <4> HAVE deviceList[j].fd # f
      <4>1. j # k
        BY DEF f
      <4>2. CASE j < k
        BY <2>2, <2>3, <4>2 DEF Listed
      <4>3. CASE j > k
        <5>1. j - 1 \in 1 .. n - 1 /\ ~(j - 1 < k) /\ (j - 1) + 1 = j
          BY <2>2, <4>3
        <5>2. deviceList'[j - 1] = deviceList[j]
          BY <2>3, <5>1
        <5> QED
          BY <2>3, <5>1, <5>2 DEF Listed
      <4> QED
        BY <2>2, <4>1, <4>2, <4>3
    <3> QED
      BY <2>2, <2>5, <3>1 DEF Tables, PolledIsInList, Listed
  <2>8. ~hangUps =>
          /\ \A j \in 1 .. n : fds[deviceList[j].fd] \in Devices
          /\ \A i, j \in 1 .. n : deviceList[i].fd = deviceList[j].fd => i = j
    BY <2>2 DEF Tables, ListOwnsItsDescriptors
  <2>9. ListOwnsItsDescriptors'
    <3> SUFFICES ASSUME ~hangUps
                 PROVE  /\ \A j \in 1 .. n - 1 : fds'[deviceList'[j].fd] \in Devices
                        /\ \A i, j \in 1 .. n - 1 :
                             deviceList'[i].fd = deviceList'[j].fd => i = j
      BY <2>3 DEF ListOwnsItsDescriptors
    <3> DEFINE old(j) == IF j < k THEN j ELSE j + 1
    <3>1. \A j \in 1 .. n - 1 : old(j) \in 1 .. n /\ old(j) # k
      BY <2>2
    <3>2. \A j \in 1 .. n - 1 : deviceList'[j] = deviceList[old(j)]
      BY <2>3
    <3>3. \A i, j \in 1 .. n - 1 : old(i) = old(j) => i = j
      BY <2>2
    <3> HIDE DEF old
    <3>4. \A j \in 1 .. n - 1 : deviceList'[j].fd \in Fd \ {f}
      BY <2>2, <2>8, <3>1, <3>2 DEF f
    <3>5. \A j \in 1 .. n - 1 : fds'[deviceList'[j].fd] \in Devices
      BY <2>5, <2>8, <3>1, <3>2, <3>4
    <3>6. \A i, j \in 1 .. n - 1 : deviceList'[i].fd = deviceList'[j].fd => i = j
      BY <2>8, <3>1, <3>2, <3>3
    <3> QED
      BY <3>5, <3>6
  <2>10. ~hangUps => robbed' = robbed
    BY <2>2, <2>5, <2>8 DEF f
  <2> QED
    BY <2>5, <2>6, <2>7, <2>9, <2>10 DEF Tables
<1> QED
  BY <1>1, <1>2 DEF delDevice

\* A step that leaves the descriptors and the devices alone keeps the tables
\* true.
LEMMA SameTables ==
  ASSUME Tables, UNCHANGED <<fds, epoll, deviceList, hangUps>>
  PROVE  Tables'
BY DEF Tables, TablesTyped, PolledIsInList, PolledIsADevice,
   ListOwnsItsDescriptors, Listed
-----------------------------------------------------------------------------
(* The items of a walk.                                                      *)

\* Where epoll_wait has returned nothing there is nothing to say of its items.
LEMMA NoItems == pending' = <<>> => Items'
BY DEF Items, ItemsOnlyInAWalk, ItemsArePolled, ItemsAreDistinct

\* The items of a walk stay true where no descriptor leaves the epoll set.
LEMMA SameItems ==
  ASSUME Items, UNCHANGED <<pc, pending>>, epoll \subseteq epoll'
  PROVE  Items'
BY DEF Items, ItemsOnlyInAWalk, ItemsArePolled, ItemsAreDistinct

\* The elements of a tail.
LEMMA TailElements ==
  ASSUME NEW T, NEW s \in Seq(T), s # <<>>
  PROVE  /\ Tail(s) \in Seq(T)
         /\ Head(s) = s[1] /\ 1 \in DOMAIN s /\ s[1] \in T
         /\ \A k \in DOMAIN Tail(s) : k + 1 \in DOMAIN s /\ Tail(s)[k] = s[k + 1]
                                     /\ k + 1 # 1
OBVIOUS

\* Passing on to the next item, with nothing but the first one's descriptor
\* taken out of the epoll set.
LEMMA NextItem ==
  ASSUME Items, TypeOK, pending # <<>>, pc = "walk",
         pending' = Tail(pending), pc' = pc, epoll \ {Head(pending).fd} \subseteq epoll'
  PROVE  Items'
<1> DEFINE I == [fd : Fd \cup {InotifyFd}, hup : BOOLEAN]
<1>1. pending \in Seq(I)
  BY DEF TypeOK
<1> HIDE DEF I
<1>2. /\ Head(pending) = pending[1] /\ 1 \in DOMAIN pending
      /\ \A k \in DOMAIN pending' :
           k + 1 \in DOMAIN pending /\ pending'[k] = pending[k + 1] /\ k + 1 # 1
  BY <1>1, TailElements
<1>3. DOMAIN pending' \subseteq Nat
  BY <1>1, TailElements
<1>4. ItemsArePolled'
  BY <1>2 DEF Items, ItemsArePolled, ItemsAreDistinct
<1>5. ItemsAreDistinct'
  BY <1>2, <1>3 DEF Items, ItemsAreDistinct
<1> QED
  BY <1>4, <1>5 DEF Items, ItemsOnlyInAWalk

\* What epoll gives is polled, each descriptor once.
LEMMA ItemsOfEpollWait ==
  ASSUME TypeOK, EpollWait
  PROVE  Items' /\ pending' \in Seq([fd : Fd \cup {InotifyFd}, hup : BOOLEAN])
<1>1. PICK s \in Orders(Ready) : pending' = [k \in DOMAIN s |-> Item(s[k])]
  BY DEF EpollWait
<1>2. Ready \subseteq epoll /\ epoll \subseteq Fd \cup {InotifyFd} /\ hung \subseteq Fd
  BY DEF Ready, TypeOK
<1>3. IsFiniteSet(Ready)
  <2>1. IsFiniteSet(0 .. MaxFd)
    BY BoundsOK, FS_Interval
  <2>2. Ready \subseteq 0 .. MaxFd
    BY BoundsOK, <1>2 DEF Fd, InotifyFd
  <2> QED
    BY <2>1, <2>2, FS_Subset
<1> DEFINE n == Cardinality(Ready)
<1>4. n \in Nat
  BY <1>3, FS_CardinalityType
<1>5. s \in [1 .. n -> Ready] /\ \A j, k \in 1 .. n : s[j] = s[k] => j = k
  BY <1>1 DEF Orders, IsInjective
<1> HIDE DEF n
<1>6. /\ DOMAIN pending' = 1 .. n
      /\ \A k \in 1 .. n : /\ s[k] \in Ready
                           /\ pending'[k] = [fd |-> s[k], hup |-> s[k] \in hung]
  BY <1>1, <1>5 DEF Item
<1>7. \A k \in 1 .. n : /\ pending'[k] \in [fd : Fd \cup {InotifyFd}, hup : BOOLEAN]
                        /\ pending'[k].fd = s[k]
                        /\ pending'[k].fd \in epoll
                        /\ pending'[k].hup => pending'[k].fd \in Fd
  <2> TAKE k \in 1 .. n
  <2> DEFINE b == s[k] \in hung
  <2>1. b \in BOOLEAN /\ (b => s[k] \in Fd) /\ s[k] \in epoll
    BY <1>2, <1>6
  <2>2. pending'[k] = [fd |-> s[k], hup |-> b]
    BY <1>6
  <2> HIDE DEF b
  <2> QED
    BY <1>2, <2>1, <2>2
<1> DEFINE I == [fd : Fd \cup {InotifyFd}, hup : BOOLEAN]
<1>8. pending' \in [1 .. n -> I]
  BY <1>1, <1>5, <1>6, <1>7
<1> HIDE DEF I
<1>9. pending' \in Seq(I)
  BY <1>4, <1>8
<1>10. epoll' = epoll /\ pc' = "walk"
  BY DEF EpollWait
<1>11. ItemsArePolled'
  BY <1>6, <1>7, <1>10 DEF ItemsArePolled
<1>12. ItemsAreDistinct'
  BY <1>5, <1>6, <1>7 DEF ItemsAreDistinct
<1> QED
  BY <1>9, <1>10, <1>11, <1>12 DEF I, Items, ItemsOnlyInAWalk

-----------------------------------------------------------------------------
(* The devices and the other threads.                                        *)

\* A notice of the kernel keeps the inotify queue one of notices.
LEMMA NotifyKeeps ==
  ASSUME inotify \in Seq(Notices), NEW d \in Devices,
         NEW mask \in {"IN_CREATE", "IN_DELETE"}, Notify(mask, d)
  PROVE  inotify' \in Seq(Notices) /\ (~watched => inotify' = inotify)
<1>1. [mask |-> mask, name |-> d] \in Notices
  BY DEF Notices
<1> QED
  BY <1>1, AppendProperties DEF Notify

\* The kernel and the users, who plug and unplug, keep the invariant.
LEMMA EnvironmentKeeps == IInv /\ Environment => IInv'
<1> SUFFICES ASSUME IInv, Environment PROVE IInv'
  OBVIOUS
<1> USE DEF IInv
<1>1. ASSUME NEW d \in Devices, Plug(d) PROVE IInv'
  <2>1. inotify' \in Seq(Notices) /\ (~watched => inotify' = inotify)
    BY <1>1, NotifyKeeps DEF Plug, TypeOK
  <2>2. TypeOK'
    BY <1>1, <2>1 DEF Plug, TypeOK, batchVars
  <2>3. Tables'
    BY <1>1, SameTables DEF Plug
  <2>4. Items'
    BY <1>1, SameItems DEF Plug
  <2> QED
    BY <1>1, <2>1, <2>2, <2>3, <2>4
       DEF Plug, UnwatchedIsQuiet, OthersAreSafeUntilAHangUp, batchVars
<1>2. ASSUME NEW d \in Devices, Unplug(d) PROVE IInv'
  <2>1. inotify' \in Seq(Notices) /\ (~watched => inotify' = inotify)
    BY <1>2, NotifyKeeps DEF Unplug, TypeOK
  <2>2. TypeOK'
    BY <1>2, <2>1 DEF Unplug, TypeOK, batchVars
  <2>3. Tables'
    BY <1>2, SameTables DEF Unplug
  <2>4. Items'
    BY <1>2, SameItems DEF Unplug
  <2> QED
    BY <1>2, <2>1, <2>2, <2>3, <2>4
       DEF Unplug, UnwatchedIsQuiet, OthersAreSafeUntilAHangUp, batchVars
<1>3. ASSUME NEW d \in Devices, Send(d) PROVE IInv'
  <2>1. TypeOK'
    BY <1>3 DEF Send, TypeOK, batchVars
  <2>2. Tables'
    BY <1>3, SameTables DEF Send
  <2>3. Items'
    BY <1>3, SameItems DEF Send
  <2> QED
    BY <1>3, <2>1, <2>2, <2>3
       DEF Send, UnwatchedIsQuiet, OthersAreSafeUntilAHangUp, batchVars
<1>4. CASE OtherOpens
  <2>1. PICK f \in Fd : Lowest(f) /\ fds' = [fds EXCEPT ![f] = Other]
    BY <1>4 DEF OtherOpens
  <2>2. fds[f] \notin Devices
    BY <2>1, NotADevice DEF Lowest, Closed
  <2>3. fds \in [Fd -> Devices \cup {Closed, Other}]
    BY DEF TypeOK
  <2>4. TypeOK'
    BY <1>4, <2>1 DEF OtherOpens, TypeOK, batchVars, kernelVars
  <2>5. UNCHANGED <<epoll, deviceList, hangUps, pc, pending>>
    BY <1>4 DEF OtherOpens
  <2>6. \A g \in Fd : fds[g] \in Devices => fds'[g] \in Devices
    BY <2>1, <2>2, <2>3
  <2>7. PolledIsADevice'
    BY <2>5, <2>6 DEF Tables, PolledIsADevice
  <2>8. ListOwnsItsDescriptors'
    <3>1. \A k \in DOMAIN deviceList : deviceList[k].fd \in Fd
      BY ListElements DEF Tables, TablesTyped
    <3> QED
      BY <2>5, <2>6, <3>1 DEF Tables, ListOwnsItsDescriptors
  <2>9. Tables'
    BY <2>4, <2>5, <2>7, <2>8
       DEF TypeOK, Tables, TablesTyped, PolledIsInList, Listed
  <2>10. Items'
    BY <2>5, SameItems
  <2> QED
    BY <1>4, <2>4, <2>9, <2>10
       DEF OtherOpens, UnwatchedIsQuiet, OthersAreSafeUntilAHangUp, batchVars,
           kernelVars
<1> QED
  BY <1>1, <1>2, <1>3, <1>4 DEF Environment
-----------------------------------------------------------------------------
(* The reader: scanDevice and readOnce.                                      *)

\* The scan of the directory keeps the invariant.
LEMMA ScanKeeps ==
  ASSUME IInv,
         \/ \E d \in Devices : ScanNode(d) \/ ScanGone(d)
         \/ ScanEnd
  PROVE  IInv'
<1> USE DEF IInv
<1>1. ASSUME NEW d \in Devices, ScanNode(d) PROVE IInv'
  <2>1. AddDevice(d) /\ hangUps' = hangUps
    BY <1>1 DEF ScanNode
  <2>2. Tables' /\ epoll \subseteq epoll'
    BY <2>1, AddDeviceKeepsTables
  <2>3. TypeOK'
    BY <1>1, <2>1, <2>2
       DEF ScanNode, AddDevice, TypeOK, Tables, TablesTyped, batchVars
  <2>4. Items'
    BY <1>1, <2>2, SameItems DEF ScanNode
  <2>5. InotifyFd \notin epoll => InotifyFd \notin epoll'
    BY <2>1, BoundsOK DEF AddDevice, InotifyFd, Fd
  <2> QED
    BY <1>1, <2>2, <2>3, <2>4, <2>5
       DEF ScanNode, AddDevice, UnwatchedIsQuiet, OthersAreSafeUntilAHangUp,
           batchVars
<1>2. ASSUME NEW d \in Devices, ScanGone(d) PROVE IInv'
  <2>1. TypeOK'
    BY <1>2 DEF ScanGone, TypeOK, batchVars, kernelVars
  <2>2. Tables'
    BY <1>2, SameTables DEF ScanGone
  <2>3. Items'
    BY <1>2, SameItems DEF ScanGone
  <2> QED
    BY <1>2, <2>1, <2>2, <2>3
       DEF ScanGone, UnwatchedIsQuiet, OthersAreSafeUntilAHangUp, batchVars,
           kernelVars
<1>3. CASE ScanEnd
  <2>1. TypeOK'
    BY <1>3 DEF ScanEnd, TypeOK, batchVars, kernelVars
  <2>2. Tables'
    BY <1>3, SameTables DEF ScanEnd
  <2>3. pending' = <<>>
    BY <1>3 DEF ScanEnd, Items, ItemsOnlyInAWalk
  <2> QED
    BY <1>3, <2>1, <2>2, <2>3, NoItems
       DEF ScanEnd, UnwatchedIsQuiet, OthersAreSafeUntilAHangUp, batchVars,
           kernelVars
<1> QED
  BY <1>1, <1>2, <1>3

\* The head of the items is of a descriptor that is polled.
LEMMA HeadItem ==
  ASSUME TypeOK, Items, pending # <<>>
  PROVE  /\ Tail(pending) \in Seq([fd : Fd \cup {InotifyFd}, hup : BOOLEAN])
         /\ Head(pending).fd \in epoll
         /\ Head(pending).hup => Head(pending).fd \in Fd
<1>1. pending \in Seq([fd : Fd \cup {InotifyFd}, hup : BOOLEAN])
  BY DEF TypeOK
<1>2. Head(pending) = pending[1] /\ 1 \in DOMAIN pending
  BY <1>1, TailElements
<1>3. Tail(pending) \in Seq([fd : Fd \cup {InotifyFd}, hup : BOOLEAN])
  BY <1>1, TailElements
<1> QED
  BY <1>2, <1>3 DEF Items, ItemsArePolled

\* A device that hung up is closed, and no other descriptor.
LEMMA HangUpKeeps == IInv /\ HangUp => IInv'
<1> SUFFICES ASSUME IInv, HangUp PROVE IInv'
  OBVIOUS
<1> USE DEF IInv
<1> DEFINE f == Head(pending).fd
<1>1. /\ Tail(pending) \in Seq([fd : Fd \cup {InotifyFd}, hup : BOOLEAN])
      /\ f \in epoll /\ f \in Fd
  BY HeadItem DEF HangUp
<1>2. DelAndClose(f) /\ hangUps' = TRUE /\ deviceList' = deviceList
  BY DEF HangUp
<1>3. pc = "walk" /\ pc' = pc /\ pending # <<>> /\ pending' = Tail(pending)
  BY DEF HangUp
<1>4. Items'
  BY <1>1, <1>2, <1>3, NextItem DEF DelAndClose
<1> HIDE DEF f
<1>5. fds[f] \in Devices
  BY <1>1 DEF Tables, PolledIsADevice
<1>6. robbed \in BOOLEAN
  BY DEF TypeOK
<1>7. /\ fds' \in [Fd -> Devices \cup {Closed, Other}]
      /\ epoll' = epoll \ {f}
      /\ PolledIsADevice'
      /\ robbed' = robbed
  BY <1>1, <1>2, <1>5, <1>6, CloseKeepsPolled
<1>8. Tables'
  BY <1>2, <1>7 DEF Tables, TablesTyped, PolledIsInList,
     ListOwnsItsDescriptors, Listed
<1>14. hung \subseteq Fd /\ unread \in [Fd -> Nat]
  BY DEF TypeOK
<1>9. hung' \subseteq Fd /\ unread' \in [Fd -> Nat]
  <2>1. hung' = hung \ {f} /\ unread' = [unread EXCEPT ![f] = 0]
    BY <1>2 DEF DelAndClose, Close
  <2> QED
    BY <1>14, <2>1
<1>10. epoll' \subseteq Fd \cup {InotifyFd} /\ deviceList' \in Seq([name : Devices, fd : Fd])
  BY <1>2, <1>7 DEF TypeOK
<1>11. pending' \in Seq([fd : Fd \cup {InotifyFd}, hup : BOOLEAN])
  BY <1>1, <1>3
<1>12. UNCHANGED <<watched, plugged, inotify, batch, iRet>>
  BY DEF HangUp, batchVars
<1>13. TypeOK'
  BY <1>2, <1>6, <1>7, <1>9, <1>10, <1>11, <1>12 DEF TypeOK
<1> QED
  BY <1>4, <1>7, <1>8, <1>13
     DEF HangUp, UnwatchedIsQuiet, OthersAreSafeUntilAHangUp, batchVars

\* Waiting, walking the items and reading the notices keep the invariant.
LEMMA ReadOnceKeeps ==
  IInv /\ (EpollWait \/ ProcessEvents \/ WalkEnd \/ ReadInotify) => IInv'
<1> SUFFICES ASSUME IInv, EpollWait \/ ProcessEvents \/ WalkEnd \/ ReadInotify
             PROVE  IInv'
  OBVIOUS
<1> USE DEF IInv
<1>1. CASE EpollWait
  <2>1. Items' /\ pending' \in Seq([fd : Fd \cup {InotifyFd}, hup : BOOLEAN])
    BY <1>1, ItemsOfEpollWait
  <2>2. TypeOK'
    BY <1>1, <2>1 DEF EpollWait, TypeOK, batchVars, kernelVars
  <2>3. Tables'
    BY <1>1, SameTables DEF EpollWait
  <2> QED
    BY <1>1, <2>1, <2>2, <2>3
       DEF EpollWait, UnwatchedIsQuiet, OthersAreSafeUntilAHangUp, batchVars,
           kernelVars
<1>2. CASE ProcessEvents
  <2>1. Tail(pending) \in Seq([fd : Fd \cup {InotifyFd}, hup : BOOLEAN])
    BY <1>2, HeadItem DEF ProcessEvents
  <2>2. TypeOK'
    <3>0. CASE Head(pending).fd \in Listed
      <4>1. pending' = <<>> /\ unread' = [unread EXCEPT
              ![Head(pending).fd] = IF Head(pending).fd \in hung THEN @ ELSE 0]
        BY <1>2, <3>0 DEF ProcessEvents
      <4>2. unread' \in [Fd -> Nat]
        BY <4>1 DEF TypeOK
      <4>3. pending' \in Seq([fd : Fd \cup {InotifyFd}, hup : BOOLEAN])
        BY <4>1
      <4> QED
        BY <1>2, <4>2, <4>3 DEF ProcessEvents, TypeOK, batchVars
    <3>1. CASE Head(pending).fd \notin Listed
      <4>1. pending' = Tail(pending) /\ unread' = unread
        BY <1>2, <3>1 DEF ProcessEvents
      <4>2. pending' \in Seq([fd : Fd \cup {InotifyFd}, hup : BOOLEAN])
        BY <2>1, <4>1
      <4> QED
        BY <1>2, <4>1, <4>2 DEF ProcessEvents, TypeOK, batchVars
    <3> QED
      BY <3>0, <3>1
  <2>3. Tables'
    BY <1>2, SameTables DEF ProcessEvents
  <2>4. Items'
    <3>1. CASE Head(pending).fd \in Listed
      BY <1>2, <3>1, NoItems DEF ProcessEvents
    <3>2. CASE Head(pending).fd \notin Listed
      BY <1>2, <3>2, NextItem DEF ProcessEvents
    <3> QED
      BY <3>1, <3>2
  <2> QED
    BY <1>2, <2>2, <2>3, <2>4
       DEF ProcessEvents, UnwatchedIsQuiet, OthersAreSafeUntilAHangUp, batchVars
<1>3. CASE WalkEnd
  <2>1. TypeOK'
    BY <1>3 DEF WalkEnd, TypeOK, batchVars, kernelVars
  <2>2. Tables'
    BY <1>3, SameTables DEF WalkEnd
  <2> QED
    BY <1>3, <2>1, <2>2, NoItems
       DEF WalkEnd, UnwatchedIsQuiet, OthersAreSafeUntilAHangUp, batchVars,
           kernelVars
<1>4. CASE ReadInotify
  <2>1. TypeOK'
    BY <1>4 DEF ReadInotify, TypeOK
  <2>2. Tables'
    BY <1>4, SameTables DEF ReadInotify
  <2>3. watched
    BY <1>4, HeadItem DEF ReadInotify, UnwatchedIsQuiet, TypeOK
  <2> QED
    BY <1>4, <2>1, <2>2, <2>3, NoItems
       DEF ReadInotify, UnwatchedIsQuiet, OthersAreSafeUntilAHangUp
<1> QED
  BY <1>1, <1>2, <1>3, <1>4
-----------------------------------------------------------------------------
(* The reader: InotifyDevice.                                                *)

\* The head of the events in event_buf is of a device.
LEMMA HeadNotice ==
  ASSUME TypeOK, batch # <<>>
  PROVE  Tail(batch) \in Seq(Notices) /\ Head(batch).name \in Devices
<1>1. batch \in Seq(Notices)
  BY DEF TypeOK
<1>2. Tail(batch) \in Seq(Notices) /\ Head(batch) \in Notices
  BY <1>1, TailElements
<1> QED
  BY <1>2 DEF Notices

\* A notice that opens no device keeps the invariant.
LEMMA NotifyStepKeeps ==
  IInv /\ (CreateSeen \/ CreateGone \/ CreateFailed \/ NotifyEnd) => IInv'
<1> SUFFICES ASSUME IInv, CreateSeen \/ CreateGone \/ CreateFailed \/ NotifyEnd
             PROVE  IInv'
  OBVIOUS
<1> USE DEF IInv
<1>1. watched \in BOOLEAN /\ (watched <=> watched')
  BY DEF TypeOK, CreateSeen, CreateGone, CreateFailed, NotifyEnd
<1>2. pending' = <<>>
  BY DEF CreateSeen, CreateGone, CreateFailed, NotifyEnd, Items, ItemsOnlyInAWalk
<1>3. Tables'
  <2>1. UNCHANGED <<fds, epoll, deviceList, hangUps>>
    BY DEF CreateSeen, CreateGone, CreateFailed, NotifyEnd
  <2> QED
    BY <2>1, SameTables
<1>4. batch' \in Seq(Notices) /\ iRet' \in Int
  <2>1. batch' = batch \/ (batch # <<>> /\ batch' = Tail(batch))
    BY DEF CreateSeen, CreateGone, CreateFailed, NotifyEnd, batchVars
  <2>2. iRet' = iRet \/ iRet' = iRet - 1
    BY DEF CreateSeen, CreateGone, CreateFailed, NotifyEnd, batchVars
  <2>3. batch \in Seq(Notices) /\ iRet \in Int
    BY DEF TypeOK
  <2> QED
    BY <2>1, <2>2, <2>3, HeadNotice
<1>5. TypeOK'
  BY <1>2, <1>4 DEF CreateSeen, CreateGone, CreateFailed, NotifyEnd, TypeOK,
     kernelVars
<1>6. watched
  BY DEF CreateSeen, CreateGone, CreateFailed, NotifyEnd, UnwatchedIsQuiet
<1>7. OthersAreSafeUntilAHangUp'
  BY DEF CreateSeen, CreateGone, CreateFailed, NotifyEnd, OthersAreSafeUntilAHangUp
<1> QED
  BY <1>1, <1>2, <1>3, <1>5, <1>6, <1>7, NoItems DEF UnwatchedIsQuiet

\* A notice that opens a device keeps the invariant.
LEMMA CreateOpenedKeeps == IInv /\ CreateOpened => IInv'
<1> SUFFICES ASSUME IInv, CreateOpened PROVE IInv'
  OBVIOUS
<1> USE DEF IInv
<1>1. watched /\ pending' = <<>>
  BY DEF CreateOpened, UnwatchedIsQuiet, Items, ItemsOnlyInAWalk
<1>2. batch' \in Seq(Notices) /\ Head(batch).name \in Devices
  BY HeadNotice DEF CreateOpened
<1>3. Tables'
  BY <1>2, AddDeviceKeepsTables DEF CreateOpened
<1>4. TypeOK'
  <2>1. UNCHANGED <<hung, unread, robbed>>
    BY DEF CreateOpened, AddDevice
  <2>2. UNCHANGED <<watched, plugged, inotify, hangUps>> /\ iRet' \in Int
    BY DEF CreateOpened, TypeOK
  <2> QED
    BY <1>1, <1>2, <1>3, <2>1, <2>2 DEF TypeOK, Tables, TablesTyped
<1> QED
  BY <1>1, <1>3, <1>4, NoItems
     DEF CreateOpened, AddDevice, UnwatchedIsQuiet, OthersAreSafeUntilAHangUp

\* Before a hang-up the list owns what delDevice closes; after one, nothing
\* more is claimed of a program that watches.
LEMMA ProcessRemoveKeeps == IInv /\ ProcessRemove => IInv'
<1> SUFFICES ASSUME IInv, ProcessRemove PROVE IInv'
  OBVIOUS
<1> USE DEF IInv
<1>1. watched /\ pending' = <<>>
  BY DEF ProcessRemove, UnwatchedIsQuiet, Items, ItemsOnlyInAWalk
<1>2. batch' \in Seq(Notices)
  BY HeadNotice DEF ProcessRemove
<1>3. delDevice(Head(batch).name) /\ UNCHANGED <<watched, plugged, inotify, hangUps>>
  BY DEF ProcessRemove
<1>4. Tables' /\ (~hangUps => robbed' = robbed)
  BY <1>3, DelDeviceKeepsTables DEF TypeOK
<1>5. hung' \subseteq Fd /\ unread' \in [Fd -> Nat] /\ robbed' \in BOOLEAN
  <2>1. CASE UNCHANGED <<hung, unread, robbed>>
    BY <2>1 DEF TypeOK
  <2>2. ASSUME NEW k \in DOMAIN deviceList, Remove(k)
        PROVE  hung' \subseteq Fd /\ unread' \in [Fd -> Nat] /\ robbed' \in BOOLEAN
    BY <2>2 DEF Remove, DelAndClose, Close, TypeOK
  <2> QED
    BY <1>3, <2>1, <2>2 DEF delDevice
<1>6. TypeOK'
  <2>1. iRet' \in Int
    BY DEF ProcessRemove, TypeOK
  <2> QED
    BY <1>1, <1>2, <1>3, <1>4, <1>5, <2>1 DEF TypeOK, Tables, TablesTyped
<1>7. OthersAreSafeUntilAHangUp'
  BY <1>1, <1>3, <1>4 DEF OthersAreSafeUntilAHangUp, TypeOK
<1> QED
  BY <1>1, <1>3, <1>4, <1>6, <1>7, NoItems DEF UnwatchedIsQuiet
-----------------------------------------------------------------------------
\* Every step of the reader and of its surroundings keeps the invariant.
THEOREM NextKeeps == IInv /\ [Next]_vars => IInv'
<1>1. IInv /\ Environment => IInv'
  BY EnvironmentKeeps
<1>2. IInv /\ Reader => IInv'
  BY ScanKeeps, HangUpKeeps, ReadOnceKeeps, NotifyStepKeeps,
     CreateOpenedKeeps, ProcessRemoveKeeps DEF Reader
<1>3. IInv /\ UNCHANGED vars => IInv'
  <2> SUFFICES ASSUME IInv, UNCHANGED vars PROVE IInv'
    OBVIOUS
  <2>1. UNCHANGED <<watched, plugged, hung, unread, inotify, batch, iRet, fds, epoll,
                    deviceList, pc, pending, hangUps, robbed>>
    BY DEF vars, kernelVars, batchVars
  <2>2. Tables' /\ Items'
    BY <2>1, SameTables, SameItems DEF IInv
  <2> QED
    BY <2>1, <2>2 DEF IInv, TypeOK, UnwatchedIsQuiet, OthersAreSafeUntilAHangUp
<1> QED
  BY <1>1, <1>2, <1>3 DEF Next

\* The invariant holds in every state that the reader reaches.
THEOREM AlwaysIInv == Spec => []IInv
BY InitIsGood, NextKeeps, PTL DEF Spec

\* The variables of the reader, of the kernel and of the devices keep their
\* types (InputReader.cpp, InotifyDevice.cpp).
THEOREM TypeCorrect == Spec => []TypeOK
<1>1. IInv => TypeOK
  BY DEF IInv
<1> QED
  BY <1>1, AlwaysIInv, PTL

\* readOnce never meets a descriptor that no Device in the list has: the
\* branch for it is never taken (InputReader.cpp:136-140).
THEOREM PolledAreListed == Spec => []PolledIsListed
<1>1. IInv => PolledIsListed
  BY DEF IInv, Tables, PolledIsInList, Items, ItemsArePolled, PolledIsListed
<1> QED
  BY <1>1, AlwaysIInv, PTL

\* Until a delDevice follows a hang-up, no descriptor of another thread is
\* closed, and in the program of packages/inputmanager never
\* (InputReader.cpp:58-59, 131-132).
THEOREM OthersAreSafe == Spec => []OthersAreSafeUntilAHangUp
<1>1. IInv => OthersAreSafeUntilAHangUp
  BY DEF IInv
<1> QED
  BY <1>1, AlwaysIInv, PTL
-----------------------------------------------------------------------------
(* What is plugged in is heard.  Of a device that has a node, the last that  *)
(* inotify has to tell is that it was created, if there is anything to tell; *)
(* if there is not, scanDevice will come to it or it is polled.              *)

Notice(mask, d) == [mask |-> mask, name |-> d]
Tells(s, d) == \E j \in DOMAIN s : s[j] = Notice("IN_CREATE", d)
TellsAfter(s, k, d) == \E j \in DOMAIN s : j > k /\ s[j] = Notice("IN_CREATE", d)

LastIsCreate ==
  \A d \in plugged :
    /\ \A k \in DOMAIN batch :
         batch[k] = Notice("IN_DELETE", d) => TellsAfter(batch, k, d) \/ Tells(inotify, d)
    /\ \A k \in DOMAIN inotify :
         inotify[k] = Notice("IN_DELETE", d) => TellsAfter(inotify, k, d)

\* A descriptor on which the device will be heard.
Heard(d) == \E f \in epoll \cap Fd : fds[f] = d /\ f \notin hung
Awaited(d) == Tells(batch, d) \/ Tells(inotify, d) \/ (pc = "scan" /\ d \in toScan)
AwaitedOrHeard ==
  (watched \/ changes = 0) /\ ~scanFailed /\ ~hangUps =>
    \A d \in plugged : Awaited(d) \/ Heard(d)

\* Only devices hang up; until one is closed for it the list is right about
\* what its descriptors are open on.
HungAreDevices == \A f \in hung : fds[f] \in Devices
ListIsTrue ==
  ~hangUps => \A k \in DOMAIN deviceList : fds[deviceList[k].fd] = deviceList[k].name
BatchIsNotified == pc \notin {"notify", "open"} => batch = <<>>

PlugInv == /\ IInv /\ changes \in Nat /\ HungAreDevices /\ ListIsTrue
           /\ BatchIsNotified /\ LastIsCreate /\ AwaitedOrHeard
-----------------------------------------------------------------------------
(* What the notices tell.                                                    *)

\* A notice says of which device it is, and what.
LEMMA NoticeIs ==
  ASSUME NEW n \in Notices
  PROVE  n = Notice(n.mask, n.name) /\ n.mask \in {"IN_CREATE", "IN_DELETE"}
BY DEF Notices, Notice

\* Notices of other devices, and of the other kind, are different.
LEMMA NoticesDiffer ==
  ASSUME NEW m, NEW n, NEW d, NEW e, Notice(m, d) = Notice(n, e)
  PROVE  m = n /\ d = e
<1>1. Notice(m, d).mask = m /\ Notice(m, d).name = d
  BY DEF Notice
<1>2. Notice(n, e).mask = n /\ Notice(n, e).name = e
  BY DEF Notice
<1> QED
  BY <1>1, <1>2

\* The next notice of the batch is dealt with: what is told after it stays.
LEMMA NextNotice ==
  ASSUME TypeOK, LastIsCreate, batch # <<>>, batch' = Tail(batch),
         UNCHANGED <<plugged, inotify>>
  PROVE  /\ LastIsCreate'
         /\ \A d : Tells(batch, d) => Tells(batch', d) \/ Head(batch) = Notice("IN_CREATE", d)
         /\ \A d \in plugged : Head(batch) = Notice("IN_DELETE", d) =>
              Tells(batch', d) \/ Tells(inotify, d)
<1>1. batch \in Seq(Notices)
  BY DEF TypeOK
<1>2. /\ Head(batch) = batch[1] /\ 1 \in DOMAIN batch
      /\ \A k \in DOMAIN batch' : k + 1 \in DOMAIN batch /\ batch'[k] = batch[k + 1]
  BY <1>1, TailElements
<1>3. \A j \in DOMAIN batch : j > 1 => j - 1 \in DOMAIN batch' /\ batch'[j - 1] = batch[j]
  BY <1>1
<1>4. DOMAIN batch \subseteq Nat \ {0} /\ DOMAIN batch' \subseteq Nat \ {0}
  BY <1>1
<1>5. \A k \in DOMAIN batch' : \A d : TellsAfter(batch, k + 1, d) => TellsAfter(batch', k, d)
  <2> TAKE k \in DOMAIN batch'
  <2> TAKE d
  <2> HAVE TellsAfter(batch, k + 1, d)
  <2>1. PICK j \in DOMAIN batch : j > k + 1 /\ batch[j] = Notice("IN_CREATE", d)
    BY DEF TellsAfter
  <2>2. j > 1 /\ j - 1 > k
    BY <1>4, <2>1
  <2> QED
    BY <1>3, <2>1, <2>2 DEF TellsAfter
<1>6. LastIsCreate'
  <2> SUFFICES ASSUME NEW d \in plugged, NEW k \in DOMAIN batch',
                      batch'[k] = Notice("IN_DELETE", d)
               PROVE  TellsAfter(batch', k, d) \/ Tells(inotify, d)
    BY DEF LastIsCreate
  <2>1. k + 1 \in DOMAIN batch /\ batch[k + 1] = Notice("IN_DELETE", d)
    BY <1>2
  <2>2. TellsAfter(batch, k + 1, d) \/ Tells(inotify, d)
    BY <2>1 DEF LastIsCreate
  <2> QED
    BY <1>5, <2>2
<1>7. ASSUME NEW d, Tells(batch, d), Head(batch) # Notice("IN_CREATE", d)
      PROVE  Tells(batch', d)
  <2>1. PICK j \in DOMAIN batch : batch[j] = Notice("IN_CREATE", d)
    BY <1>7 DEF Tells
  <2>2. j > 1
    BY <1>2, <1>4, <1>7, <2>1
  <2> QED
    BY <1>3, <2>1, <2>2 DEF Tells
<1>8. ASSUME NEW d \in plugged, Head(batch) = Notice("IN_DELETE", d)
      PROVE  Tells(batch', d) \/ Tells(inotify, d)
  <2>1. TellsAfter(batch, 1, d) \/ Tells(inotify, d)
    BY <1>2, <1>8 DEF LastIsCreate
  <2>2. ASSUME TellsAfter(batch, 1, d) PROVE Tells(batch', d)
    <3>1. PICK j \in DOMAIN batch : j > 1 /\ batch[j] = Notice("IN_CREATE", d)
      BY <2>2 DEF TellsAfter
    <3> QED
      BY <1>3, <3>1 DEF Tells
  <2> QED
    BY <2>1, <2>2
<1> QED
  BY <1>6, <1>7, <1>8

\* A notice at the end of the queue: nothing that was told is forgotten.
LEMMA NotifyTells ==
  ASSUME TypeOK, NEW d \in Devices, NEW mask \in {"IN_CREATE", "IN_DELETE"},
         watched, Notify(mask, d)
  PROVE  /\ \A e : Tells(inotify, e) => Tells(inotify', e)
         /\ \A k \in DOMAIN inotify : \A e : TellsAfter(inotify, k, e) => TellsAfter(inotify', k, e)
         /\ mask = "IN_CREATE" =>
              /\ Tells(inotify', d)
              /\ \A k \in DOMAIN inotify : TellsAfter(inotify', k, d)
         /\ \A k \in DOMAIN inotify' :
              (k \in DOMAIN inotify /\ inotify'[k] = inotify[k]) \/ inotify'[k] = Notice(mask, d)
<1> DEFINE n == Len(inotify)
<1>1. inotify \in Seq(Notices) /\ Notice(mask, d) \in Notices
  BY DEF TypeOK, Notices, Notice
<1>2. inotify' = Append(inotify, Notice(mask, d))
  BY DEF Notify, Notice
<1>3. /\ n \in Nat /\ DOMAIN inotify = 1 .. n /\ DOMAIN inotify' = 1 .. n + 1
      /\ \A k \in 1 .. n : inotify'[k] = inotify[k]
      /\ inotify'[n + 1] = Notice(mask, d)
  BY <1>1, <1>2, AppendProperties
<1> HIDE DEF n
<1>4. \A k \in DOMAIN inotify : k \in DOMAIN inotify' /\ n + 1 > k
  BY <1>3
<1>5. n + 1 \in DOMAIN inotify'
  BY <1>3
<1>6. \A e : Tells(inotify, e) => Tells(inotify', e)
  BY <1>3, <1>4 DEF Tells
<1>7. \A k \in DOMAIN inotify : \A e : TellsAfter(inotify, k, e) => TellsAfter(inotify', k, e)
  BY <1>3, <1>4 DEF TellsAfter
<1>8. mask = "IN_CREATE" => Tells(inotify', d) /\ \A k \in DOMAIN inotify : TellsAfter(inotify', k, d)
  BY <1>3, <1>4, <1>5 DEF Tells, TellsAfter
<1>9. \A k \in DOMAIN inotify' :
        (k \in DOMAIN inotify /\ inotify'[k] = inotify[k]) \/ inotify'[k] = Notice(mask, d)
  BY <1>3
<1> QED
  BY <1>6, <1>7, <1>8, <1>9

-----------------------------------------------------------------------------
(* What is heard on the descriptors.                                         *)

Descriptors == <<fds, hung, epoll, deviceList, hangUps>>

\* The elements of the list are of a device on a descriptor.
LEMMA ListedHasName ==
  ASSUME deviceList \in Seq([name : Devices, fd : Fd]), NEW k \in DOMAIN deviceList
  PROVE  deviceList[k].name \in Devices /\ deviceList[k].fd \in Fd
<1> DEFINE E == [name : Devices, fd : Fd]
<1>1. \A e \in E : e.name \in Devices /\ e.fd \in Fd
  OBVIOUS
<1> HIDE DEF E
<1>2. deviceList \in Seq(E)
  BY DEF E
<1>3. deviceList[k] \in E
  BY <1>2, ElementOfSeq
<1> QED
  BY <1>1, <1>3

\* Where no descriptor is opened or closed, and none hangs up, all is heard
\* that was.
LEMMA StillHeard ==
  ASSUME HungAreDevices, ListIsTrue, UNCHANGED Descriptors
  PROVE  HungAreDevices' /\ ListIsTrue' /\ \A d : Heard(d) => Heard(d)'
BY DEF Descriptors, HungAreDevices, ListIsTrue, Heard

\* A device that is opened is heard, and so are the others.
LEMMA AddDeviceIsHeard ==
  ASSUME TypeOK, HungAreDevices, ListIsTrue, NEW d \in Devices, AddDevice(d),
         hangUps' = hangUps, Tables
  PROVE  HungAreDevices' /\ ListIsTrue' /\ Heard(d)' /\ \A e \in Devices : Heard(e) => Heard(e)'
<1>1. PICK f \in Fd :
        /\ Lowest(f)
        /\ fds' = [fds EXCEPT ![f] = d]
        /\ deviceList' = Append(deviceList, [name |-> d, fd |-> f])
        /\ epoll' = epoll \cup {f}
  BY DEF AddDevice
<1>2. fds \in [Fd -> Devices \cup {Closed, Other}] /\ hung' = hung
      /\ deviceList \in Seq([name : Devices, fd : Fd])
  BY DEF TypeOK, AddDevice
<1>3. fds[f] = Closed /\ Closed \notin Devices
  BY <1>1, NotADevice DEF Lowest, Closed
<1>4. fds'[f] = d /\ \A g \in Fd : g # f => fds'[g] = fds[g]
  BY <1>1, <1>2
<1>5. f \notin hung /\ hung \subseteq Fd
  BY <1>3 DEF HungAreDevices, TypeOK
<1>6. HungAreDevices'
  BY <1>2, <1>4, <1>5 DEF HungAreDevices
<1>7. Heard(d)'
  BY <1>1, <1>2, <1>4, <1>5 DEF Heard
<1>8. ASSUME NEW e \in Devices, Heard(e) PROVE Heard(e)'
  <2>1. PICK g \in epoll \cap Fd : fds[g] = e /\ g \notin hung
    BY <1>8 DEF Heard
  <2>2. g # f
    BY <1>3, <2>1
  <2> QED
    BY <1>1, <1>2, <1>4, <2>1, <2>2 DEF Heard
<1>9. ListIsTrue'
  <2> SUFFICES ASSUME ~hangUps, NEW k \in DOMAIN deviceList'
               PROVE  fds'[deviceList'[k].fd] = deviceList'[k].name
    BY DEF ListIsTrue
  <2> DEFINE n == Len(deviceList)
             e == [name |-> d, fd |-> f]
  <2>1. e \in [name : Devices, fd : Fd] /\ e.fd = f /\ e.name = d
    OBVIOUS
  <2> HIDE DEF e
  <2>2. /\ n \in Nat /\ DOMAIN deviceList = 1 .. n /\ DOMAIN deviceList' = 1 .. n + 1
        /\ \A j \in 1 .. n : deviceList'[j] = deviceList[j]
        /\ deviceList'[n + 1] = e
    BY <1>1, <1>2, <2>1, AppendProperties DEF e
  <2> HIDE DEF n
  <2>3. CASE k = n + 1
    BY <1>4, <2>1, <2>2, <2>3
  <2>4. CASE k # n + 1
    <3>1. k \in DOMAIN deviceList /\ deviceList'[k] = deviceList[k]
      BY <2>2, <2>4
    <3>2. deviceList[k].fd \in Fd /\ deviceList[k].name \in Devices
      BY <1>2, <3>1, ListedHasName
    <3>3. fds[deviceList[k].fd] = deviceList[k].name
      BY <3>1 DEF ListIsTrue
    <3> QED
      BY <1>3, <1>4, <3>1, <3>2, <3>3
  <2> QED
    BY <2>3, <2>4
<1> QED
  BY <1>6, <1>7, <1>8, <1>9

\* A descriptor of a device is closed: of the others nothing is lost.
LEMMA CloseIsHeard ==
  ASSUME TypeOK, HungAreDevices, NEW f \in Fd, DelAndClose(f)
  PROVE  /\ HungAreDevices'
         /\ \A g \in Fd : g # f => fds'[g] = fds[g]
         /\ \A e : Heard(e) /\ fds[f] # e => Heard(e)'
<1>1. /\ fds' = [fds EXCEPT ![f] = Closed] /\ hung' = hung \ {f} /\ epoll' = epoll \ {f}
      /\ fds \in [Fd -> Devices \cup {Closed, Other}] /\ hung \subseteq Fd
  BY DEF DelAndClose, Close, TypeOK
<1>2. \A g \in Fd : g # f => fds'[g] = fds[g]
  BY <1>1
<1>3. HungAreDevices'
  BY <1>1, <1>2 DEF HungAreDevices
<1>4. \A e : Heard(e) /\ fds[f] # e => Heard(e)'
  BY <1>1, <1>2 DEF Heard
<1> QED
  BY <1>2, <1>3, <1>4

\* delDevice closes a descriptor of its device, if any: the list is right.
LEMMA DelDeviceIsHeard ==
  ASSUME TypeOK, Tables, HungAreDevices, ListIsTrue, NEW d, delDevice(d), hangUps' = hangUps
  PROVE  /\ HungAreDevices' /\ ListIsTrue'
         /\ ~hangUps => \A e : e # d /\ Heard(e) => Heard(e)'
<1>1. CASE UNCHANGED <<deviceList, epoll, fds, hung, unread, robbed>>
  BY <1>1, StillHeard DEF Descriptors
<1>2. ASSUME NEW k \in DOMAIN deviceList, IsFirstNamed(k, d), Remove(k)
      PROVE  /\ HungAreDevices' /\ ListIsTrue'
             /\ ~hangUps => \A e : e # d /\ Heard(e) => Heard(e)'
  <2>1. deviceList \in Seq([name : Devices, fd : Fd])
    BY DEF TypeOK
  <2>2. PICK f \in Fd : f = deviceList[k].fd
    BY <2>1, ListedHasName
  <2>3. DelAndClose(f) /\ deviceList' = Without(k)
    BY <1>2, <2>2 DEF Remove
  <2>4. /\ HungAreDevices'
        /\ \A g \in Fd : g # f => fds'[g] = fds[g]
        /\ \A e : Heard(e) /\ fds[f] # e => Heard(e)'
    BY <2>3, CloseIsHeard
  <2>5. deviceList[k].name = d
    BY <1>2 DEF IsFirstNamed, IsNamed
  <2>6. ~hangUps => fds[f] = d
    BY <2>2, <2>5 DEF ListIsTrue
  <2>7. ListIsTrue'
    <3> SUFFICES ASSUME ~hangUps, NEW j \in DOMAIN deviceList'
                 PROVE  fds'[deviceList'[j].fd] = deviceList'[j].name
      BY DEF ListIsTrue
    <3> DEFINE n == Len(deviceList)
    <3>1. n \in Nat /\ DOMAIN deviceList = 1 .. n
      BY <2>1
    <3>2. /\ DOMAIN deviceList' = 1 .. n - 1
          /\ \A i \in 1 .. n - 1 :
               deviceList'[i] = IF i < k THEN deviceList[i] ELSE deviceList[i + 1]
      BY <2>1, <2>3, WithoutOne, Zenon DEF Without
    <3> HIDE DEF n
    <3>3. PICK i \in DOMAIN deviceList : i # k /\ deviceList'[j] = deviceList[i]
      <4>1. CASE j < k
        BY <3>1, <3>2, <4>1
      <4>2. CASE ~(j < k)
        BY <3>1, <3>2, <4>2
      <4> QED
        BY <4>1, <4>2
    <3>4. deviceList[i].fd # f /\ deviceList[i].fd \in Fd
      BY <2>1, <2>2, <3>3, ListedHasName DEF Tables, ListOwnsItsDescriptors
    <3>5. fds[deviceList[i].fd] = deviceList[i].name
      BY DEF ListIsTrue
    <3> QED
      BY <2>4, <3>3, <3>4, <3>5
  <2> QED
    BY <2>4, <2>6, <2>7
<1> QED
  BY <1>1, <1>2 DEF delDevice

-----------------------------------------------------------------------------
(* The devices come and go.                                                  *)

\* A device that is plugged in is told of by the last notice of it.
LEMMA PlugPlugs ==
  ASSUME PlugInv, IInv', NEW d \in Devices, Plug(d)
  PROVE  PlugInv'
<1> USE DEF PlugInv, IInv
<1>1. /\ UNCHANGED <<watched, fds, hung, epoll, deviceList, pc, batch, scanFailed, hangUps>>
      /\ plugged' = plugged \cup {d} /\ d \notin plugged /\ changes' = changes + 1
      /\ Notify("IN_CREATE", d)
      /\ UNCHANGED toScan \/ toScan' = toScan \cup {d}
  BY DEF Plug, batchVars
<1>2. changes' \in Nat /\ changes' # 0
  BY <1>1
<1>3. HungAreDevices' /\ ListIsTrue' /\ (\A e : Heard(e) => Heard(e)') /\ BatchIsNotified'
  BY <1>1, StillHeard DEF Descriptors, BatchIsNotified
<1>4. CASE watched
  <2>1. /\ \A e : Tells(inotify, e) => Tells(inotify', e)
        /\ \A k \in DOMAIN inotify : \A e : TellsAfter(inotify, k, e) => TellsAfter(inotify', k, e)
        /\ Tells(inotify', d)
        /\ \A k \in DOMAIN inotify : TellsAfter(inotify', k, d)
        /\ \A k \in DOMAIN inotify' : \/ k \in DOMAIN inotify /\ inotify'[k] = inotify[k]
                                      \/ inotify'[k] = Notice("IN_CREATE", d)
    BY <1>1, <1>4, NotifyTells
  <2>2. \A e, f : Notice("IN_DELETE", e) # Notice("IN_CREATE", f)
    BY NoticesDiffer
  <2>3. LastIsCreate'
    <3>1. ASSUME NEW e \in plugged', NEW k \in DOMAIN inotify', inotify'[k] = Notice("IN_DELETE", e)
          PROVE  TellsAfter(inotify', k, e)
      <4>1. k \in DOMAIN inotify /\ inotify[k] = Notice("IN_DELETE", e)
        BY <2>1, <2>2, <3>1
      <4>2. CASE e = d
        BY <2>1, <4>1, <4>2
      <4>3. CASE e # d
        BY <1>1, <2>1, <4>1, <4>3 DEF LastIsCreate
      <4> QED
        BY <4>2, <4>3
    <3>2. ASSUME NEW e \in plugged', NEW k \in DOMAIN batch, batch[k] = Notice("IN_DELETE", e)
          PROVE  TellsAfter(batch, k, e) \/ Tells(inotify', e)
      <4>1. CASE e = d
        BY <2>1, <4>1
      <4>2. CASE e # d
        BY <1>1, <2>1, <3>2, <4>2 DEF LastIsCreate
      <4> QED
        BY <4>1, <4>2
    <3> QED
      BY <1>1, <3>1, <3>2 DEF LastIsCreate
  <2>4. AwaitedOrHeard'
    <3> SUFFICES ASSUME ~scanFailed', ~hangUps', NEW e \in plugged'
                 PROVE  Awaited(e)' \/ Heard(e)'
      BY DEF AwaitedOrHeard
    <3>1. CASE e = d
      BY <2>1, <3>1 DEF Awaited
    <3>2. CASE e # d
      <4>1. Awaited(e) \/ Heard(e)
        BY <1>1, <1>4, <3>2 DEF AwaitedOrHeard
      <4> QED
        BY <1>1, <1>3, <2>1, <4>1 DEF Awaited
    <3> QED
      BY <3>1, <3>2
  <2> QED
    BY <1>2, <1>3, <2>3, <2>4
<1>5. CASE ~watched
  <2>1. inotify' = <<>> /\ batch' = <<>>
    BY <1>1, <1>5 DEF UnwatchedIsQuiet, Notify
  <2>2. LastIsCreate'
    BY <2>1 DEF LastIsCreate
  <2>3. AwaitedOrHeard'
    BY <1>1, <1>2, <1>5 DEF AwaitedOrHeard
  <2> QED
    BY <1>2, <1>3, <2>2, <2>3
<1> QED
  BY <1>4, <1>5

\* A device that is unplugged need not be heard; of the others nothing changes.
LEMMA UnplugPlugs ==
  ASSUME PlugInv, IInv', NEW d \in Devices, Unplug(d)
  PROVE  PlugInv'
<1> USE DEF PlugInv, IInv
<1>1. /\ UNCHANGED <<watched, fds, epoll, deviceList, pc, toScan, batch, scanFailed, hangUps>>
      /\ plugged' = plugged \ {d} /\ changes' = changes + 1
      /\ hung' = hung \cup {f \in Fd : fds[f] = d}
      /\ Notify("IN_DELETE", d)
  BY DEF Unplug, batchVars
<1>2. changes' \in Nat /\ changes' # 0
  BY <1>1
<1>3. HungAreDevices' /\ ListIsTrue' /\ BatchIsNotified'
  BY <1>1 DEF HungAreDevices, ListIsTrue, BatchIsNotified
<1>4. \A e : e # d /\ Heard(e) => Heard(e)'
  BY <1>1 DEF Heard
<1>5. CASE watched
  <2>1. /\ \A e : Tells(inotify, e) => Tells(inotify', e)
        /\ \A k \in DOMAIN inotify : \A e : TellsAfter(inotify, k, e) => TellsAfter(inotify', k, e)
        /\ \A k \in DOMAIN inotify' : \/ k \in DOMAIN inotify /\ inotify'[k] = inotify[k]
                                      \/ inotify'[k] = Notice("IN_DELETE", d)
    BY <1>1, <1>5, NotifyTells
  <2>2. LastIsCreate'
    <3>1. ASSUME NEW e \in plugged', NEW k \in DOMAIN inotify', inotify'[k] = Notice("IN_DELETE", e)
          PROVE  TellsAfter(inotify', k, e)
      <4>1. inotify'[k] # Notice("IN_DELETE", d)
        BY <1>1, <3>1, NoticesDiffer
      <4> QED
        BY <1>1, <2>1, <3>1, <4>1 DEF LastIsCreate
    <3>2. ASSUME NEW e \in plugged', NEW k \in DOMAIN batch, batch[k] = Notice("IN_DELETE", e)
          PROVE  TellsAfter(batch, k, e) \/ Tells(inotify', e)
      BY <1>1, <2>1, <3>2 DEF LastIsCreate
    <3> QED
      BY <1>1, <3>1, <3>2 DEF LastIsCreate
  <2>3. AwaitedOrHeard'
    <3> SUFFICES ASSUME ~scanFailed', ~hangUps', NEW e \in plugged'
                 PROVE  Awaited(e)' \/ Heard(e)'
      BY DEF AwaitedOrHeard
    <3>1. Awaited(e) \/ Heard(e)
      BY <1>1, <1>5 DEF AwaitedOrHeard
    <3> QED
      BY <1>1, <1>4, <2>1, <3>1 DEF Awaited
  <2> QED
    BY <1>2, <1>3, <2>2, <2>3
<1>6. CASE ~watched
  <2>1. inotify' = <<>> /\ batch' = <<>>
    BY <1>1, <1>6 DEF UnwatchedIsQuiet, Notify
  <2>2. LastIsCreate'
    BY <2>1 DEF LastIsCreate
  <2>3. AwaitedOrHeard'
    BY <1>1, <1>2, <1>6 DEF AwaitedOrHeard
  <2> QED
    BY <1>2, <1>3, <2>2, <2>3
<1> QED
  BY <1>5, <1>6

\* Another thread takes a number that is free: no device is on it.
LEMMA OtherOpensPlugs ==
  ASSUME PlugInv, IInv', OtherOpens
  PROVE  PlugInv'
<1> USE DEF PlugInv, IInv
<1>1. PICK f \in Fd : Lowest(f) /\ fds' = [fds EXCEPT ![f] = Other]
  BY DEF OtherOpens
<1>2. UNCHANGED <<watched, plugged, hung, inotify, epoll, deviceList, pc, toScan, batch,
                  changes, scanFailed, hangUps>>
  BY DEF OtherOpens, kernelVars, batchVars
<1>3. fds[f] \notin Devices
  BY <1>1, NotADevice DEF Lowest, Closed
<1>4. \A g \in Fd : fds[g] \in Devices => fds'[g] = fds[g]
  BY <1>1, <1>3 DEF TypeOK
<1>5. HungAreDevices'
  BY <1>2, <1>4 DEF HungAreDevices, TypeOK
<1>6. ListIsTrue'
  <2> SUFFICES ASSUME ~hangUps, NEW k \in DOMAIN deviceList
               PROVE  fds'[deviceList[k].fd] = deviceList[k].name
    BY <1>2 DEF ListIsTrue
  <2>1. deviceList[k].name \in Devices /\ deviceList[k].fd \in Fd
    BY ListedHasName DEF TypeOK
  <2>2. fds[deviceList[k].fd] = deviceList[k].name
    BY DEF ListIsTrue
  <2> QED
    BY <1>4, <2>1, <2>2
<1>7. \A e \in Devices : Heard(e) => Heard(e)'
  BY <1>2, <1>4 DEF Heard
<1>8. plugged \subseteq Devices
  BY DEF TypeOK
<1>9. AwaitedOrHeard'
  BY <1>2, <1>7, <1>8 DEF AwaitedOrHeard, Awaited
<1>10. LastIsCreate' /\ BatchIsNotified'
  BY <1>2 DEF LastIsCreate, BatchIsNotified
<1> QED
  BY <1>2, <1>5, <1>6, <1>9, <1>10

\* No notice is dealt with, no descriptor opened or closed; what the scan has
\* yet to come to it still has, or it has given up.
LEMMA StillPlugs ==
  ASSUME PlugInv, IInv', BatchIsNotified',
         UNCHANGED <<Descriptors, watched, plugged, inotify, batch, changes>>,
         scanFailed' = scanFailed \/ scanFailed' = TRUE,
         \A d \in plugged : pc = "scan" /\ d \in toScan =>
           (pc' = "scan" /\ d \in toScan') \/ scanFailed'
  PROVE  PlugInv'
<1> USE DEF PlugInv
<1>1. HungAreDevices' /\ ListIsTrue' /\ \A d : Heard(d) => Heard(d)'
  BY StillHeard
<1>2. LastIsCreate'
  BY DEF LastIsCreate
<1>3. hangUps' = hangUps
  BY DEF Descriptors
<1>4. AwaitedOrHeard'
  <2> SUFFICES ASSUME watched' \/ changes' = 0, ~scanFailed', ~hangUps', NEW d \in plugged
               PROVE  Awaited(d)' \/ Heard(d)'
    BY DEF AwaitedOrHeard
  <2>1. Awaited(d) \/ Heard(d)
    BY <1>3 DEF AwaitedOrHeard
  <2> QED
    BY <1>1, <2>1 DEF Awaited
<1> QED
  BY <1>1, <1>2, <1>4

-----------------------------------------------------------------------------
(* The reader.                                                               *)

\* A device that scanDevice opens is heard from then on.
LEMMA ScanNodePlugs ==
  ASSUME PlugInv, IInv', NEW d \in Devices, ScanNode(d)
  PROVE  PlugInv'
<1> USE DEF PlugInv, IInv
<1>1. /\ AddDevice(d) /\ toScan' = toScan \ {d}
      /\ UNCHANGED <<watched, plugged, inotify, pc, batch, changes, scanFailed, hangUps>>
  BY DEF ScanNode, batchVars, envCounts
<1>2. HungAreDevices' /\ ListIsTrue' /\ Heard(d)' /\ \A e \in Devices : Heard(e) => Heard(e)'
  BY <1>1, AddDeviceIsHeard
<1>3. plugged \subseteq Devices
  BY DEF TypeOK
<1>4. AwaitedOrHeard'
  BY <1>1, <1>2, <1>3 DEF AwaitedOrHeard, Awaited
<1>5. LastIsCreate' /\ BatchIsNotified'
  BY <1>1 DEF LastIsCreate, BatchIsNotified
<1> QED
  BY <1>1, <1>2, <1>4, <1>5

\* A name that scanDevice finds no node of is that of no device that is
\* plugged in, or the scan has failed.
LEMMA ScanGonePlugs ==
  ASSUME PlugInv, IInv', NEW d \in Devices, ScanGone(d)
  PROVE  PlugInv'
<1>1. UNCHANGED <<Descriptors, watched, plugged, inotify, batch, changes, pc>>
  BY DEF ScanGone, kernelVars, batchVars, envCounts, Descriptors
<1>2. BatchIsNotified'
  BY <1>1 DEF PlugInv, BatchIsNotified
<1>3. \/ toScan' = toScan \ {d} /\ scanFailed' = scanFailed
      \/ scanFailed' = TRUE
  BY DEF ScanGone
<1>4. d \notin plugged
  BY DEF ScanGone
<1> QED
  BY <1>1, <1>2, <1>3, <1>4, StillPlugs

\* The end of the scan, and the steps of readOnce that close no descriptor
\* and read no notice.
LEMMA ReadOncePlugs ==
  ASSUME PlugInv, IInv',
         ScanEnd \/ EpollWait \/ ProcessEvents \/ WalkEnd \/ CreateSeen \/ NotifyEnd
  PROVE  PlugInv'
<1>1. UNCHANGED <<Descriptors, watched, plugged, inotify, batch, changes, scanFailed, toScan>>
  BY DEF ScanEnd, EpollWait, ProcessEvents, WalkEnd, CreateSeen, NotifyEnd, kernelVars,
     batchVars, envCounts, Descriptors
<1>2. BatchIsNotified'
  BY <1>1 DEF PlugInv, BatchIsNotified, ScanEnd, EpollWait, ProcessEvents, WalkEnd, CreateSeen,
     NotifyEnd
<1>3. pc = "scan" => toScan = {}
  BY DEF ScanEnd, EpollWait, ProcessEvents, WalkEnd, CreateSeen, NotifyEnd
<1> QED
  BY <1>1, <1>2, <1>3, StillPlugs

\* After a hang-up nothing more is claimed of what is heard.
LEMMA HangUpPlugs ==
  ASSUME PlugInv, IInv', HangUp
  PROVE  PlugInv'
<1> USE DEF PlugInv, IInv
<1>1. UNCHANGED <<plugged, inotify, batch, pc, changes>> /\ hangUps' = TRUE
  BY DEF HangUp, batchVars, envCounts
<1>2. PICK f \in Fd : DelAndClose(f)
  BY HeadItem DEF HangUp
<1>3. HungAreDevices'
  BY <1>2, CloseIsHeard
<1> QED
  BY <1>1, <1>3 DEF LastIsCreate, BatchIsNotified, ListIsTrue, AwaitedOrHeard

\* The notices go from the queue to the batch, which was empty.
LEMMA ReadInotifyPlugs ==
  ASSUME PlugInv, IInv', ReadInotify
  PROVE  PlugInv'
<1> USE DEF PlugInv, IInv
<1>1. /\ batch' = inotify /\ inotify' = <<>> /\ batch = <<>> /\ pc = "walk" /\ pc' = "notify"
      /\ UNCHANGED <<watched, plugged, toScan, changes, scanFailed, Descriptors>>
  BY DEF ReadInotify, BatchIsNotified, envCounts, Descriptors
<1>2. HungAreDevices' /\ ListIsTrue' /\ \A d : Heard(d) => Heard(d)'
  BY <1>1, StillHeard
<1>3. LastIsCreate'
  BY <1>1 DEF LastIsCreate, TellsAfter
<1>4. \A d : Awaited(d) => Awaited(d)'
  BY <1>1 DEF Awaited, Tells
<1>5. hangUps' = hangUps
  BY <1>1 DEF Descriptors
<1> QED
  BY <1>1, <1>2, <1>3, <1>4, <1>5 DEF BatchIsNotified, AwaitedOrHeard

\* A notice that a device was created, which is gone again.
LEMMA CreateGonePlugs ==
  ASSUME PlugInv, IInv', CreateGone \/ CreateFailed
  PROVE  PlugInv'
<1> USE DEF PlugInv, IInv
<1>1. /\ batch # <<>> /\ batch' = Tail(batch) /\ Head(batch).name \notin plugged
      /\ pc' = "notify" /\ pc # "scan"
      /\ UNCHANGED <<watched, plugged, inotify, changes, scanFailed, Descriptors>>
  BY DEF CreateGone, CreateFailed, kernelVars, envCounts, Descriptors
<1>2. HungAreDevices' /\ ListIsTrue' /\ \A d : Heard(d) => Heard(d)'
  BY <1>1, StillHeard
<1>3. /\ LastIsCreate'
      /\ \A d : Tells(batch, d) => Tells(batch', d) \/ Head(batch) = Notice("IN_CREATE", d)
  BY <1>1, NextNotice
<1>4. \A d \in plugged : Head(batch) # Notice("IN_CREATE", d)
  BY <1>1 DEF Notice
<1>5. \A d \in plugged : Awaited(d) => Awaited(d)'
  BY <1>1, <1>3, <1>4 DEF Awaited
<1>6. hangUps' = hangUps
  BY <1>1 DEF Descriptors
<1> QED
  BY <1>1, <1>2, <1>3, <1>5, <1>6 DEF BatchIsNotified, AwaitedOrHeard

\* A device that was created is opened, and heard.
LEMMA CreateOpenedPlugs ==
  ASSUME PlugInv, IInv', CreateOpened
  PROVE  PlugInv'
<1> USE DEF PlugInv, IInv
<1>1. /\ batch # <<>> /\ batch' = Tail(batch) /\ AddDevice(Head(batch).name)
      /\ pc' = "notify" /\ pc # "scan"
      /\ UNCHANGED <<watched, plugged, inotify, changes, scanFailed, hangUps>>
  BY DEF CreateOpened, envCounts
<1>2. PICK c \in Devices : c = Head(batch).name
  BY <1>1, HeadNotice
<1>3. HungAreDevices' /\ ListIsTrue' /\ Heard(c)' /\ \A e \in Devices : Heard(e) => Heard(e)'
  BY <1>1, <1>2, AddDeviceIsHeard
<1>4. /\ LastIsCreate'
      /\ \A d : Tells(batch, d) => Tells(batch', d) \/ Head(batch) = Notice("IN_CREATE", d)
  BY <1>1, NextNotice
<1>5. \A d : Head(batch) = Notice("IN_CREATE", d) => d = c
  BY <1>2 DEF Notice
<1>6. plugged \subseteq Devices
  BY DEF TypeOK
<1>7. \A d \in plugged : Awaited(d) \/ Heard(d) => Awaited(d)' \/ Heard(d)'
  BY <1>1, <1>3, <1>4, <1>5, <1>6 DEF Awaited
<1> QED
  BY <1>1, <1>3, <1>4, <1>7 DEF BatchIsNotified, AwaitedOrHeard

\* A device that was removed is closed; if it has come back, that is still to
\* be told.
LEMMA ProcessRemovePlugs ==
  ASSUME PlugInv, IInv', ProcessRemove
  PROVE  PlugInv'
<1> USE DEF PlugInv, IInv
<1>1. /\ batch # <<>> /\ batch' = Tail(batch) /\ delDevice(Head(batch).name)
      /\ Head(batch).mask = "IN_DELETE" /\ pc = "notify" /\ pc' = pc
      /\ UNCHANGED <<watched, plugged, inotify, changes, scanFailed, hangUps>>
  BY DEF ProcessRemove, envCounts
<1>2. Head(batch) = Notice("IN_DELETE", Head(batch).name)
  <2>1. Head(batch) \in Notices
    BY <1>1, TailElements DEF TypeOK
  <2> QED
    BY <1>1, <2>1, NoticeIs
<1>3. /\ HungAreDevices' /\ ListIsTrue'
      /\ ~hangUps => \A e : e # Head(batch).name /\ Heard(e) => Heard(e)'
  BY <1>1, DelDeviceIsHeard
<1>4. /\ LastIsCreate'
      /\ \A d : Tells(batch, d) => Tells(batch', d) \/ Head(batch) = Notice("IN_CREATE", d)
      /\ \A d \in plugged : Head(batch) = Notice("IN_DELETE", d) =>
           Tells(batch', d) \/ Tells(inotify, d)
  BY <1>1, NextNotice
<1>5. \A d : Head(batch) # Notice("IN_CREATE", d)
  BY <1>1 DEF Notice
<1>6. ASSUME ~hangUps, NEW d \in plugged, Awaited(d) \/ Heard(d)
      PROVE  Awaited(d)' \/ Heard(d)'
  <2>1. CASE d = Head(batch).name
    BY <1>1, <1>2, <1>4, <2>1 DEF Awaited
  <2>2. CASE d # Head(batch).name
    BY <1>1, <1>3, <1>4, <1>5, <1>6, <2>2 DEF Awaited
  <2> QED
    BY <2>1, <2>2
<1> QED
  BY <1>1, <1>3, <1>4, <1>6 DEF BatchIsNotified, AwaitedOrHeard

\* What is plugged in is scanned when the reader starts.
LEMMA InitPlugs == Init => PlugInv
<1> SUFFICES ASSUME Init PROVE PlugInv
  OBVIOUS
<1>1. IInv
  BY InitIsGood
<1>2. batch = <<>> /\ inotify = <<>> /\ hung = {} /\ deviceList = <<>> /\ changes = 0
      /\ pc = "scan" /\ toScan = plugged
  BY DEF Init
<1> QED
  BY <1>1, <1>2 DEF PlugInv, HungAreDevices, ListIsTrue, BatchIsNotified, LastIsCreate,
     AwaitedOrHeard, Awaited

\* Every step keeps what is plugged in awaited or heard.
LEMMA NextPlugs == PlugInv /\ [Next]_vars => PlugInv'
<1> SUFFICES ASSUME PlugInv, [Next]_vars PROVE PlugInv'
  OBVIOUS
<1>1. IInv'
  BY NextKeeps DEF PlugInv
<1>2. ASSUME NEW d \in Devices, Send(d) PROVE PlugInv'
  <2>1. UNCHANGED <<Descriptors, watched, plugged, inotify, batch, changes, scanFailed, pc, toScan>>
    BY <1>2 DEF Send, batchVars, Descriptors
  <2>2. BatchIsNotified'
    BY <2>1 DEF PlugInv, BatchIsNotified
  <2> QED
    BY <1>1, <2>1, <2>2, StillPlugs
<1>3. CASE Environment
  BY <1>1, <1>2, <1>3, PlugPlugs, UnplugPlugs, OtherOpensPlugs DEF Environment
<1>4. CASE Reader
  BY <1>1, <1>4, ScanNodePlugs, ScanGonePlugs, ReadOncePlugs, HangUpPlugs, ReadInotifyPlugs,
     CreateGonePlugs, CreateOpenedPlugs, ProcessRemovePlugs DEF Reader
<1>5. CASE UNCHANGED vars
  <2>1. UNCHANGED <<Descriptors, watched, plugged, inotify, batch, changes, scanFailed, pc, toScan>>
    BY <1>5 DEF vars, kernelVars, batchVars, envCounts, Descriptors
  <2>2. BatchIsNotified'
    BY <2>1 DEF PlugInv, BatchIsNotified
  <2> QED
    BY <1>1, <2>1, <2>2, StillPlugs
<1> QED
  BY <1>3, <1>4, <1>5 DEF Next

\* When the reader waits and inotify has nothing to tell, every device that
\* has a node is polled on a descriptor that is open on it and has not hung up,
\* however often nodes came and went while it scanned and while it read, and
\* however often one was opened twice (InotifyDevice.cpp:220-232, 262-269);
\* but for a scan that gave up and for the time after a hang-up.
THEOREM PluggedAreHeard == Spec => []PluggedIsHeard
<1>1. PlugInv => PluggedIsHeard
  <2> SUFFICES ASSUME PlugInv, pc = "wait", inotify = <<>>, watched \/ changes = 0,
                      ~scanFailed, ~hangUps, NEW d \in plugged
               PROVE  Heard(d)
    BY DEF PluggedIsHeard, Heard
  <2>1. batch = <<>>
    BY DEF PlugInv, BatchIsNotified
  <2>2. ~Awaited(d)
    BY <2>1 DEF Awaited, Tells
  <2> QED
    BY <2>2 DEF PlugInv, AwaitedOrHeard
<1> QED
  BY <1>1, InitPlugs, NextPlugs, PTL DEF Spec
=============================================================================
