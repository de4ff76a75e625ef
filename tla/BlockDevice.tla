------------------------------ MODULE BlockDevice ------------------------------
(***************************************************************************)
(* Block devices and the manager that opens them (src/spdk/bdev.rs), as    *)
(* the shards of erasure coded stripes are written to and read from them.  *)
(*                                                                         *)
(* A device is opened at its first use.  The two tables of the manager     *)
(* have locks of their own, so opening takes three steps: look the handle  *)
(* up, put a new one into the table, mark the device as open.  In the      *)
(* build without the SPDK library what is written belongs to the handle.   *)
(***************************************************************************)
EXTENDS Naturals, Sequences, FiniteSets, Functions

CONSTANTS
  Callers,   \* tasks that do I/O
  Known,     \* devices registered at the start
  Unknown,   \* devices that may be registered later
  Slots,     \* offsets of a device that are inside of it
  Offsets,   \* offsets that are used: multiples of the aligned size of a shard
  Zeros,     \* what a block holds that was never written
  NoHandle   \* a task has no handle

Devices == Known \union Unknown

ASSUME BlockDeviceAssumption ==
  /\ Slots \subseteq Offsets
  /\ Known \intersect Unknown = {}
  /\ IsFiniteSet(Callers)

VARIABLES
  devices,   \* BdevManager::devices: is_open of each device that is registered
  handles,   \* BdevManager::handles: the handle of each open device
  stores,    \* BdevHandle::storage of every handle made, and its device
  faulty,    \* devices that answer with an error
  io         \* where each task is in an I/O operation

bdevVars == <<devices, handles, stores, faulty, io>>

\* HashMap::insert: an entry that is there is replaced.
Inserted(table, key, value) ==
  [k \in DOMAIN table \union {key} |-> IF k = key THEN value ELSE table[k]]

NoIo == [at |-> "none", device |-> "", handle |-> NoHandle]
HandleIds == 1..Len(stores)

BdevTypeOK ==
  /\ DOMAIN devices \subseteq Devices /\ \A d \in DOMAIN devices : devices[d] \in BOOLEAN
  /\ DOMAIN handles \subseteq DOMAIN devices
  /\ \A d \in DOMAIN handles : handles[d] \in HandleIds /\ stores[handles[d]].device = d
  /\ \A h \in HandleIds : DOMAIN stores[h].blocks = Offsets
  /\ faulty \subseteq Devices
  /\ DOMAIN io = Callers
  /\ \A c \in Callers : io[c].handle \in HandleIds \union {NoHandle}

-----------------------------------------------------------------------------
(* open, and what write_shard and read_shard do with the handle.           *)

\* An I/O operation begins with open.
Starts(d) == [NoIo EXCEPT !.at = "open", !.device = d]

LookUp(c) ==
  /\ io[c].at = "open"
  /\ io' = [io EXCEPT ![c] =
       IF io[c].device \in DOMAIN handles
         THEN [@ EXCEPT !.at = "opened", !.handle = handles[io[c].device]]
         ELSE [@ EXCEPT !.at = "absent"]]
  /\ UNCHANGED <<devices, handles, stores, faulty>>

\* A task that found no handle puts its own into the table, also over one that
\* another task has put there meanwhile.
Install(c) ==
  LET d == io[c].device IN
  /\ io[c].at = "absent" /\ d \in DOMAIN devices
  /\ stores' = Append(stores, [device |-> d, blocks |-> [o \in Offsets |-> Zeros]])
  /\ handles' = Inserted(handles, d, Len(stores) + 1)
  /\ io' = [io EXCEPT ![c].at = "mark", ![c].handle = Len(stores) + 1]
  /\ UNCHANGED <<devices, faulty>>

NotFound(c) ==
  /\ io[c].at = "absent" /\ io[c].device \notin DOMAIN devices
  /\ io' = [io EXCEPT ![c].at = "failed"]
  /\ UNCHANGED <<devices, handles, stores, faulty>>

Mark(c) ==
  /\ io[c].at = "mark"
  /\ devices' = [devices EXCEPT ![io[c].device] = TRUE]
  /\ io' = [io EXCEPT ![c].at = "opened"]
  /\ UNCHANGED <<handles, stores, faulty>>

Open(c) == LookUp(c) \/ Install(c) \/ NotFound(c) \/ Mark(c)

\* The operation is over, with an error when the device was not found, does not
\* work, or ends before the offset.
Done(c) == io[c].at \in {"opened", "failed"}
Succeeds(c, offset) ==
  io[c].at = "opened" /\ offset \in Slots /\ io[c].device \notin faulty

\* BdevHandle::read: data is found under the offset it was written to.
Content(c, offset) == stores[io[c].handle].blocks[offset]

\* BdevHandle::write
Written(c, offset, shard) ==
  [stores EXCEPT ![io[c].handle].blocks[offset] = shard]

-----------------------------------------------------------------------------
(* Devices that come, go and fail.                                         *)

\* register_mock_device: an entry is replaced, and the device not marked open.
Register(d) ==
  /\ devices' = Inserted(devices, d, FALSE)
  /\ UNCHANGED <<handles, stores, faulty, io>>

Close(d) ==
  /\ d \in DOMAIN handles
  /\ handles' = Restrict(handles, DOMAIN handles \ {d})
  /\ devices' = [devices EXCEPT ![d] = FALSE]
  /\ UNCHANGED <<stores, faulty, io>>

CloseAll ==
  /\ handles' = << >>
  /\ devices' = [d \in DOMAIN devices |-> FALSE]
  /\ UNCHANGED <<stores, faulty, io>>

Fault(d) ==
  /\ d \notin faulty
  /\ faulty' = faulty \union {d}
  /\ UNCHANGED <<devices, handles, stores, io>>

Repair(d) ==
  /\ d \in faulty
  /\ faulty' = faulty \ {d}
  /\ UNCHANGED <<devices, handles, stores, io>>

BdevInit ==
  /\ devices = [d \in Known |-> FALSE]
  /\ handles = << >>
  /\ stores = << >>
  /\ faulty = {}
  /\ io = [c \in Callers |-> NoIo]

=============================================================================
