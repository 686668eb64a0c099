----------------------------- MODULE CommandRing -----------------------------
(***************************************************************************)
(* The command ring of the shared memory (realtime-ipc/src/windows): one   *)
(* client process at a time writes commands, one server thread reads them. *)
(*                                                                         *)
(* A client claims the ring with its process ID, moves the read index to   *)
(* the write index so that nothing of its predecessor is left, and pushes: *)
(* slot, index, event.  It may die between any two of these steps; another *)
(* client then takes its place.  The server pops: read index, slot, read   *)
(* index again.  Indices are 32 bits wide and wrap.                        *)
(*                                                                         *)
(* A command is its number, its sender, what it asks and the request ID    *)
(* that it carries.                                                        *)
(***************************************************************************)
EXTENDS Naturals, Sequences

CONSTANTS
  Clients,      \* client processes
  NoClient,     \* client_pid 0
  SlotCount,    \* SLOT_COUNT
  IndexSpace,   \* the values of an index: 2^32
  MaxBegun      \* bound: connections and pushes in a behaviour

ASSUME RingAssumption ==
  /\ SlotCount \in Nat \ {0}
  /\ IndexSpace \in Nat
  /\ \E n \in 2 .. IndexSpace : IndexSpace = n * SlotCount
  /\ NoClient \notin Clients

VARIABLES
  alive,         \* the client processes that run
  clientPid,     \* SharedRing.client_pid
  writeIndex,    \* SharedRing.write_index
  readIndex,     \* SharedRing.read_index
  slots,         \* SharedRing.slots
  commandEvent,  \* the auto-reset event that wakes the server
  stale,         \* whether heartbeat_ms is older than SERVER_STALE_MS
  pc,            \* where each client stands
  owner,         \* the owner claim_client has loaded
  command,       \* the command a client pushes, or pushed last
  nextRequest,   \* FastMidiClient.next_request_id
  serverPc,      \* where pop_command stands
  serverRead,    \* the read index it has loaded
  taken,         \* the command it has copied, or copied last
  begun,         \* connections and pushes so far
  pending,       \* history: commands pushed on this connection, not yet popped
  overtaken      \* history: a pop of an old command was under way at the start
                 \* of this connection

clientVars == <<alive, clientPid, writeIndex, pc, owner, command, nextRequest,
                begun>>
serverVars == <<stale, serverPc, serverRead, taken>>
historyVars == <<pending, overtaken>>
ringVars == <<clientVars, serverVars, historyVars, readIndex, slots, commandEvent>>

Indices == 0 .. IndexSpace - 1
Next1(index) == (index + 1) % IndexSpace
Slot(index) == index % SlotCount

\* write.wrapping_sub(read)
Distance(read, write) == (write + IndexSpace - read) % IndexSpace

\* MIDI and settings; patch loads and probes; preloads of a standby bank.  The
\* last two are requests, with an ID and a response.
Kinds == {"event", "patch", "standby"}
Requests == {"patch", "standby"}

Commands == [no : Nat, from : Clients, kind : Kinds, request : Nat]
NoCommand == [no |-> 0, from |-> NoClient, kind |-> "none", request |-> 0]

RingInit ==
  /\ alive = Clients
  /\ clientPid = NoClient
  /\ writeIndex = 0
  /\ readIndex = 0
  /\ slots = [n \in 0 .. SlotCount - 1 |-> NoCommand]
  /\ commandEvent = FALSE
  /\ stale = FALSE
  /\ pc = [c \in Clients |-> "off"]
  /\ owner = [c \in Clients |-> NoClient]
  /\ command = [c \in Clients |-> NoCommand]
  /\ nextRequest = [c \in Clients |-> 1]
  /\ serverPc = "idle"
  /\ serverRead = 0
  /\ taken = NoCommand
  /\ begun = 0
  /\ pending = <<>>
  /\ overtaken = FALSE

At(c, place) == c \in alive /\ pc[c] = place
Goto(c, place) == pc' = [pc EXCEPT ![c] = place]

(***************************************************************************)
(* A client: connect, push, drop                                           *)
(***************************************************************************)
BeginConnect(c) ==
  /\ At(c, "off")
  /\ begun < MaxBegun
  /\ Goto(c, "claim")
  /\ begun' = begun + 1
  /\ UNCHANGED <<alive, clientPid, writeIndex, owner, command, nextRequest,
                 serverVars, historyVars, readIndex, slots, commandEvent>>

\* claim_client loads the owner ...
LoadOwner(c) ==
  /\ At(c, "claim")
  /\ owner' = [owner EXCEPT ![c] = clientPid]
  /\ Goto(c, "owned")
  /\ UNCHANGED <<alive, clientPid, writeIndex, command, nextRequest, begun,
                 serverVars, historyVars, readIndex, slots, commandEvent>>

\* compare_exchange(0, pid)
StillFree(c) == clientPid = NoClient

\* ... takes the ring if there is none ...
ClaimFree(c) ==
  /\ At(c, "owned")
  /\ owner[c] = NoClient
  /\ IF StillFree(c)
       THEN clientPid' = c /\ Goto(c, "claimed")
       ELSE Goto(c, "claim") /\ UNCHANGED clientPid
  /\ UNCHANGED <<alive, writeIndex, owner, command, nextRequest, begun,
                 serverVars, historyVars, readIndex, slots, commandEvent>>

\* ... gives up if it runs (AlreadyConnected) ...
FindOwnerRunning(c) ==
  /\ At(c, "owned")
  /\ owner[c] # NoClient
  /\ owner[c] \in alive
  /\ Goto(c, "off")
  /\ owner' = [owner EXCEPT ![c] = NoClient]
  /\ UNCHANGED <<alive, clientPid, writeIndex, command, nextRequest, begun, serverVars, historyVars, readIndex, slots, commandEvent>>

\* compare_exchange(owner, 0): another client may have cleared it before, and
\* claimed the ring.
Cleared(c) == IF clientPid = owner[c] THEN NoClient ELSE clientPid

\* ... and clears it if it is dead, to begin again.
ClearDeadOwner(c) ==
  /\ At(c, "owned")
  /\ owner[c] # NoClient
  /\ owner[c] \notin alive
  /\ clientPid' = Cleared(c)
  /\ Goto(c, "claim")
  /\ owner' = [owner EXCEPT ![c] = NoClient]
  /\ UNCHANGED <<alive, writeIndex, command, nextRequest, begun,
                 serverVars, historyVars, readIndex, slots, commandEvent>>

\* The server has not only loaded the read index, it goes on to store it.
PopIsUnderWay ==
  \/ serverPc = "copied"
  \/ serverPc = "loaded" /\ serverRead # writeIndex

\* Nothing the server has not yet popped is kept, but the server may be between
\* the read index it has loaded and the one it is going to store.
SkipOldCommands(c) ==
  /\ At(c, "claimed")
  /\ readIndex' = writeIndex
  /\ nextRequest' = [nextRequest EXCEPT ![c] = 1]
  /\ Goto(c, "connected")
  /\ pending' = <<>>
  /\ overtaken' = PopIsUnderWay
  /\ UNCHANGED <<alive, clientPid, writeIndex, owner, command, begun,
                 serverVars, slots, commandEvent>>

\* A request takes its ID before the push, which may fail.
BeginPush(c, kind) ==
  /\ At(c, "connected")
  /\ begun < MaxBegun
  /\ begun' = begun + 1
  /\ command' = [command EXCEPT ![c] =
       [no |-> begun + 1, from |-> c, kind |-> kind,
        request |-> IF kind \in Requests THEN nextRequest[c] ELSE 0]]
  /\ nextRequest' = IF kind \in Requests THEN [nextRequest EXCEPT ![c] = @ + 1]
                                         ELSE nextRequest
  /\ Goto(c, "push")
  /\ UNCHANGED <<alive, clientPid, writeIndex, owner,
                 serverVars, historyVars, readIndex, slots, commandEvent>>

\* Seeded fault: one command too many.
FullOffByOne == Distance(readIndex, writeIndex) > SlotCount

Full == Distance(readIndex, writeIndex) >= SlotCount

\* QueueFull or ServerStopped
PushFails(c) ==
  /\ At(c, "push")
  /\ clientPid # c \/ stale \/ Full
  /\ Goto(c, "connected")
  /\ UNCHANGED <<alive, clientPid, writeIndex, owner, command, nextRequest, begun, serverVars, historyVars, readIndex, slots, commandEvent>>

WriteSlot(c) ==
  /\ At(c, "push")
  /\ clientPid = c /\ ~stale /\ ~Full
  /\ slots' = [slots EXCEPT ![Slot(writeIndex)] = command[c]]
  /\ Goto(c, "publish")
  /\ UNCHANGED <<alive, clientPid, writeIndex, owner, command, nextRequest, begun, serverVars, historyVars, readIndex, commandEvent>>

Publish(c) ==
  /\ At(c, "publish")
  /\ writeIndex' = Next1(writeIndex)
  /\ Goto(c, "signal")
  /\ pending' = Append(pending, command[c])
  /\ UNCHANGED <<alive, clientPid, owner, command, nextRequest, begun,
                 serverVars, overtaken, readIndex, slots, commandEvent>>

SignalCommand(c) ==
  /\ At(c, "signal")
  /\ commandEvent' = TRUE
  /\ Goto(c, "connected")
  /\ UNCHANGED <<alive, clientPid, writeIndex, owner, command, nextRequest, begun, serverVars, historyVars, readIndex, slots>>

\* Drop: compare_exchange(pid, 0)
Disconnect(c) ==
  /\ At(c, "connected")
  /\ clientPid' = IF clientPid = c THEN NoClient ELSE clientPid
  /\ Goto(c, "off")
  /\ command' = [command EXCEPT ![c] = NoCommand]
  /\ UNCHANGED <<alive, writeIndex, owner, nextRequest, begun,
                 serverVars, historyVars, readIndex, slots, commandEvent>>

\* The process ends, wherever it is, and its own memory is gone.  (One that is
\* not connected may as well never connect again.)
Die(c) ==
  /\ c \in alive
  /\ pc[c] # "off"
  /\ alive' = alive \ {c}
  /\ Goto(c, "off")
  /\ owner' = [owner EXCEPT ![c] = NoClient]
  /\ command' = [command EXCEPT ![c] = NoCommand]
  /\ nextRequest' = [nextRequest EXCEPT ![c] = 1]
  /\ UNCHANGED <<clientPid, writeIndex, begun, serverVars, historyVars, readIndex,
                 slots, commandEvent>>

(***************************************************************************)
(* The server: recv_timeout and pop_command                                *)
(***************************************************************************)
\* touch_heartbeat, then pop_command loads the read index ...
LoadReadIndex ==
  /\ serverPc = "idle"
  /\ stale' = FALSE
  /\ serverRead' = readIndex
  /\ taken' = NoCommand
  /\ serverPc' = "loaded"
  /\ UNCHANGED <<clientVars, historyVars, readIndex, slots, commandEvent>>

FindEmpty ==
  /\ serverPc = "loaded"
  /\ serverRead = writeIndex
  /\ serverPc' = "idle"
  /\ UNCHANGED <<clientVars, historyVars, stale, serverRead, taken, readIndex, slots,
                 commandEvent>>

\* ... copies the slot unless it has caught up with the write index ...
CopySlot ==
  /\ serverPc = "loaded"
  /\ serverRead # writeIndex
  /\ taken' = slots[Slot(serverRead)]
  /\ serverPc' = "copied"
  /\ UNCHANGED <<clientVars, historyVars, stale, serverRead, readIndex, slots, commandEvent>>

\* ... and stores what it loaded plus one.
StoreReadIndex ==
  /\ serverPc = "copied"
  /\ readIndex' = Next1(serverRead)
  /\ serverPc' = "idle"
  /\ pending' = IF pending = <<>> THEN <<>> ELSE Tail(pending)
  /\ UNCHANGED <<clientVars, overtaken, stale, serverRead, taken, slots, commandEvent>>

\* The auto-reset event lets one wait through.
ConsumeSignal ==
  /\ serverPc = "idle"
  /\ commandEvent
  /\ commandEvent' = FALSE
  /\ UNCHANGED <<clientVars, serverVars, historyVars, readIndex, slots>>

\* Time passes without a touch.
HeartbeatAges ==
  /\ serverPc = "idle"
  /\ stale' = TRUE
  /\ UNCHANGED <<clientVars, historyVars, serverPc, serverRead, taken, readIndex, slots,
                 commandEvent>>

-----------------------------------------------------------------------------
ConnectStep(c) ==
  \/ LoadOwner(c)
  \/ ClaimFree(c)
  \/ FindOwnerRunning(c)
  \/ ClearDeadOwner(c)
  \/ SkipOldCommands(c)

PushStep(c) ==
  \/ PushFails(c)
  \/ WriteSlot(c)
  \/ Publish(c)

RingClientStep(c) ==
  \/ BeginConnect(c)
  \/ ConnectStep(c)
  \/ \E kind \in Kinds : BeginPush(c, kind)
  \/ PushStep(c)
  \/ SignalCommand(c)
  \/ Disconnect(c)
  \/ Die(c)

RingServerStep ==
  \/ LoadReadIndex
  \/ FindEmpty
  \/ CopySlot
  \/ StoreReadIndex
  \/ ConsumeSignal
  \/ HeartbeatAges

RingNext ==
  \/ \E c \in Clients : RingClientStep(c)
  \/ RingServerStep

RingSpec == RingInit /\ [][RingNext]_ringVars

-----------------------------------------------------------------------------
(***************************************************************************)
(* Properties                                                              *)
(***************************************************************************)
Places == {"off", "claim", "owned", "claimed", "connected", "push", "publish", "signal"}
AnyCommands == Commands \cup {NoCommand}

RingTypeOK ==
  /\ alive \subseteq Clients
  /\ clientPid \in Clients \cup {NoClient}
  /\ writeIndex \in Indices /\ readIndex \in Indices /\ serverRead \in Indices
  /\ slots \in [0 .. SlotCount - 1 -> AnyCommands]
  /\ commandEvent \in BOOLEAN /\ stale \in BOOLEAN /\ overtaken \in BOOLEAN
  /\ pc \in [Clients -> Places]
  /\ owner \in [Clients -> Clients \cup {NoClient}]
  /\ command \in [Clients -> AnyCommands]
  /\ nextRequest \in [Clients -> Nat]
  /\ serverPc \in {"idle", "loaded", "copied"}
  /\ taken \in AnyCommands
  /\ begun \in Nat
  /\ pending \in Seq(AnyCommands)

\* The places from the claim to the drop: the client takes the ring for its own.
Connected(c) == pc[c] \in {"claimed", "connected", "push", "publish", "signal"}

\* A client that runs and takes the ring for its own has it: two never write
\* into it at the same time, whichever clients die or try to connect meanwhile.
ConnectedOwnsRing == \A c \in alive : Connected(c) => clientPid = c

\* The commands from the read index to the write index.
InRing == [n \in 1 .. Distance(readIndex, writeIndex) |-> slots[Slot(readIndex + n - 1)]]

\* The ring holds what was pushed on this connection and not yet popped, and
\* the server is about to pop the oldest of it: nothing is lost, read twice or
\* overwritten, across the wrap of the indices.  (Unless the client connected
\* in the middle of a pop: then the server stores an index of the connection
\* before, and its commands come back.)
RingHoldsPending ==
  ~overtaken =>
    /\ InRing = pending
    /\ serverPc = "copied" => pending # <<>> /\ taken = Head(pending)
=============================================================================
