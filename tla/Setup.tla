-------------------------------- MODULE Setup --------------------------------
(***************************************************************************)
(* The life of the PostgreSQL objects: the setup command and the doctor    *)
(* (internal/postgres/setup.go, doctor.go), and how a daemon finds its     *)
(* place on a slot that may be missing, dropped or created again           *)
(* (startLSN and isFatalCaptureError of replicator.go).                    *)
(*                                                                         *)
(* Every transaction emits one event: event i is at LSN i.  The stream is  *)
(* reduced to what is at stake here; module Capture has it in full.        *)
(***************************************************************************)
EXTENDS Integers

CONSTANTS
  Installers,   \* setup commands
  Daemons,      \* daemons that stream from the slot
  Unowned,      \* no daemon
  CreateSlotIfMissing,   \* the settings of create_slot_if_missing in use
  MaxEvents,    \* bound: events that are emitted
  MaxDrops      \* bound: how often the slot is dropped

ASSUME SetupAssumption ==
  /\ Unowned \notin Daemons /\ CreateSlotIfMissing \subseteq BOOLEAN
  /\ MaxEvents \in Nat /\ MaxDrops \in Nat

VARIABLES
  server,   \* [emit, publication]: the SQL function, the publication
  slot,     \* [exists, foreign, confirmed, owner]: the replication slot;
            \* foreign: of another plugin or another database
  life,     \* [since, drops]: where the latest slot was created, and how many
            \* have been dropped
  wal,      \* the number of events committed
  spool,    \* [items, checkpoint]: the events in the spool, its durable LSN
  setup,    \* setup[p]: [pc, create, emit, publication, slot, drops]: a setup
            \* command, its --create-slot, which objects it has found, and
            \* how many slots had been dropped when it began
  daemon    \* daemon[d]: [pc, create, start, cursor]: a daemon, its
            \* create_slot_if_missing, start position and next event

setupVars == <<server, slot, life, wal, spool, setup, daemon>>

NoSlot == [exists |-> FALSE, foreign |-> FALSE, confirmed |-> 0, owner |-> Unowned]
IdleSetup ==
  [pc |-> "idle", create |-> FALSE, emit |-> FALSE, publication |-> FALSE, slot |-> FALSE,
   drops |-> 0]
Down == [pc |-> "down", create |-> FALSE, start |-> 0, cursor |-> 0]

SetupPcs == {"idle", "publication", "slot", "install", "publish", "create", "ok"}
DaemonPcs == {"down", "slot", "create", "created", "connect", "stream"}

SetupType ==
  /\ server \in [emit : BOOLEAN, publication : {"none", "empty", "tables"}]
  /\ slot \in [exists : BOOLEAN, foreign : BOOLEAN, confirmed : Nat,
               owner : Daemons \cup {Unowned}]
  /\ life \in [since : Nat, drops : Nat]
  /\ wal \in Nat
  /\ spool \in [items : SUBSET Nat, checkpoint : Nat]
  /\ setup \in [Installers -> [pc : SetupPcs, create : BOOLEAN, emit : BOOLEAN,
                               publication : BOOLEAN, slot : BOOLEAN, drops : Nat]]
  /\ daemon \in [Daemons -> [pc : DaemonPcs, create : BOOLEAN, start : Nat, cursor : Nat]]

\* A server on which somebody may have created some of the objects.
SetupInit ==
  /\ server \in [emit : BOOLEAN, publication : {"none", "empty", "tables"}]
  /\ slot \in {NoSlot, [NoSlot EXCEPT !.exists = TRUE, !.foreign = TRUE]}
  /\ life = [since |-> 0, drops |-> 0]
  /\ wal = 0
  /\ spool = [items |-> {}, checkpoint |-> 0]
  /\ setup = [p \in Installers |-> IdleSetup]
  /\ daemon = [d \in Daemons |-> Down]

\* validateSlot; a slot that is missing has no plugin, which is a mismatch.
ValidSlot == slot.exists /\ ~slot.foreign /\ slot.owner = Unowned

\* CREATE_REPLICATION_SLOT: the slot starts where the log ends.
CreateReplicationSlot ==
  /\ slot' = [NoSlot EXCEPT !.exists = TRUE, !.confirmed = wal + 1]
  /\ life' = [life EXCEPT !.since = wal + 1]
-----------------------------------------------------------------------------
(* The setup command: a read-only preflight, then the missing objects.     *)

SetupAt(p, pc) == setup[p].pc = pc
SetupGoes(p, s) == setup' = [setup EXCEPT ![p] = s]
SetupReturns(p) == SetupGoes(p, IdleSetup)
SetupSucceeds(p) == SetupGoes(p, [IdleSetup EXCEPT !.pc = "ok", !.drops = setup[p].drops])
\* What is not needed any more is forgotten.
SetupInstalled(p) == SetupGoes(p, [setup[p] EXCEPT !.pc = "publish", !.emit = FALSE])
SetupPublished(p) ==
  IF setup[p].slot THEN SetupSucceeds(p)
  ELSE SetupGoes(p, [setup[p] EXCEPT !.pc = "create", !.publication = FALSE])

\* The function is looked for first; once there it stays.
BeginSetup(p, create) ==
  /\ setup[p].pc \in {"idle", "ok"}
  /\ SetupGoes(p, [IdleSetup EXCEPT !.pc = "publication", !.create = create,
                                    !.emit = server.emit, !.drops = life.drops])
  /\ UNCHANGED <<server, slot, life, wal, spool, daemon>>

InspectPublication(p) ==
  /\ SetupAt(p, "publication")
  /\ IF server.publication = "tables" THEN SetupReturns(p)
     ELSE SetupGoes(p, [setup[p] EXCEPT !.pc = "slot",
                                        !.publication = server.publication = "empty"])
  /\ UNCHANGED <<server, slot, life, wal, spool, daemon>>

InspectSlot(p) ==
  /\ SetupAt(p, "slot")
  /\ IF ValidSlot \/ (~slot.exists /\ setup[p].create)
     THEN SetupGoes(p, [setup[p] EXCEPT !.pc = "install", !.slot = slot.exists,
                                        !.create = FALSE])
     ELSE SetupReturns(p)
  /\ UNCHANGED <<server, slot, life, wal, spool, daemon>>

\* CREATE OR REPLACE FUNCTION, unless the function was there.
InstallFunction(p) ==
  /\ SetupAt(p, "install")
  /\ server' = [server EXCEPT !.emit = @ \/ ~setup[p].emit]
  /\ SetupInstalled(p)
  /\ UNCHANGED <<slot, life, wal, spool, daemon>>

\* Mutant: a slot that is created needs no publication.
CreatePublicationLate(p) ==
  /\ SetupAt(p, "publish")
  /\ \/ /\ setup[p].publication \/ ~setup[p].slot
        /\ SetupPublished(p)
        /\ UNCHANGED server
     \/ /\ ~setup[p].publication /\ setup[p].slot /\ server.publication = "none"
        /\ server' = [server EXCEPT !.publication = "empty"]
        /\ SetupSucceeds(p)
     \/ /\ ~setup[p].publication /\ setup[p].slot /\ server.publication # "none"
        /\ SetupReturns(p)
        /\ UNCHANGED server
  /\ UNCHANGED <<slot, life, wal, spool, daemon>>

\* CREATE PUBLICATION fails when somebody has created it since the preflight.
CreatePublication(p) ==
  /\ SetupAt(p, "publish")
  /\ \/ /\ setup[p].publication
        /\ SetupPublished(p)
        /\ UNCHANGED server
     \/ /\ ~setup[p].publication /\ server.publication = "none"
        /\ server' = [server EXCEPT !.publication = "empty"]
        /\ SetupPublished(p)
     \/ /\ ~setup[p].publication /\ server.publication # "none"
        /\ SetupReturns(p)
        /\ UNCHANGED server
  /\ UNCHANGED <<slot, life, wal, spool, daemon>>

CreateSlot(p) ==
  /\ SetupAt(p, "create")
  /\ \/ slot.exists /\ SetupReturns(p) /\ UNCHANGED <<slot, life>>
     \/ ~slot.exists /\ CreateReplicationSlot /\ SetupSucceeds(p)
  /\ UNCHANGED <<server, wal, spool, daemon>>

\* A statement fails, or the command is killed: what it has done stays.
SetupFails(p) ==
  /\ setup[p].pc \notin {"idle", "ok"}
  /\ SetupReturns(p)
  /\ UNCHANGED <<server, slot, life, wal, spool, daemon>>

SetupStep(p) ==
  \/ InspectPublication(p) \/ InspectSlot(p)
  \/ InstallFunction(p) \/ CreatePublication(p) \/ CreateSlot(p)
-----------------------------------------------------------------------------
(* A daemon: startLSN, START_REPLICATION and the stream.                   *)

DaemonAt(d, pc) == daemon[d].pc = pc
DaemonGoes(d, s) == daemon' = [daemon EXCEPT ![d] = s]
DaemonTurns(d, pc) == DaemonGoes(d, [daemon[d] EXCEPT !.pc = pc])

StartDaemon(d, create) ==
  /\ DaemonAt(d, "down")
  /\ DaemonGoes(d, [Down EXCEPT !.pc = "slot", !.create = create])
  /\ UNCHANGED <<server, slot, life, wal, spool, setup>>

\* Mutant: without a checkpoint capture starts at the end of the log.
StartPositionEnd == IF spool.checkpoint # 0 THEN spool.checkpoint ELSE wal + 1

\* The local checkpoint, or what the slot has confirmed.
StartPosition == IF spool.checkpoint # 0 THEN spool.checkpoint ELSE slot.confirmed

\* A slot that fails validation ends the daemon.
Validate(d) ==
  DaemonGoes(d, IF ValidSlot
                THEN [daemon[d] EXCEPT !.pc = "connect", !.start = StartPosition]
                ELSE Down)

\* A missing slot that must not be created is an error that is not fatal: Run
\* waits and reads the slot again.
ReadSlot(d) ==
  /\ DaemonAt(d, "slot")
  /\ \/ slot.exists /\ Validate(d)
     \/ ~slot.exists /\ daemon[d].create /\ DaemonTurns(d, "create")
  /\ UNCHANGED <<server, slot, life, wal, spool, setup>>

\* Mutant: a slot that has appeared meanwhile is not read; its creation is tried again.
CreateMissingSlotAgain(d) ==
  /\ DaemonAt(d, "create")
  /\ \/ slot.exists /\ UNCHANGED <<slot, life, daemon>>
     \/ ~slot.exists /\ CreateReplicationSlot /\ DaemonTurns(d, "created")
  /\ UNCHANGED <<server, wal, spool, setup>>

\* create_slot_if_missing; when the slot has appeared meanwhile the error is not
\* fatal.
CreateMissingSlot(d) ==
  /\ DaemonAt(d, "create")
  /\ \/ slot.exists /\ DaemonTurns(d, "slot") /\ UNCHANGED <<slot, life>>
     \/ ~slot.exists /\ CreateReplicationSlot /\ DaemonTurns(d, "created")
  /\ UNCHANGED <<server, wal, spool, setup>>

\* The new slot is read; one that has disappeared again is a mismatch.
ReadCreatedSlot(d) ==
  /\ DaemonAt(d, "created")
  /\ Validate(d)
  /\ UNCHANGED <<server, slot, life, wal, spool, setup>>

\* START_REPLICATION fails on a slot that is gone, in use or of another kind;
\* the stream begins at the later of the two positions.
StartReplication(d) ==
  /\ DaemonAt(d, "connect")
  /\ \/ ~ValidSlot /\ DaemonTurns(d, "slot") /\ UNCHANGED slot
     \/ /\ ValidSlot
        /\ slot' = [slot EXCEPT !.owner = d]
        /\ DaemonGoes(d, [daemon[d] EXCEPT !.pc = "stream", !.cursor =
             IF daemon[d].start > slot.confirmed THEN daemon[d].start ELSE slot.confirmed])
  /\ UNCHANGED <<server, life, wal, spool, setup>>

\* The next event is persisted; its acknowledgement may be lost.
CaptureEvent(d) ==
  /\ DaemonAt(d, "stream") /\ daemon[d].cursor <= wal
  /\ LET end == daemon[d].cursor + 1
     IN /\ spool' = [items |-> spool.items \cup {daemon[d].cursor},
                     checkpoint |-> IF end > spool.checkpoint THEN end ELSE spool.checkpoint]
        /\ DaemonGoes(d, [daemon[d] EXCEPT !.cursor = end])
        /\ \/ UNCHANGED slot
           \/ spool'.checkpoint > slot.confirmed
              /\ slot' = [slot EXCEPT !.confirmed = spool'.checkpoint]
  /\ UNCHANGED <<server, life, wal, setup>>

\* The daemon loses its connection, or ends.
LeaveSlot(d, pc) ==
  /\ DaemonGoes(d, IF pc = "down" THEN Down
                   ELSE [Down EXCEPT !.pc = pc, !.create = daemon[d].create])
  /\ slot' = IF slot.owner = d THEN [slot EXCEPT !.owner = Unowned] ELSE slot
  /\ UNCHANGED <<server, life, wal, spool, setup>>
Disconnect(d) == daemon[d].pc \notin {"down", "slot"} /\ LeaveSlot(d, "slot")
EndDaemon(d) == daemon[d].pc # "down" /\ LeaveSlot(d, "down")

DaemonStep(d) ==
  \/ ReadSlot(d) \/ CreateMissingSlot(d) \/ ReadCreatedSlot(d)
  \/ StartReplication(d) \/ CaptureEvent(d)
-----------------------------------------------------------------------------
(* The server: applications emit events; somebody drops the slot, which    *)
(* PostgreSQL refuses while it is in use.                                  *)

Emit ==
  /\ server.emit /\ wal < MaxEvents
  /\ wal' = wal + 1
  /\ UNCHANGED <<server, slot, life, spool, setup, daemon>>

DropSlot ==
  /\ slot.exists /\ slot.owner = Unowned /\ life.drops < MaxDrops
  /\ slot' = NoSlot
  /\ life' = [life EXCEPT !.drops = @ + 1]
  /\ UNCHANGED <<server, wal, spool, setup, daemon>>

SetupAct(p) == SetupStep(p) \/ \E create \in BOOLEAN : BeginSetup(p, create)
DaemonAct(d) == DaemonStep(d) \/ \E create \in CreateSlotIfMissing : StartDaemon(d, create)
Trouble ==
  \/ \E p \in Installers : SetupFails(p)
  \/ \E d \in Daemons : Disconnect(d) \/ EndDaemon(d)
  \/ DropSlot

SetupNext ==
  \/ \E p \in Installers : SetupAct(p)
  \/ \E d \in Daemons : DaemonAct(d)
  \/ Emit \/ Trouble

SetupSpec == SetupInit /\ [][SetupNext]_setupVars

\* Doctor's checks of the function, the publication and the slot.  "slot inactive" is
\* left out: it fails by design while a daemon streams.
DoctorPasses ==
  /\ server.emit
  /\ server.publication = "empty"
  /\ slot.exists /\ ~slot.foreign

\* An operator, as long as the doctor complains, comes to repeat setup with
\* --create-slot; a supervisor starts a daemon that has ended.
SetupLiveSpec ==
  /\ SetupSpec
  /\ \A p \in Installers : WF_setupVars(SetupStep(p))
  /\ SF_setupVars(~DoctorPasses /\ \E p \in Installers : BeginSetup(p, TRUE))
  /\ \A d \in Daemons : WF_setupVars(DaemonAct(d))
-----------------------------------------------------------------------------
\* After a setup that has reported success the doctor finds every object, unless
\* somebody has dropped the slot since it began: whatever other setups and daemons
\* do between its preflight and its changes, and however often it was cut short
\* (Setup).
SetupSatisfiesDoctor ==
  \A p \in Installers :
    SetupAt(p, "ok") /\ setup[p].drops = life.drops => DoctorPasses

\* LSN i is not behind any position from which streaming may go on.
NotPassed(i) ==
  /\ i >= spool.checkpoint
  /\ slot.exists /\ ~slot.foreign => i >= slot.confirmed
  /\ \A d \in Daemons :
       /\ DaemonAt(d, "connect") => i >= daemon[d].start
       /\ DaemonAt(d, "stream") => i >= daemon[d].cursor

\* Every event that was emitted since the latest slot was created is in the spool,
\* or is still held by the slot and ahead of whoever streams from it: an event is
\* lost only by dropping the slot (startLSN, runOnce).
SlotLosesNothing ==
  \A i \in life.since..wal : i \in spool.items \/ NotPassed(i)

\* Their inductive strengthening: what a setup has found or made is still there,
\* unless it is a slot that has been dropped; no position is ahead of the log.
FoundIsThere ==
  \A p \in Installers :
    /\ setup[p].emit \/ setup[p].pc \in {"publish", "create", "ok"} => server.emit
    /\ setup[p].publication \/ setup[p].pc \in {"create", "ok"} => server.publication = "empty"
    /\ setup[p].drops <= life.drops
    /\ (setup[p].slot \/ setup[p].pc = "ok") /\ setup[p].drops = life.drops =>
         slot.exists /\ ~slot.foreign

SetupInv ==
  /\ SetupType
  /\ FoundIsThere
  /\ life.since <= wal + 1 /\ NotPassed(wal + 1) /\ SlotLosesNothing

\* docs/architecture.md:245 "Protocol, identity, slot, and spool-durability
\* failures are fatal so the daemon cannot silently skip an event": between two
\* events of the spool none is missing.
NoEventIsSkipped ==
  \A i, k \in spool.items : \A j \in i..k : j \in spool.items

\* What fails or ends of itself: a setup that finds an object in its way returns an
\* error, a daemon that finds its slot in use or of another kind ends, and one that
\* finds it gone connects again.
OfItself ==
  \/ \E p \in Installers : SetupAct(p)
  \/ \E d \in Daemons : DaemonAct(d)

\* Once nothing fails or is dropped from outside any more, a daemon streams and has
\* captured everything since the slot was created, whatever the failed setups have
\* left and however often setups and daemons still get into each other's way; unless
\* the publication or the slot belongs to something else, which neither setup nor
\* the daemon touches (Setup, Run).
EventuallyStreaming ==
  /\ <>[][Trouble => OfItself]_setupVars
  /\ <>[](server.publication # "tables" /\ ~slot.foreign)
  => <>[]( /\ \E d \in Daemons : DaemonAt(d, "stream")
           /\ \A i \in life.since..wal : i \in spool.items )
=============================================================================
