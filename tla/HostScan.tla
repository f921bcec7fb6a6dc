------------------------------ MODULE HostScan ------------------------------
(***************************************************************************)
(* The host bridge with _map_zero_page step by step (ZeroPage).  HostLoad  *)
(* takes an access to an unmapped address as one step that adds the holes  *)
(* of its page; here it is the loop of the code, which adds them to the    *)
(* table one by one, and the access at its end.  The bridge has one user   *)
(* at a time, so nothing else happens during a scan.                       *)
(*                                                                         *)
(* While no scan is on, outcome is "idle", or what the last one came to.   *)
(***************************************************************************)
EXTENDS HostLoad, ZeroPage

ASSUME SamePage == PageLength = PageSize

hostScanVars == <<loadVars, scanVars>>

Idle == outcome # "scanning"

\* The variables of a scan that is over are forgotten.
NoScan ==
  /\ before' = {} /\ address' = 0 /\ index' = 1 /\ cursor' = 0 /\ added' = {}
  /\ outcome' = "idle"

InitScan ==
  /\ InitLoad
  /\ before = {} /\ address = 0 /\ index = 1 /\ cursor = 0 /\ added = {} /\ outcome = "idle"

\* The operations that need no zero page.
Direct ==
  /\ Idle /\ NoScan
  /\ \/ \E program \in Programs, o \in Options : LoadProgram(program, o)
     \/ /\ \E a \in Addr : Mapped(regions, a) /\ (ReadByte(a) \/ ReadChunk(a))
        /\ UNCHANGED <<image, stacks, origin>>
     \/ /\ generation < MaxGeneration
        /\ \E a \in Addr, v \in Byte : Mapped(regions, a) /\ WriteByte(a, v)
        /\ UNCHANGED <<image, stacks, origin>>
     \/ generation < MaxGeneration /\ \E snapshot \in saved : RestoreLoaded(snapshot)
     \/ saved = {} /\ SnapshotLoaded

\* memory.read or memory.write raised: the address is unmapped, or lacks the permission.
BeginScan(a) ==
  /\ Idle /\ Policy = "zero"
  /\ ~(Check(regions, a, "r") /\ Check(regions, a, "w"))
  /\ before' = regions /\ address' = a /\ index' = 1
  /\ cursor' = PageBase(a, PageLength) /\ added' = {} /\ outcome' = "scanning"
  /\ UNCHANGED loadVars

\* map_region, on the table itself.
ScanStep ==
  /\ SkipRegion \/ ScanRegion
  /\ regions' = before \cup added'
  /\ UNCHANGED <<bytes, generation, saved, image, stacks, origin>>

\* The access remains a fault.
ScanRejects == Reject /\ UNCHANGED loadVars

\* The rest of the page, and then the read, or the write again.
ScanEnds ==
  /\ Finish
  /\ regions' = before \cup added'
  /\ \/ UNCHANGED <<bytes, generation>>
     \/ /\ generation < MaxGeneration
        /\ \E v \in Byte : bytes' = [bytes EXCEPT ![address] = v]
        /\ generation' = generation + 1
  /\ UNCHANGED <<saved, image, stacks, origin>>

NextScan == Direct \/ (\E a \in Addr : BeginScan(a)) \/ ScanStep \/ ScanRejects \/ ScanEnds

SpecScan == InitScan /\ [][NextScan]_hostScanVars

-----------------------------------------------------------------------------
\* The table as it was when the scan began, as long as it is on.
Atomic == INSTANCE HostLoad WITH regions <- IF Idle THEN regions ELSE before

\* Hole by hole, the scan amounts to the one step of HostLoad, whatever loads, earlier
\* zero pages and restores made of the table: the theorems about SpecLoad are about it.
ScanIsAtomic == Atomic!SpecLoad
=============================================================================
