------------------------------ MODULE HlcClock ------------------------------
(***************************************************************************)
(* The hybrid logical clock of one installation of Prisms                   *)
(* (packages/core/src/time/hlc.ts) and the way the client keeps it          *)
(* (packages/ui/src/powersync/client-runtime.ts): every `createExecute-     *)
(* Command` makes a `createHlc` closure with a previous tick of its own,    *)
(* seeded once from localStorage; an import raises a floor, in memory and   *)
(* in localStorage; the wall clock goes where it wants.                     *)
(*                                                                          *)
(* An HLC is its physical milliseconds and its counter: within one          *)
(* installation the device id is constant, and the fixed-width hex encoding *)
(* orders as the pair does.                                                 *)
(***************************************************************************)
EXTENDS Integers, Sequences

CONSTANTS
  Clocks,      \* the createHlc closures an installation may hold
  PhysMax,     \* HLC_PHYSICAL_MAX, 2^48 - 1
  CounterMax,  \* HLC_COUNTER_MAX, 2^16 - 1
  None,        \* null
  MaxMints     \* bound: how many HLCs are ever minted

ASSUME ClockAssumption ==
  /\ PhysMax \in Nat
  /\ CounterMax \in Nat
  /\ MaxMints \in Nat

Hlc == [p : 0 .. PhysMax, c : 0 .. CounterMax]

ASSUME NoneAssumption == None \notin [p : Nat, c : Nat]

VARIABLES
  now,        \* Date.now()
  open,       \* the closures in use
  prev,       \* the previous tick of each closure, or its seed
  last,       \* localStorage HLC_LAST_KEY
  floor,      \* the module's hlcFloor
  savedFloor, \* localStorage HLC_FLOOR_KEY
  minted,     \* history: the HLCs minted, in the order of the mints
  imported    \* history: the high-water HLCs of the imports

clockVars == <<now, open, prev, last, floor, savedFloor, minted, imported>>

-----------------------------------------------------------------------------
(* hlcCompare, hlcTick, mergeHlc.                                             *)

Later(a, b) == a.p > b.p \/ (a.p = b.p /\ a.c > b.c)

\* a > b when null is the smallest
LaterOrFirst(a, b) == a # None /\ (b = None \/ Later(a, b))

MaxOf(a, b) == IF a >= b THEN a ELSE b

\* Seeded fault of Carry: the counter runs past its width.
CarryNever(p, c) == [p |-> p, c |-> c]

\* A counter past its 16 bits carries into the next millisecond.
Carry(p, c) == IF c > CounterMax THEN [p |-> p + 1, c |-> 0] ELSE [p |-> p, c |-> c]

\* The local event rule.
HlcTick(before, at) ==
  IF before = None \/ at > before.p THEN [p |-> at, c |-> 0]
  ELSE Carry(before.p, before.c + 1)

PhysOf(h) == IF h = None THEN 0 ELSE h.p

CounterOf(h) == IF h = None THEN 0 ELSE h.c

\* Seeded fault of MergeHlc: a tie counts on from the local counter only.
MergeHlcLocal(local, remote, at) ==
  LET p == MaxOf(MaxOf(PhysOf(local), remote.p), at) IN
  IF p = PhysOf(local) THEN Carry(p, CounterOf(local) + 1)
  ELSE IF p = remote.p THEN Carry(p, remote.c + 1)
  ELSE [p |-> p, c |-> 0]

\* The receive rule: the counter advances past whatever ties the new time.
MergeHlc(local, remote, at) ==
  LET p == MaxOf(MaxOf(PhysOf(local), remote.p), at) IN
  IF p = PhysOf(local) /\ p = remote.p
    THEN Carry(p, MaxOf(CounterOf(local), remote.c) + 1)
  ELSE IF p = PhysOf(local) THEN Carry(p, CounterOf(local) + 1)
  ELSE IF p = remote.p THEN Carry(p, remote.c + 1)
  ELSE [p |-> p, c |-> 0]

-----------------------------------------------------------------------------
ClockInit ==
  /\ now \in 0 .. PhysMax
  /\ open = {}
  /\ prev = [k \in Clocks |-> None]
  /\ last = None
  /\ floor = None
  /\ savedFloor = None
  /\ minted = <<>>
  /\ imported = {}

\* createHlc: a new closure starts from the persisted last tick, whatever the
\* other closures in use have minted since their own seed.
CreateHlc(k) ==
  /\ k \notin open
  /\ open' = open \cup {k}
  /\ prev' = [prev EXCEPT ![k] = last]
  /\ UNCHANGED <<now, last, floor, savedFloor, minted, imported>>

\* The component that holds the closure unmounts.
DropHlc(k) ==
  /\ k \in open
  /\ open' = open \ {k}
  /\ prev' = [prev EXCEPT ![k] = None]
  /\ UNCHANGED <<now, last, floor, savedFloor, minted, imported>>

\* The page is reloaded or the app restarted: closures and module state are
\* gone, loadImportedHlcFloor runs before any command is minted.
Restart ==
  /\ open' = {}
  /\ prev' = [k \in Clocks |-> None]
  /\ floor' = savedFloor
  /\ UNCHANGED <<now, last, savedFloor, minted, imported>>

\* Seeded fault of Base: the floor is not observed.
BaseWithoutFloor(k) == prev[k]

\* The later of the closure's previous tick and the import floor.
Base(k) == IF LaterOrFirst(floor, prev[k]) THEN floor ELSE prev[k]

\* Seeded fault of Tick: no assertValidHlc.
TickUnchecked(k) ==
  LET next == HlcTick(Base(k), now) IN
  /\ k \in open
  /\ Len(minted) < MaxMints
  /\ prev' = [prev EXCEPT ![k] = next]
  /\ last' = next
  /\ minted' = Append(minted, next)
  /\ UNCHANGED <<now, open, floor, savedFloor, imported>>

\* next(): tick, persist, return.  assertValidHlc throws before anything is
\* assigned when the 48 bits are exhausted.
Tick(k) ==
  LET next == HlcTick(Base(k), now) IN
  /\ k \in open
  /\ Len(minted) < MaxMints
  /\ next \in Hlc
  /\ prev' = [prev EXCEPT ![k] = next]
  /\ last' = next
  /\ minted' = Append(minted, next)
  /\ UNCHANGED <<now, open, floor, savedFloor, imported>>

\* persistImportedHlc, after a successful import: observe and persist.
Import(h) ==
  /\ floor' = IF LaterOrFirst(h, floor) THEN h ELSE floor
  /\ savedFloor' = IF LaterOrFirst(h, savedFloor) THEN h ELSE savedFloor
  /\ imported' = imported \cup {h}
  /\ UNCHANGED <<now, open, prev, last, minted>>

\* The wall clock passes, stalls, or is set back.
WallClock ==
  /\ now' \in 0 .. PhysMax
  /\ UNCHANGED <<open, prev, last, floor, savedFloor, minted, imported>>

ClockNext ==
  \/ \E k \in Clocks : CreateHlc(k) \/ DropHlc(k) \/ Tick(k)
  \/ Restart
  \/ \E h \in Hlc : Import(h)
  \/ WallClock

ClockSpec == ClockInit /\ [][ClockNext]_clockVars

-----------------------------------------------------------------------------
\* Type invariant.
ClockTypeOK ==
  /\ now \in 0 .. PhysMax
  /\ open \subseteq Clocks
  /\ prev \in [Clocks -> Hlc \cup {None}]
  /\ last \in Hlc \cup {None}
  /\ floor \in Hlc \cup {None}
  /\ savedFloor \in Hlc \cup {None}
  /\ minted \in Seq(Hlc)
  /\ imported \subseteq Hlc

\* §13.1: a command minted after an import orders after the imported rows,
\* whichever closure mints it, in this session or a later one, and however far
\* behind the wall clock is.
ImportsDominated ==
  [][minted' # minted =>
       \A h \in imported : Later(minted'[Len(minted')], h)]_clockVars

\* hlcTick never runs into assertValidHlc while a later millisecond remains,
\* however many commands are minted within one: the counter carries.
NeverStuck ==
  \A k \in open : PhysOf(Base(k)) < PhysMax => HlcTick(Base(k), now) \in Hlc

\* mergeHlc "strictly dominates both `local` and `remote`", and stays an HLC
\* while a later millisecond remains: for the reading of an open clock, the
\* wall clock as it stands and any remote reading.
MergeDominates ==
  \A k \in open, remote \in Hlc :
    LET merged == MergeHlc(Base(k), remote, now) IN
    /\ Later(merged, remote)
    /\ Base(k) # None => Later(merged, Base(k))
    /\ PhysOf(Base(k)) < PhysMax /\ remote.p < PhysMax => merged \in Hlc

-----------------------------------------------------------------------------
(* What a comment of the code says and the code does not do; refuted by an    *)
(* instance that the README names.                                            *)

\* "A monotonic per-device HLC", so that "a wall-clock regression across a
\* restart cannot mint an HLC below an already-queued/applied one": every mint
\* of the installation exceeds every earlier one.
MonotonicPerDevice ==
  \A i, j \in 1 .. Len(minted) : i < j => Later(minted[j], minted[i])
=============================================================================
