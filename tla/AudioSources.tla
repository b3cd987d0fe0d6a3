---------------------------- MODULE AudioSources ----------------------------
(***************************************************************************)
(* The audio-source configuration of AudioSrcConfiguration.c: one record    *)
(* per source in RAM and one file per source on the external flash, at most *)
(* one source selected.                                                     *)
(*                                                                          *)
(* Threads (the main loop, the system workqueue, a PC service) select and   *)
(* unselect a source, set its mute state or volume, replace its record, or  *)
(* read the selected one.  What concerns the selection takes                *)
(* kMutex_AudioSrcSelection first; every operation takes the mutexes of the *)
(* sources it touches, in ascending order; the selection mutex is the lock  *)
(* below source 0.  An operation stores its change in RAM, writes the       *)
(* record, and takes the change back when the write fails.                  *)
(*                                                                          *)
(* A step ends where a thread may wait: before a mutex and before a write   *)
(* of the file.  Mutexes are released in one step: a release never waits,   *)
(* and only lets other threads go on.                                       *)
(***************************************************************************)
EXTENDS Integers

CONSTANTS NumSources,  \* eNUMBER_OF_AUDIO_SOURCES
          MaxVolume,   \* SELECTED_AUDIO_SRC_MAX_VOLUME
          Threads,     \* threads that call the interface
          Allowed,     \* operations each of them calls
          Timeouts,    \* a mutex may be held longer than MUTEX_ACCESS_WAIT_TIME_ms
          ReadFaults,  \* a record may not be readable at start-up
          LateErrors,  \* a write may fail after its record has reached the flash
          NoThread     \* no owner of a mutex

Operations == {"Select", "Unselect", "Mute", "Volume", "Replace", "Get"}

ASSUME AudioConstantsAssumption ==
  /\ NumSources \in Nat \ {0}
  /\ MaxVolume \in Nat
  /\ Allowed \in [Threads -> SUBSET Operations]
  /\ {Timeouts, ReadFaults, LateErrors} \subseteq BOOLEAN
  /\ NoThread \notin Threads

Sources == 0 .. NumSources - 1
NoSource == NumSources
Selection == -1
Locks == {Selection} \cup Sources

VARIABLES
  up,     \* start-up has loaded the records, or failed to
  ram,    \* staAudioSrcConfigs
  file,   \* the record file of each source
  lock,   \* owner of kMutex_AudioSrcSelection and of staAudioSrcMutexes
  cl,     \* where each thread is in its call
  told    \* history: mute state and volume a caller was told are stored

audioVars == <<up, ram, file, lock, cl, told>>

\* staAudioSrcConfigs before a record is loaded: no name, nothing set.
Blank == [named |-> FALSE, active |-> FALSE, mute |-> FALSE, selected |-> FALSE,
          volume |-> 0]

\* What bDecode_AudioSourceConfiguration accepts.
Records ==
  {r \in [named : {TRUE}, active : BOOLEAN, mute : BOOLEAN, selected : BOOLEAN,
          volume : 0 .. MaxVolume] : r.selected => r.active}

Calls ==
       [op : {"Select", "Unselect"}, src : Sources]
  \cup [op : {"Mute"}, src : Sources, mute : BOOLEAN]
  \cup [op : {"Volume"}, src : Sources, volume : 0 .. MaxVolume]
  \cup [op : {"Replace"}, src : Sources, new : Records]
  \cup [op : {"Get"}]

Idle == [pc |-> "idle", call |-> [op |-> "Get"], prev |-> NoSource,
         rec |-> Blank, old |-> Blank]

Selected(c) == {s \in Sources : c[s].selected}
AtMostOne(c) == \A s, u \in Selected(c) : s = u

\* eFind_SelectedAudioSrc: the first selected source.
FindSelected(c) ==
  IF Selected(c) = {} THEN NoSource
  ELSE CHOOSE s \in Selected(c) : \A u \in Selected(c) : s <= u

Stored(r) == [mute |-> r.mute, volume |-> r.volume]

\* A unit leaves provisioning with quiet sources, at most one of them selected.
Init ==
  /\ up = FALSE
  /\ ram = [s \in Sources |-> Blank]
  /\ file \in {f \in [Sources -> {r \in Records : ~ r.mute /\ r.volume = 0}] :
                 AtMostOne(f)}
  /\ lock = [l \in Locks |-> NoThread]
  /\ cl = [t \in Threads |-> Idle]
  /\ told = [s \in Sources |-> Stored(file[s])]

-----------------------------------------------------------------------------
(* Locks, and the end of a call. *)

\* Seeded fault: the mute state is changed without the mutex of the source.
NeededButForMute(c) ==
  (IF c.call.op \in {"Mute", "Volume"} THEN {} ELSE {Selection})
    \cup (IF c.call.op \in {"Get", "Mute"} THEN {} ELSE {c.call.src})
    \cup ({c.prev} \cap Sources)

\* The mutexes a call takes: for a selection also that of the source selected
\* before, once it is known.
Needed(c) ==
  (IF c.call.op \in {"Mute", "Volume"} THEN {} ELSE {Selection})
    \cup (IF c.call.op = "Get" THEN {} ELSE {c.call.src})
    \cup ({c.prev} \cap Sources)

Held(t) == {l \in Locks : lock[l] = t}
Missing(t) == Needed(cl[t]) \ Held(t)

\* Seeded fault: the mutexes are taken in descending order.
NextLockDown(ls) == {l \in ls : \A m \in ls : l >= m}

\* The order in which iLock_AudioSources goes, after the selection mutex.
NextLock(ls) == {l \in ls : \A m \in ls : l <= m}

\* u holds the mutex t waits for.
WaitsFor(t, u) ==
  cl[t].pc = "lock" /\ \E l \in NextLock(Missing(t)) : lock[l] = u

Free(t) == lock' = [l \in Locks |-> IF lock[l] = t THEN NoThread ELSE lock[l]]
Return(t) == cl' = [cl EXCEPT ![t] = Idle] /\ Free(t)

\* Writing the record r of source s: stored, or refused (the file service is busy or
\* gone, the flash fails), or stored and then reported as failed, which is what
\* iWrite_ToFileBin does when fs_stat fails after the file was synchronised.
Writes(s, r) == r.named /\ file' = [file EXCEPT ![s] = r]
Fails(s, r) ==
  \/ UNCHANGED file
  \/ LateErrors /\ Writes(s, r)

-----------------------------------------------------------------------------
(* The operations. *)

Call(t, c) ==
  /\ up /\ cl[t].pc = "idle" /\ c.op \in Allowed[t]
  /\ cl' = [cl EXCEPT ![t].pc = "lock", ![t].call = c]
  /\ UNCHANGED <<up, ram, file, lock, told>>

\* With the selection mutex there is nothing to do: no source to read, or the source
\* is selected already.
NothingToDo(t) ==
  LET found == FindSelected(ram) IN
  /\ cl[t].pc = "lock" /\ lock[Selection] = NoThread
  /\ \/ cl[t].call.op = "Get" /\ found = NoSource
     \/ cl[t].call.op = "Select" /\ found = cl[t].call.src
  /\ cl' = [cl EXCEPT ![t] = Idle]
  /\ UNCHANGED <<up, ram, file, lock, told>>

\* The selected source is looked up under the selection mutex, before any other.
LockSelection(t) ==
  LET found == FindSelected(ram)
      op == cl[t].call.op IN
  /\ cl[t].pc = "lock" /\ Selection \in NextLock(Missing(t))
  /\ lock[Selection] = NoThread
  /\ op = "Get" => found # NoSource
  /\ op = "Select" => found # cl[t].call.src
  /\ lock' = [lock EXCEPT ![Selection] = t]
  /\ cl' = [cl EXCEPT ![t].prev = IF op \in {"Get", "Select"} THEN found ELSE NoSource]
  /\ UNCHANGED <<up, ram, file, told>>

LockSource(t) ==
  /\ cl[t].pc = "lock"
  /\ \E s \in NextLock(Missing(t)) \cap Sources :
       lock[s] = NoThread /\ lock' = [lock EXCEPT ![s] = t]
  /\ UNCHANGED <<up, ram, file, cl, told>>

Locked(t) ==
  /\ cl[t].pc = "lock" /\ Missing(t) = {}
  /\ cl' = [cl EXCEPT ![t].pc = "change"]
  /\ UNCHANGED <<up, ram, file, lock, told>>

\* k_mutex_lock gives up; what was taken is released again.
LockTimeout(t) ==
  /\ Timeouts /\ \E u \in Threads : WaitsFor(t, u)
  /\ Return(t)
  /\ UNCHANGED <<up, ram, file, told>>

\* Seeded fault: a source that is not active may be selected.
UnchangedButInactive(c) ==
  \/ c.op = "Get"
  \/ c.op = "Unselect" /\ ~ ram[c.src].selected
  \/ c.op = "Mute" /\ ram[c.src].mute = c.mute
  \/ c.op = "Volume" /\ ram[c.src].volume = c.volume
  \/ c.op = "Replace" /\ c.new.selected /\ FindSelected(ram) \notin {NoSource, c.src}

\* Seeded fault: a selected record is accepted whatever else is selected.
UnchangedButReplace(c) ==
  \/ c.op = "Get"
  \/ c.op = "Select" /\ ~ ram[c.src].active
  \/ c.op = "Unselect" /\ ~ ram[c.src].selected
  \/ c.op = "Mute" /\ ram[c.src].mute = c.mute
  \/ c.op = "Volume" /\ ram[c.src].volume = c.volume

\* The change is not needed or not allowed, or the call only reads.
Unchanged(c) ==
  \/ c.op = "Get"
  \/ c.op = "Select" /\ ~ ram[c.src].active
  \/ c.op = "Unselect" /\ ~ ram[c.src].selected
  \/ c.op = "Mute" /\ ram[c.src].mute = c.mute
  \/ c.op = "Volume" /\ ram[c.src].volume = c.volume
  \/ c.op = "Replace" /\ c.new.selected /\ FindSelected(ram) \notin {NoSource, c.src}

\* Seeded fault: the return that changes nothing keeps the mutexes.
NoChangeKeeps(t) ==
  /\ cl[t].pc = "change" /\ Unchanged(cl[t].call)
  /\ cl' = [cl EXCEPT ![t] = Idle]
  /\ UNCHANGED <<up, ram, file, lock, told>>

NoChange(t) ==
  /\ cl[t].pc = "change" /\ Unchanged(cl[t].call)
  /\ Return(t)
  /\ UNCHANGED <<up, ram, file, told>>

\* The record after the call.
Changed(c) ==
  CASE c.op = "Select" -> [ram[c.src] EXCEPT !.selected = TRUE]
    [] c.op = "Unselect" -> [ram[c.src] EXCEPT !.selected = FALSE]
    [] c.op = "Mute" -> [ram[c.src] EXCEPT !.mute = c.mute]
    [] c.op = "Volume" -> [ram[c.src] EXCEPT !.volume = c.volume]
    [] OTHER -> c.new

\* The source selected before is unselected first, in RAM and then on the flash.
Drops(t) == cl[t].call.op = "Select" /\ cl[t].prev \in Sources

DropInRam(t) ==
  LET p == cl[t].prev
      r == [ram[p] EXCEPT !.selected = FALSE] IN
  /\ cl[t].pc = "change" /\ ~ Unchanged(cl[t].call) /\ Drops(t)
  /\ ram' = [ram EXCEPT ![p] = r]
  /\ cl' = [cl EXCEPT ![t].pc = "drop", ![t].rec = r, ![t].old = ram[p]]
  /\ UNCHANGED <<up, file, lock, told>>

\* The change in RAM, and the record encoded from it; a record that replaces another
\* reaches RAM only after it is stored.
Store(t) ==
  LET c == cl[t].call
      s == c.src IN
  /\ ram' = IF c.op = "Replace" THEN ram ELSE [ram EXCEPT ![s] = Changed(c)]
  /\ cl' = [cl EXCEPT ![t].pc = "write", ![t].rec = Changed(c), ![t].old = ram[s]]

ChangeInRam(t) ==
  /\ cl[t].pc = "change" /\ ~ Unchanged(cl[t].call) /\ ~ Drops(t)
  /\ Store(t)
  /\ UNCHANGED <<up, file, lock, told>>

Dropped(t) ==
  /\ cl[t].pc = "drop"
  /\ Writes(cl[t].prev, cl[t].rec)
  /\ Store(t)
  /\ UNCHANGED <<up, lock, told>>

\* Seeded fault: the selection goes on when the old source could not be stored.
DropFailsGoesOn(t) ==
  /\ cl[t].pc = "drop"
  /\ Fails(cl[t].prev, cl[t].rec)
  /\ Store(t)
  /\ UNCHANGED <<up, lock, told>>

DropFails(t) ==
  /\ cl[t].pc = "drop"
  /\ Fails(cl[t].prev, cl[t].rec)
  /\ ram' = [ram EXCEPT ![cl[t].prev] = cl[t].old]
  /\ Return(t)
  /\ UNCHANGED <<up, told>>

\* What a caller that is told of success knows to be stored.
Reported(c, before) ==
  CASE c.op = "Mute" -> [before EXCEPT !.mute = c.mute]
    [] c.op = "Volume" -> [before EXCEPT !.volume = c.volume]
    [] c.op = "Replace" -> Stored(c.new)
    [] OTHER -> before

Written(t) ==
  LET c == cl[t].call IN
  /\ cl[t].pc = "write"
  /\ Writes(c.src, cl[t].rec)
  /\ ram' = IF c.op = "Replace" THEN [ram EXCEPT ![c.src] = c.new] ELSE ram
  /\ told' = [told EXCEPT ![c.src] = Reported(c, @)]
  /\ Return(t)
  /\ UNCHANGED up

\* Seeded fault: RAM keeps what could not be stored.
WriteFailsKept(t) ==
  /\ cl[t].pc = "write"
  /\ Fails(cl[t].call.src, cl[t].rec)
  /\ Return(t)
  /\ UNCHANGED <<up, ram, told>>

WriteFails(t) ==
  LET s == cl[t].call.src IN
  /\ cl[t].pc = "write"
  /\ Fails(s, cl[t].rec)
  /\ ram' = [ram EXCEPT ![s] = cl[t].old]
  /\ Return(t)
  /\ UNCHANGED <<up, told>>

-----------------------------------------------------------------------------
(* Loss of power, and start-up. *)

\* A record that is being written is on the flash or not: LittleFS commits a file as a
\* whole.
InFlight(t) ==
  IF cl[t].pc = "drop" THEN [file EXCEPT ![cl[t].prev] = cl[t].rec]
  ELSE IF cl[t].pc = "write" /\ cl[t].rec.named
       THEN [file EXCEPT ![cl[t].call.src] = cl[t].rec]
  ELSE file

PowerLoss ==
  /\ up /\ up' = FALSE
  /\ file' \in {file} \cup {InFlight(t) : t \in Threads}
  /\ ram' = [s \in Sources |-> Blank]
  /\ lock' = [l \in Locks |-> NoThread]
  /\ cl' = [t \in Threads |-> Idle]
  /\ told' = [s \in Sources |-> Stored(file'[s])]

\* bLoad_AudioConfigurations: nothing is loaded unless every record is there and at
\* most one is selected.  No other thread calls before it has returned.
Load ==
  /\ ~ up /\ up' = TRUE
  /\ AtMostOne(file) /\ ram' = file
  /\ UNCHANGED <<file, lock, cl, told>>

LoadRefused ==
  /\ ~ up /\ up' = TRUE
  /\ ReadFaults \/ ~ AtMostOne(file)
  /\ UNCHANGED <<ram, file, lock, cl, told>>

Step(t) ==
  \/ NothingToDo(t) \/ LockSelection(t) \/ LockSource(t) \/ Locked(t)
  \/ LockTimeout(t) \/ NoChange(t) \/ DropInRam(t) \/ ChangeInRam(t)
  \/ Dropped(t) \/ DropFails(t) \/ Written(t) \/ WriteFails(t)

Next ==
  \/ \E t \in Threads : Step(t) \/ \E c \in Calls : Call(t, c)
  \/ PowerLoss \/ Load \/ LoadRefused

AudioSpec == Init /\ [][Next]_audioVars

-----------------------------------------------------------------------------
(* Fairness: a thread in a call goes on; k_mutex_unlock hands a mutex to the thread *)
(* that waits for it, so one that is free again and again is taken in the end.      *)

FairSpec == AudioSpec /\ \A t \in Threads : SF_audioVars(Step(t))
=============================================================================
