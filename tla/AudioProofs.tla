---------------------------- MODULE AudioProofs -----------------------------
(***************************************************************************)
(* Proofs about the audio-source configuration, for every number of sources *)
(* and threads and every set of operations they call.  What speaks of the   *)
(* flash after a write holds where a write that is reported as failed left  *)
(* the flash unchanged (LateErrors = FALSE).                                *)
(***************************************************************************)
EXTENDS AudioProperties, TLAPS

(***************************************************************************)
(* The invariant: what the place a thread has reached says of the mutexes   *)
(* it holds, of the selection, and of the record in its hands.              *)
(***************************************************************************)

\* Mutexes are taken in ascending order, and all of them before the change.
Locking(t) ==
  /\ \A l \in Locks : lock[l] = t => l \in Needed(cl[t]) /\ cl[t].pc # "idle"
  /\ cl[t].pc = "lock" =>
       \A l, m \in Needed(cl[t]) : lock[l] = t /\ lock[m] # t => l < m
  /\ cl[t].pc \in {"change", "drop", "write"} => \A l \in Needed(cl[t]) : lock[l] = t

\* A source is noted as selected before only under the selection mutex.
Calling(t) ==
  /\ ~ up => cl[t].pc = "idle"
  /\ cl[t].prev # NoSource =>
       /\ lock[Selection] = t
       /\ cl[t].call.op \in {"Get", "Select"}
       /\ cl[t].call.op = "Select" => cl[t].prev # cl[t].call.src
  /\ cl[t].pc = "drop" => cl[t].call.op = "Select" /\ cl[t].prev # NoSource
  /\ cl[t].pc = "write" => cl[t].call.op # "Get"

Lookup(t) ==
  (cl[t].pc \in {"lock", "change"} /\ lock[Selection] = t
     /\ cl[t].call.op \in {"Get", "Select"})
    => cl[t].prev = FindSelected(ram)

\* The record in RAM, the one to be written and the one to restore.
Dropping(t) ==
  cl[t].pc = "drop" =>
    /\ Selected(ram) = {}
    /\ cl[t].old.selected
    /\ cl[t].rec = [cl[t].old EXCEPT !.selected = FALSE]
    /\ ram[cl[t].prev] = cl[t].rec
    /\ ram[cl[t].call.src].active

Writing(t) ==
  cl[t].pc = "write" =>
    LET c == cl[t].call
        rec == cl[t].rec
        old == cl[t].old IN
    /\ c.op = "Select" => /\ ~ old.selected /\ rec = [old EXCEPT !.selected = TRUE]
                          /\ Selected(ram) = {c.src}
    /\ c.op = "Unselect" => /\ old.selected /\ rec = [old EXCEPT !.selected = FALSE]
                            /\ Selected(ram) = {}
    /\ c.op = "Mute" => rec = [old EXCEPT !.mute = c.mute]
    /\ c.op = "Volume" => rec = [old EXCEPT !.volume = c.volume]
    /\ c.op = "Replace" => /\ rec = c.new /\ ram[c.src] = old
                           /\ rec.selected => Selected(ram) \subseteq {c.src}
    /\ c.op # "Replace" => ram[c.src] = rec

ThreadInv(t) == Locking(t) /\ Calling(t) /\ Lookup(t) /\ Dropping(t) /\ Writing(t)

IInv == TypeOK /\ AtMostOne(ram) /\ \A t \in Threads : ThreadInv(t)

\* The flash.
InWrite(t, s) ==
  \/ cl[t].pc = "drop" /\ cl[t].prev = s
  \/ cl[t].pc = "write" /\ cl[t].call.src = s

Matching ==
  \A s \in Sources :
    ram[s].named => ram[s] = file[s] \/ \E t \in Threads : InWrite(t, s)

Restorable(t) ==
  /\ cl[t].pc = "drop" => file[cl[t].prev] = cl[t].old
  /\ cl[t].pc = "write" /\ cl[t].old.named => file[cl[t].call.src] = cl[t].old

ToldTrue == \A s \in Sources : told[s] = Stored(file[s])

FlashInv == Matching /\ ToldTrue /\ \A t \in Threads : Restorable(t)

\* With records that can always be read.
Loaded == IF up THEN \A s \in Sources : ram[s].named ELSE AtMostOne(file)

-----------------------------------------------------------------------------
(* Facts about the operators. *)

LEMMA CallFields ==
  ASSUME NEW c \in Calls
  PROVE  /\ c.op \in Operations
         /\ c.op # "Get" => c.src \in Sources
         /\ c.op = "Mute" => c.mute \in BOOLEAN
         /\ c.op = "Volume" => c.volume \in 0 .. MaxVolume
         /\ c.op = "Replace" => c.new \in Records
BY DEF Calls, Operations

LEMMA ConfigFields ==
  ASSUME NEW r \in Configs
  PROVE  /\ r = [named |-> r.named, active |-> r.active, mute |-> r.mute,
                 selected |-> r.selected, volume |-> r.volume]
         /\ r.named \in BOOLEAN /\ r.mute \in BOOLEAN /\ r.selected \in BOOLEAN
         /\ r.active \in BOOLEAN
         /\ r.volume \in 0 .. MaxVolume
         /\ r.selected => r.active
         /\ r.active => r.named
         /\ r.named => r \in Records
BY DEF Configs, Records, Nameless

LEMMA ConfigUpdates ==
  ASSUME NEW r \in Configs
  PROVE  /\ [r EXCEPT !.selected = FALSE] \in Configs
         /\ r.active => [r EXCEPT !.selected = TRUE] \in Configs
         /\ \A b \in BOOLEAN : [r EXCEPT !.mute = b] \in Configs
         /\ \A v \in 0 .. MaxVolume : [r EXCEPT !.volume = v] \in Configs
BY DEF Configs, Records, Nameless

LEMMA UpdatesKeepName ==
  ASSUME NEW r \in Configs
  PROVE  /\ \A b : [r EXCEPT !.selected = b].named = r.named
         /\ \A b : [r EXCEPT !.mute = b].named = r.named
         /\ \A v : [r EXCEPT !.volume = v].named = r.named
<1> DEFINE R(a, b, c, d, e) ==
             [named |-> a, active |-> b, mute |-> c, selected |-> d, volume |-> e]
<1>1. PICK a, b, c, d, e : r = R(a, b, c, d, e)
  BY ConfigFields
<1> QED
  BY <1>1

LEMMA BlankIsConfig ==
  /\ Blank \in Configs
  /\ ~ Blank.named /\ ~ Blank.selected
BY AudioConstantsAssumption DEF Configs, Records, Nameless, Blank

LEMMA RecordIsConfig == \A r \in Records : r \in Configs /\ r.named
BY DEF Configs, Records

\* At most one is selected, and the search finds it.
LEMMA FindSelectedIs ==
  ASSUME NEW c \in [Sources -> Configs], AtMostOne(c)
  PROVE  \/ FindSelected(c) = NoSource /\ Selected(c) = {}
         \/ FindSelected(c) \in Sources /\ Selected(c) = {FindSelected(c)}
<1>1. CASE Selected(c) = {}
  BY <1>1 DEF FindSelected
<1>2. CASE Selected(c) # {}
  <2>1. PICK s \in Selected(c) : Selected(c) = {s}
    BY <1>2 DEF AtMostOne
  <2>2. s \in Sources /\ s <= s
    BY <2>1, AudioConstantsAssumption DEF Selected, Sources
  <2>3. (CHOOSE r \in Selected(c) : \A u \in Selected(c) : r <= u) = s
    BY <2>1, <2>2
  <2> QED
    BY <1>2, <2>1, <2>2, <2>3 DEF FindSelected
<1> QED
  BY <1>1, <1>2

\* The search looks at nothing else.
LEMMA FindSelectedDepends ==
  ASSUME NEW c, NEW d, Selected(c) = Selected(d)
  PROVE  FindSelected(c) = FindSelected(d)
<1> DEFINE Least(S) == CHOOSE s \in S : \A u \in S : s <= u
<1>1. Least(Selected(c)) = Least(Selected(d))
  <2> HIDE DEF Least
  <2> QED
    OBVIOUS
<1> QED
  BY <1>1 DEF FindSelected

LEMMA SelectedUpdate ==
  ASSUME NEW c \in [Sources -> Configs], NEW s \in Sources, NEW r \in Configs
  PROVE  Selected([c EXCEPT ![s] = r]) =
           IF r.selected THEN Selected(c) \cup {s} ELSE Selected(c) \ {s}
BY DEF Selected

LEMMA NoSourceIsNone == NoSource \notin Sources /\ Selection \notin Sources
BY AudioConstantsAssumption DEF NoSource, Sources, Selection

\* What a call needs.
LEMMA NeededIs ==
  ASSUME NEW k \in Clients
  PROVE  /\ Needed(k) \subseteq Locks
         /\ Selection \in Needed(k) <=> k.call.op \notin {"Mute", "Volume"}
         /\ \A s \in Sources : s \in Needed(k) <=>
              (k.call.op # "Get" /\ s = k.call.src) \/ s = k.prev
<1>1. k.call \in Calls /\ k.prev \in Sources \cup {NoSource}
  BY DEF Clients
<1> QED
  BY <1>1, CallFields, NoSourceIsNone DEF Needed, Locks

LEMMA IdleIsClient == Idle \in Clients
<1>1. [op |-> "Get"] \in Calls
  BY DEF Calls
<1> QED
  BY <1>1, BlankIsConfig DEF Idle, Clients

-----------------------------------------------------------------------------
(* A step of one thread, seen from the others. *)

\* It moves only its own call, gives and takes only its own mutexes, and changes a record
\* or the selection only with the mutex for it.
Frame(t) ==
  /\ up' = up
  /\ \A u \in Threads \ {t} : cl'[u] = cl[u]
  /\ \A u \in Threads \ {t}, l \in Locks : lock'[l] = u <=> lock[l] = u
  /\ \A s \in Sources : ram'[s] # ram[s] => lock[s] = t
  /\ Selected(ram') # Selected(ram) => lock[Selection] = t

LEMMA LockIsLock == Selection \in Locks /\ Sources \subseteq Locks
BY DEF Locks

LEMMA OthersKeep ==
  ASSUME NEW t \in Threads, IInv, Frame(t), NEW u \in Threads, u # t
  PROVE  ThreadInv(u)'
<1> DEFINE k == cl[u]
<1>1. k \in Clients /\ k.call \in Calls /\ ThreadInv(u)
  BY DEF IInv, TypeOK, Clients
<1>2. cl'[u] = k /\ up' = up /\ \A l \in Locks : lock'[l] = u <=> lock[l] = u
  BY DEF Frame
<1>3. Needed(cl[u])' = Needed(cl[u]) /\ Needed(cl[u]) \subseteq Locks
  BY <1>1, <1>2, NeededIs DEF Needed
<1>4. Locking(u)'
  BY <1>1, <1>2, <1>3 DEF ThreadInv, Locking
<1>5. Calling(u)'
  BY <1>1, <1>2, LockIsLock DEF ThreadInv, Calling
<1>6. lock[Selection] = u =>
        Selected(ram') = Selected(ram) /\ FindSelected(ram') = FindSelected(ram)
  BY FindSelectedDepends DEF Frame
<1>7. Lookup(u)'
  BY <1>1, <1>2, <1>6, LockIsLock DEF ThreadInv, Lookup
<1>8. \A s \in Sources : lock[s] = u => ram'[s] = ram[s]
  BY DEF Frame
<1>9. Dropping(u)'
  <2> SUFFICES ASSUME k.pc = "drop"
               PROVE  Dropping(u)'
    BY <1>2 DEF Dropping
  <2>1. /\ lock[Selection] = u /\ k.prev \in Sources /\ lock[k.prev] = u
        /\ k.call.src \in Sources /\ lock[k.call.src] = u
    BY <1>1, NeededIs, CallFields, LockIsLock DEF ThreadInv, Calling, Locking, Clients
  <2> QED
    BY <1>1, <1>2, <1>6, <1>8, <2>1 DEF ThreadInv, Dropping
<1>10. Writing(u)'
  <2> SUFFICES ASSUME k.pc = "write"
               PROVE  Writing(u)'
    BY <1>2 DEF Writing
  <2>1. k.call.op # "Get" /\ k.call.src \in Sources /\ lock[k.call.src] = u
    BY <1>1, NeededIs, CallFields, LockIsLock DEF ThreadInv, Calling, Locking
  <2>2. k.call.op \in {"Select", "Unselect", "Replace"} => lock[Selection] = u
    BY <1>1, NeededIs, LockIsLock DEF ThreadInv, Locking
  <2>3. ram'[k.call.src] = ram[k.call.src]
    BY <1>8, <2>1
  <2> QED
    BY <1>1, <1>2, <1>6, <2>2, <2>3 DEF ThreadInv, Writing
<1> QED
  BY <1>4, <1>5, <1>7, <1>9, <1>10 DEF ThreadInv

\* A call that returns holds nothing.
LEMMA ReturnKeeps ==
  ASSUME NEW t \in Threads, IInv, Return(t), up' = up
  PROVE  /\ lock' \in [Locks -> Threads \cup {NoThread}]
         /\ cl' \in [Threads -> Clients]
         /\ ThreadInv(t)'
         /\ \A u \in Threads \ {t} : cl'[u] = cl[u]
         /\ \A u \in Threads \ {t}, l \in Locks : lock'[l] = u <=> lock[l] = u
<1>1. lock \in [Locks -> Threads \cup {NoThread}] /\ cl \in [Threads -> Clients]
  BY DEF IInv, TypeOK
<1>2. cl'[t] = Idle /\ \A l \in Locks : lock'[l] # t
  BY <1>1, AudioConstantsAssumption DEF Return, Free
<1>3. ThreadInv(t)'
  BY <1>2, LockIsLock DEF ThreadInv, Locking, Calling, Lookup, Dropping, Writing, Idle
<1> QED
  BY <1>1, <1>3, IdleIsClient, AudioConstantsAssumption DEF Return, Free

LEMMA KeepsInvariant ==
  ASSUME NEW t \in Threads, IInv, TypeOK', AtMostOne(ram'), Frame(t), ThreadInv(t)'
  PROVE  IInv'
BY OthersKeep DEF IInv, AtMostOne

\* What the invariant says of the thread that moves.
LEMMA Acting ==
  ASSUME NEW t \in Threads, IInv
  PROVE  /\ cl[t] \in Clients /\ cl[t].call \in Calls
         /\ cl[t].prev \in Sources \cup {NoSource}
         /\ cl[t].rec \in Configs /\ cl[t].old \in Configs
         /\ cl[t].call.op # "Get" => cl[t].call.src \in Sources
         /\ cl[t].pc = "idle" => \A l \in Locks : lock[l] # t
         /\ lock[Selection] # t => cl[t].prev = NoSource
         /\ cl[t].pc \in {"change", "drop", "write"} =>
              /\ cl[t].call.op \notin {"Mute", "Volume"} => lock[Selection] = t
              /\ cl[t].call.op # "Get" => lock[cl[t].call.src] = t
              /\ cl[t].prev # NoSource => lock[cl[t].prev] = t
<1>1. cl[t] \in Clients /\ ThreadInv(t)
  BY DEF IInv, TypeOK
<1> QED
  BY <1>1, NeededIs, CallFields, LockIsLock DEF Clients, ThreadInv, Locking, Calling

\* Before the selection mutex nothing is held.
LEMMA SelectionFirst ==
  ASSUME NEW t \in Threads, IInv, cl[t].pc = "lock",
         cl[t].call.op \notin {"Mute", "Volume"}, lock[Selection] # t
  PROVE  \A l \in Locks : lock[l] # t
<1>1. cl[t] \in Clients /\ Locking(t)
  BY DEF IInv, TypeOK, ThreadInv
<1>2. Selection \in Needed(cl[t])
  BY <1>1, NeededIs
<1>3. \A l \in Locks : ~ (l < Selection)
  BY AudioConstantsAssumption DEF Locks, Sources, Selection
<1> QED
  BY <1>1, <1>2, <1>3 DEF Locking

-----------------------------------------------------------------------------
(* The steps. *)

LEMMA CallKeeps ==
  ASSUME NEW t \in Threads, IInv, NEW c \in Calls, Call(t, c)
  PROVE  IInv' /\ Frame(t)
<1>1. TypeOK /\ ThreadInv(t) /\ cl[t] \in Clients
  BY DEF IInv, TypeOK
<1>2. cl'[t] = [cl[t] EXCEPT !.pc = "lock", !.call = c] /\ cl'[t] \in Clients
  BY <1>1 DEF Call, TypeOK, Clients
<1>3. TypeOK'
  BY <1>1, <1>2 DEF Call, TypeOK
<1>4. Frame(t)
  BY <1>1 DEF Call, Frame, TypeOK
<1>5. cl'[t].pc = "lock" /\ cl'[t].prev = NoSource /\ up' /\ \A l \in Locks : lock'[l] # t
  <2>1. up' = up /\ lock' = lock /\ up /\ cl[t].pc = "idle"
    BY DEF Call
  <2>2. (\A l \in Locks : lock[l] # t) /\ cl[t].prev = NoSource
    BY <2>1, Acting, LockIsLock
  <2>3. cl'[t].pc = "lock" /\ cl'[t].prev = cl[t].prev
    BY <1>1, <1>2 DEF Clients
  <2> QED
    BY <2>1, <2>2, <2>3
<1>6. Needed(cl'[t]) \subseteq Locks
  BY <1>2, NeededIs
<1>7. ThreadInv(t)'
  BY <1>5, <1>6, LockIsLock DEF ThreadInv, Locking, Calling, Lookup, Dropping, Writing
<1> QED
  BY <1>3, <1>4, <1>7, KeepsInvariant DEF Call, IInv

\* Steps that change neither RAM nor files.
LEMMA LockingKeeps ==
  ASSUME NEW t \in Threads, IInv,
         NothingToDo(t) \/ LockSelection(t) \/ LockSource(t) \/ Locked(t)
           \/ LockTimeout(t) \/ NoChange(t)
  PROVE  IInv' /\ Frame(t)
<1> DEFINE k == cl[t]
<1>1. /\ TypeOK /\ AtMostOne(ram) /\ ThreadInv(t)
      /\ lock \in [Locks -> Threads \cup {NoThread}] /\ NoThread \notin Threads
      /\ cl \in [Threads -> Clients] /\ k \in Clients
  BY AudioConstantsAssumption DEF IInv, TypeOK
<1>2. UNCHANGED <<up, ram, file, told>>
  BY DEF NothingToDo, LockSelection, LockSource, Locked, LockTimeout, NoChange
<1>3. CASE NothingToDo(t)
  <2>1. \A l \in Locks : lock[l] # t
    BY <1>1, <1>3, SelectionFirst DEF NothingToDo
  <2>2. cl'[t] = Idle /\ lock' = lock
    BY <1>1, <1>3 DEF NothingToDo
  <2>3. ThreadInv(t)'
    BY <2>1, <2>2, LockIsLock DEF ThreadInv, Locking, Calling, Lookup, Dropping, Writing, Idle
  <2>4. TypeOK' /\ Frame(t)
    BY <1>1, <1>2, <1>3, IdleIsClient DEF NothingToDo, TypeOK, Frame
  <2> QED
    BY <1>1, <1>2, <2>3, <2>4, KeepsInvariant
<1>4. CASE LockSelection(t)
  <2>1. /\ k.pc = "lock" /\ Selection \in Needed(k) /\ lock[Selection] # t
        /\ k.call.op \notin {"Mute", "Volume"}
    BY <1>1, <1>4, NeededIs DEF LockSelection, NextLock, Missing, Held
  <2>2. \A l \in Locks : lock[l] # t
    BY <2>1, SelectionFirst
  <2>3. \A l \in Locks : lock'[l] = t <=> l = Selection
    BY <1>1, <1>4, <2>2, LockIsLock DEF LockSelection
  <2> DEFINE p == IF k.call.op \in {"Get", "Select"} THEN FindSelected(ram) ELSE NoSource
  <2>4. p \in Sources \cup {NoSource}
    BY <1>1, FindSelectedIs DEF TypeOK
  <2>5. cl'[t] = [k EXCEPT !.prev = p] /\ cl'[t] \in Clients
    BY <1>1, <1>4, <2>4 DEF LockSelection, Clients
  <2>6. cl'[t].pc = "lock" /\ cl'[t].call = k.call /\ cl'[t].prev = p
    BY <1>1, <2>1, <2>5 DEF Clients
  <2>7. Selection \in Needed(cl'[t]) /\ Needed(cl'[t]) \subseteq Locks
    BY <2>1, <2>5, <2>6, NeededIs
  <2>8. \A l \in Locks \ {Selection} : Selection < l
    BY AudioConstantsAssumption DEF Locks, Sources, Selection
  <2>9. Locking(t)'
    BY <2>3, <2>6, <2>7, <2>8 DEF Locking
  <2>10. Calling(t)'
    BY <1>1, <1>2, <1>4, <2>3, <2>6, LockIsLock DEF LockSelection, ThreadInv, Calling
  <2>11. ThreadInv(t)'
    BY <1>2, <2>6, <2>9, <2>10 DEF ThreadInv, Lookup, Dropping, Writing
  <2>12. lock' = [lock EXCEPT ![Selection] = t] /\ lock[Selection] = NoThread
    BY <1>4 DEF LockSelection
  <2>13. TypeOK'
    BY <1>1, <1>2, <1>4, <2>5, <2>12, LockIsLock DEF LockSelection, TypeOK
  <2>14. Frame(t)
    BY <1>1, <1>2, <1>4, <2>12 DEF LockSelection, Frame
  <2> QED
    BY <1>1, <1>2, <2>11, <2>13, <2>14, KeepsInvariant
<1>5. CASE LockSource(t)
  <2>1. PICK s \in NextLock(Missing(t)) \cap Sources :
          lock[s] = NoThread /\ lock' = [lock EXCEPT ![s] = t]
    BY <1>5 DEF LockSource
  <2>2. k.pc = "lock" /\ cl' = cl
    BY <1>5 DEF LockSource
  <2>3. /\ s \in Needed(k) /\ s \in Sources /\ s \in Locks /\ s # Selection
        /\ \A m \in Needed(k) : lock[m] # t => s <= m
    BY <2>1, LockIsLock, NoSourceIsNone DEF NextLock, Missing, Held
  <2>4. \A l \in Locks : lock'[l] = t <=> lock[l] = t \/ l = s
    BY <1>1, <2>1, <2>3
  <2>5. Locking(t)'
    <3>1. \A l \in Locks : l \in Nat \/ l = Selection
      BY AudioConstantsAssumption DEF Locks, Sources
    <3>2. \A l, m \in Locks : m # l /\ l <= m => l < m
      BY AudioConstantsAssumption DEF Locks, Sources, Selection
    <3>3. \A l \in Locks : lock'[l] = t => l \in Needed(k) /\ k.pc # "idle"
      BY <1>1, <2>2, <2>3, <2>4 DEF ThreadInv, Locking
    <3>4. ASSUME NEW l \in Needed(k), NEW m \in Needed(k), lock'[l] = t, lock'[m] # t
          PROVE  l < m
      BY <1>1, <2>2, <2>3, <2>4, <3>2, <3>4, NeededIs DEF ThreadInv, Locking
    <3> QED
      BY <2>2, <3>3, <3>4 DEF Locking, Needed
  <2>6. lock'[Selection] = lock[Selection]
    BY <1>1, <2>1, <2>3, LockIsLock
  <2>7. ThreadInv(t)'
    BY <1>1, <1>2, <2>2, <2>5, <2>6 DEF ThreadInv, Calling, Lookup, Dropping, Writing
  <2>8. TypeOK' /\ Frame(t)
    BY <1>1, <1>2, <2>1, <2>2, <2>3 DEF TypeOK, Frame
  <2> QED
    BY <1>1, <1>2, <2>7, <2>8, KeepsInvariant
<1>6. CASE Locked(t)
  <2>1. /\ k.pc = "lock" /\ lock' = lock
        /\ cl' = [cl EXCEPT ![t].pc = "change"]
        /\ \A l \in Needed(k) : lock[l] = t
    BY <1>1, <1>6, NeededIs DEF Locked, Missing, Held
  <2>2. /\ cl'[t] = [k EXCEPT !.pc = "change"] /\ cl'[t] \in Clients
        /\ cl'[t].pc = "change" /\ cl'[t].call = k.call /\ cl'[t].prev = k.prev
    BY <1>1, <2>1 DEF Clients
  <2>3. Needed(cl'[t]) = Needed(k)
    BY <2>2 DEF Needed
  <2>4. Locking(t)'
    BY <1>1, <2>1, <2>2, <2>3 DEF ThreadInv, Locking
  <2>5. ThreadInv(t)'
    BY <1>1, <1>2, <2>1, <2>2, <2>4 DEF ThreadInv, Calling, Lookup, Dropping, Writing
  <2>6. TypeOK' /\ Frame(t)
    BY <1>1, <1>2, <2>1, <2>2 DEF TypeOK, Frame
  <2> QED
    BY <1>1, <1>2, <2>5, <2>6, KeepsInvariant
<1>7. CASE LockTimeout(t) \/ NoChange(t)
  <2>1. Return(t)
    BY <1>7 DEF LockTimeout, NoChange
  <2>2. TypeOK' /\ Frame(t)
    BY <1>1, <1>2, <2>1, ReturnKeeps DEF TypeOK, Frame
  <2> QED
    BY <1>1, <1>2, <2>1, <2>2, ReturnKeeps, KeepsInvariant
<1> QED
  BY <1>3, <1>4, <1>5, <1>6, <1>7

\* What makes a change, and what it makes of a record.
LEMMA ChangedIs ==
  ASSUME NEW t \in Threads, IInv,
         (cl[t].pc = "change" /\ ~ Unchanged(cl[t].call)) \/ cl[t].pc = "drop"
  PROVE  LET c == cl[t].call
             r == ram[c.src]
             n == Changed(c) IN
         /\ c \in Calls /\ c.op \in Operations \ {"Get"} /\ c.src \in Sources
         /\ r \in Configs /\ n \in Configs
         /\ c.op = "Select" => n = [r EXCEPT !.selected = TRUE]
         /\ c.op = "Unselect" => n = [r EXCEPT !.selected = FALSE] /\ r.selected
         /\ c.op = "Mute" => n = [r EXCEPT !.mute = c.mute]
         /\ c.op = "Volume" => n = [r EXCEPT !.volume = c.volume]
         /\ c.op = "Replace" => n = c.new
                /\ (c.new.selected => FindSelected(ram) \in {NoSource, c.src})
<1> DEFINE c == cl[t].call
           r == ram[c.src]
<1>1. ThreadInv(t) /\ c \in Calls
  BY Acting DEF IInv
<1>2. c.op \in Operations \ {"Get"} /\ c.src \in Sources /\ r \in Configs
  BY <1>1, CallFields DEF Unchanged, ThreadInv, Calling, IInv, TypeOK
<1>3. c.op = "Select" => r.active
  BY <1>1 DEF Unchanged, ThreadInv, Dropping
<1>4. c.op # "Select" => ~ Unchanged(c)
  BY <1>1 DEF ThreadInv, Calling
<1>5. CASE c.op = "Select"
  BY <1>1, <1>2, <1>3, <1>5, ConfigUpdates DEF Changed
<1>6. CASE c.op = "Unselect"
  BY <1>1, <1>2, <1>4, <1>6, ConfigUpdates DEF Changed, Unchanged
<1>7. CASE c.op = "Mute"
  BY <1>1, <1>2, <1>7, ConfigUpdates, CallFields DEF Changed
<1>8. CASE c.op = "Volume"
  BY <1>1, <1>2, <1>8, ConfigUpdates, CallFields DEF Changed
<1>9. CASE c.op = "Replace"
  BY <1>1, <1>2, <1>4, <1>9, RecordIsConfig, CallFields DEF Changed, Unchanged
<1> QED
  BY <1>1, <1>2, <1>5, <1>6, <1>7, <1>8, <1>9 DEF Operations

\* The change itself, once nothing else is selected where the call selects.
LEMMA StoreKeeps ==
  ASSUME NEW t \in Threads, IInv, Store(t), UNCHANGED <<up, lock, told>>,
         file' \in [Sources -> Records],
         (cl[t].pc = "change" /\ ~ Unchanged(cl[t].call)) \/ cl[t].pc = "drop",
         cl[t].call.op = "Select" => Selected(ram) = {}
  PROVE  IInv' /\ Frame(t)
<1> DEFINE k == cl[t]
           c == k.call
           s == c.src
           r == ram[s]
           n == Changed(c)
<1>1. /\ TypeOK /\ AtMostOne(ram) /\ ThreadInv(t) /\ k \in Clients
      /\ ram \in [Sources -> Configs] /\ cl \in [Threads -> Clients]
  BY DEF IInv, TypeOK
<1>2. /\ c.op \in Operations \ {"Get"} /\ s \in Sources /\ r \in Configs /\ n \in Configs
      /\ c.op = "Select" => n = [r EXCEPT !.selected = TRUE]
      /\ c.op = "Unselect" => n = [r EXCEPT !.selected = FALSE] /\ r.selected
      /\ c.op = "Mute" => n = [r EXCEPT !.mute = c.mute]
      /\ c.op = "Volume" => n = [r EXCEPT !.volume = c.volume]
      /\ c.op = "Replace" => n = c.new
             /\ (c.new.selected => FindSelected(ram) \in {NoSource, s})
  BY ChangedIs
<1>3. /\ ram' = IF c.op = "Replace" THEN ram ELSE [ram EXCEPT ![s] = n]
      /\ cl' = [cl EXCEPT ![t].pc = "write", ![t].rec = n, ![t].old = r]
  BY DEF Store
<1>4. /\ cl'[t] \in Clients /\ cl'[t].pc = "write" /\ cl'[t].call = c /\ cl'[t].prev = k.prev
      /\ cl'[t].rec = n /\ cl'[t].old = r
  BY <1>1, <1>2, <1>3 DEF Clients
<1>5. lock[s] = t /\ (c.op \in {"Select", "Unselect", "Replace"} => lock[Selection] = t)
  BY <1>2, Acting
<1>6. /\ c.op = "Select" => Selected(ram') = {s} /\ ~ r.selected
      /\ c.op = "Unselect" => Selected(ram') = {}
      /\ c.op \in {"Mute", "Volume", "Replace"} => Selected(ram') = Selected(ram)
  <2>1. r.selected <=> s \in Selected(ram)
    BY <1>2 DEF Selected
  <2>2. r.selected => Selected(ram) = {s}
    BY <1>1, <2>1 DEF AtMostOne
  <2>3. /\ c.op = "Select" => n.selected
        /\ c.op = "Unselect" => ~ n.selected
        /\ c.op \in {"Mute", "Volume"} => n.selected = r.selected
    BY <1>2, ConfigFields
  <2>4. c.op # "Replace" => Selected(ram') =
          IF n.selected THEN Selected(ram) \cup {s} ELSE Selected(ram) \ {s}
    BY <1>1, <1>2, <1>3, SelectedUpdate
  <2> QED
    BY <1>2, <1>3, <2>1, <2>2, <2>3, <2>4
<1>7. AtMostOne(ram')
  BY <1>1, <1>2, <1>6 DEF AtMostOne, Operations
<1>8. Frame(t)
  BY <1>1, <1>2, <1>3, <1>5, <1>6 DEF Frame, Operations
<1>9. TypeOK'
  BY <1>1, <1>2, <1>3, <1>4 DEF TypeOK
<1>10. Locking(t)' /\ Calling(t)'
  <2>1. Needed(cl'[t]) = Needed(k)
    BY <1>4 DEF Needed
  <2> QED
    BY <1>1, <1>2, <1>4, <2>1 DEF ThreadInv, Locking, Calling
<1>11. Writing(t)'
  <2>1. c.op = "Replace" /\ n.selected => Selected(ram) \subseteq {s}
    BY <1>1, <1>2, FindSelectedIs, NoSourceIsNone
  <2>2. c.op # "Replace" => ram'[s] = n
    BY <1>1, <1>2, <1>3
  <2>3. c.op = "Replace" => ram'[s] = r
    BY <1>3
  <2> QED
    BY <1>2, <1>4, <1>6, <2>1, <2>2, <2>3 DEF Writing
<1>12. Lookup(t)' /\ Dropping(t)'
  BY <1>4 DEF Lookup, Dropping
<1> QED
  BY <1>7, <1>8, <1>9, <1>10, <1>11, <1>12, KeepsInvariant DEF ThreadInv

LEMMA WritesRecords ==
  ASSUME NEW s \in Sources, NEW r \in Configs, file \in [Sources -> Records],
         Writes(s, r) \/ Fails(s, r)
  PROVE  file' \in [Sources -> Records]
BY ConfigFields DEF Writes, Fails

LEMMA ChangeKeeps ==
  ASSUME NEW t \in Threads, IInv, DropInRam(t) \/ ChangeInRam(t)
  PROVE  IInv' /\ Frame(t)
<1> DEFINE k == cl[t]
           p == k.prev
<1>1. /\ TypeOK /\ AtMostOne(ram) /\ ThreadInv(t) /\ k \in Clients
      /\ ram \in [Sources -> Configs] /\ cl \in [Threads -> Clients]
      /\ file \in [Sources -> Records]
  BY DEF IInv, TypeOK
<1>2. /\ k.pc = "change" /\ ~ Unchanged(k.call)
      /\ UNCHANGED <<up, file, lock, told>>
  BY DEF DropInRam, ChangeInRam
<1>3. k.call.op = "Select" => p = FindSelected(ram) /\ lock[Selection] = t
  BY <1>1, <1>2, Acting DEF ThreadInv, Lookup
<1>4. CASE ChangeInRam(t)
  <2>1. k.call.op = "Select" => Selected(ram) = {}
    BY <1>1, <1>3, <1>4, FindSelectedIs DEF ChangeInRam, Drops
  <2> QED
    BY <1>1, <1>2, <1>4, <2>1, StoreKeeps DEF ChangeInRam
<1>5. CASE DropInRam(t)
  <2> DEFINE r == [ram[p] EXCEPT !.selected = FALSE]
  <2>1. k.call.op = "Select" /\ p \in Sources
    BY <1>5 DEF DropInRam, Drops
  <2>2. Selected(ram) = {p} /\ ram[p].selected /\ ram[p] \in Configs
    BY <1>1, <1>3, <2>1, FindSelectedIs, NoSourceIsNone DEF Selected
  <2>3. r \in Configs /\ ~ r.selected
    BY <2>2, ConfigUpdates, ConfigFields
  <2>4. /\ ram' = [ram EXCEPT ![p] = r]
        /\ cl' = [cl EXCEPT ![t].pc = "drop", ![t].rec = r, ![t].old = ram[p]]
    BY <1>5 DEF DropInRam
  <2>5. Selected(ram') = {}
    <3>1. Selected(ram') = Selected(ram) \ {p}
      BY <1>1, <2>1, <2>3, <2>4, SelectedUpdate
    <3> QED
      BY <2>2, <3>1
  <2>6. lock[p] = t /\ lock[Selection] = t /\ p # NoSource
    BY <1>2, <1>3, <2>1, Acting, NoSourceIsNone
  <2>7. /\ cl'[t] \in Clients /\ cl'[t].pc = "drop" /\ cl'[t].call = k.call
        /\ cl'[t].prev = p /\ cl'[t].rec = r /\ cl'[t].old = ram[p]
    BY <1>1, <2>2, <2>3, <2>4 DEF Clients
  <2>8. TypeOK' /\ Frame(t) /\ AtMostOne(ram')
    <3>1. TypeOK'
      BY <1>1, <1>2, <2>3, <2>4, <2>7 DEF TypeOK
    <3>2. Frame(t)
      BY <1>1, <1>2, <2>1, <2>4, <2>6 DEF Frame
    <3>3. AtMostOne(ram')
      BY <2>5 DEF AtMostOne
    <3> QED
      BY <3>1, <3>2, <3>3
  <2>9. Locking(t)' /\ Calling(t)'
    <3>1. Needed(cl'[t]) = Needed(k)
      BY <2>7 DEF Needed
    <3> QED
      BY <1>1, <1>2, <2>1, <2>6, <2>7, <3>1 DEF ThreadInv, Locking, Calling
  <2>10. Dropping(t)'
    <3>1. ram'[p] = r /\ ram'[k.call.src] = ram[k.call.src]
      BY <1>1, <2>1, <2>4, <2>6, Acting DEF ThreadInv, Calling
    <3>2. ram[k.call.src].active
      BY <1>2, <2>1 DEF Unchanged
    <3> QED
      BY <2>2, <2>5, <2>7, <3>1, <3>2 DEF Dropping
  <2>11. Lookup(t)' /\ Writing(t)'
    BY <2>7 DEF Lookup, Writing
  <2> QED
    BY <2>8, <2>9, <2>10, <2>11, KeepsInvariant DEF ThreadInv
<1> QED
  BY <1>4, <1>5

LEMMA WriteKeeps ==
  ASSUME NEW t \in Threads, IInv,
         Dropped(t) \/ DropFails(t) \/ Written(t) \/ WriteFails(t)
  PROVE  IInv' /\ Frame(t)
<1> DEFINE k == cl[t]
           c == k.call
           s == c.src
           p == k.prev
<1>1. /\ TypeOK /\ AtMostOne(ram) /\ ThreadInv(t) /\ k \in Clients
      /\ ram \in [Sources -> Configs] /\ cl \in [Threads -> Clients]
      /\ file \in [Sources -> Records]
      /\ k.rec \in Configs /\ k.old \in Configs
  BY Acting DEF IInv, TypeOK
<1>2. CASE Dropped(t)
  <2>1. k.pc = "drop" /\ p \in Sources /\ Selected(ram) = {}
    BY <1>1, <1>2 DEF Dropped, ThreadInv, Calling, Dropping, Clients
  <2>2. file' \in [Sources -> Records]
    BY <1>1, <1>2, <2>1, WritesRecords DEF Dropped
  <2> QED
    BY <1>2, <2>1, <2>2, StoreKeeps DEF Dropped
<1>3. CASE DropFails(t)
  <2>1. /\ k.pc = "drop" /\ p \in Sources /\ Selected(ram) = {} /\ k.old.selected
        /\ lock[p] = t /\ lock[Selection] = t
    BY <1>1, <1>3, Acting DEF DropFails, ThreadInv, Calling, Dropping, Clients
  <2>2. file' \in [Sources -> Records]
    BY <1>1, <1>3, <2>1, WritesRecords DEF DropFails
  <2>3. ram' = [ram EXCEPT ![p] = k.old] /\ Return(t) /\ UNCHANGED <<up, told>>
    BY <1>3 DEF DropFails
  <2>4. Selected(ram') = {p}
    <3>1. Selected(ram') = Selected(ram) \cup {p}
      BY <1>1, <2>1, <2>3, SelectedUpdate
    <3> QED
      BY <2>1, <3>1
  <2>5. TypeOK' /\ Frame(t) /\ AtMostOne(ram') /\ ThreadInv(t)'
    BY <1>1, <2>1, <2>2, <2>3, <2>4, ReturnKeeps DEF TypeOK, Frame, AtMostOne
  <2> QED
    BY <2>5, KeepsInvariant
<1>4. CASE Written(t) \/ WriteFails(t)
  <2>1. /\ k.pc = "write" /\ c.op \in Operations \ {"Get"} /\ s \in Sources /\ lock[s] = t
        /\ c.op \in {"Select", "Unselect", "Replace"} => lock[Selection] = t
        /\ c \in Calls
    BY <1>1, <1>4, Acting, CallFields DEF Written, WriteFails, ThreadInv, Calling
  <2>2. file' \in [Sources -> Records]
    BY <1>1, <1>4, <2>1, WritesRecords DEF Written, WriteFails
  <2>3. Return(t) /\ up' = up
    BY <1>4 DEF Written, WriteFails
  <2>4. CASE Written(t)
    <3>1. ram' = IF c.op = "Replace" THEN [ram EXCEPT ![s] = c.new] ELSE ram
      BY <2>4 DEF Written
    <3>2. c.op = "Replace" => c.new = k.rec /\ (k.rec.selected => Selected(ram) \subseteq {s})
      BY <1>1, <2>1 DEF ThreadInv, Writing
    <3>3. ram' \in [Sources -> Configs] /\ AtMostOne(ram')
      <4>1. CASE c.op = "Replace"
        <5>1. ram' = [ram EXCEPT ![s] = k.rec]
          BY <3>1, <3>2, <4>1
        <5>2. Selected(ram') =
                IF k.rec.selected THEN Selected(ram) \cup {s} ELSE Selected(ram) \ {s}
          BY <1>1, <2>1, <5>1, SelectedUpdate
        <5> QED
          BY <1>1, <3>2, <4>1, <5>1, <5>2 DEF AtMostOne
      <4> QED
        BY <1>1, <3>1, <4>1
    <3>4. Frame(t)
      BY <1>1, <2>1, <2>3, <3>1, <3>3, ReturnKeeps DEF Frame
    <3>5. told' \in [Sources -> [mute : BOOLEAN, volume : 0 .. MaxVolume]]
      <4>1. told' = [told EXCEPT ![s] = Reported(c, told[s])]
        BY <2>4 DEF Written
      <4>2. Reported(c, told[s]) \in [mute : BOOLEAN, volume : 0 .. MaxVolume]
        <5>1. c.op = "Replace" => Stored(c.new) \in [mute : BOOLEAN, volume : 0 .. MaxVolume]
          BY <2>1, CallFields, RecordIsConfig, ConfigFields DEF Stored
        <5>2. told[s] \in [mute : BOOLEAN, volume : 0 .. MaxVolume]
          BY <1>1, <2>1 DEF TypeOK
        <5> QED
          BY <2>1, <5>1, <5>2, CallFields DEF Reported, Operations
      <4> QED
        BY <1>1, <2>1, <4>1, <4>2 DEF TypeOK
    <3> QED
      BY <1>1, <2>2, <2>3, <3>3, <3>4, <3>5, ReturnKeeps, KeepsInvariant DEF TypeOK
  <2>5. CASE WriteFails(t)
    <3>1. ram' = [ram EXCEPT ![s] = k.old] /\ told' = told
      BY <2>5 DEF WriteFails
    <3>2. Selected(ram') = IF k.old.selected THEN Selected(ram) \cup {s} ELSE Selected(ram) \ {s}
      BY <1>1, <2>1, <3>1, SelectedUpdate
    <3>3. s \in Selected(ram) <=> ram[s].selected
      BY <2>1 DEF Selected
    <3>5. /\ AtMostOne(ram')
          /\ c.op \in {"Mute", "Volume"} => Selected(ram') = Selected(ram)
      <4>1. c.op \in {"Mute", "Volume"} => k.old.selected = ram[s].selected
        BY <1>1, <2>1, ConfigFields DEF ThreadInv, Writing
      <4>2. c.op = "Replace" => k.old = ram[s]
        BY <1>1, <2>1 DEF ThreadInv, Writing
      <4>3. c.op \in {"Mute", "Volume", "Replace"} => Selected(ram') = Selected(ram)
        BY <3>2, <3>3, <4>1, <4>2
      <4>4. c.op = "Select" => Selected(ram') = {}
        BY <1>1, <2>1, <3>2 DEF ThreadInv, Writing
      <4>5. c.op = "Unselect" => Selected(ram') = {s}
        BY <1>1, <2>1, <3>2 DEF ThreadInv, Writing
      <4> QED
        BY <1>1, <2>1, <4>3, <4>4, <4>5 DEF AtMostOne, Operations
    <3>6. Frame(t)
      BY <1>1, <2>1, <2>3, <3>1, <3>5, ReturnKeeps DEF Frame, Operations
    <3>7. ram' \in [Sources -> Configs]
      BY <1>1, <2>1, <3>1
    <3> QED
      BY <1>1, <2>2, <2>3, <3>1, <3>5, <3>6, <3>7, ReturnKeeps, KeepsInvariant DEF TypeOK
  <2> QED
    BY <1>4, <2>4, <2>5
<1> QED
  BY <1>2, <1>3, <1>4

-----------------------------------------------------------------------------
(* Start and loss of power. *)

LEMMA FreshThreads ==
  ASSUME cl' = [t \in Threads |-> Idle], lock' = [l \in Locks |-> NoThread]
  PROVE  /\ cl' \in [Threads -> Clients] /\ lock' \in [Locks -> Threads \cup {NoThread}]
         /\ \A t \in Threads : ThreadInv(t)'
<1>1. \A t \in Threads : cl'[t] = Idle /\ \A l \in Locks : lock'[l] # t
  BY AudioConstantsAssumption
<1>2. \A t \in Threads : ThreadInv(t)'
  BY <1>1, LockIsLock DEF ThreadInv, Locking, Calling, Lookup, Dropping, Writing, Idle
<1> QED
  BY <1>2, IdleIsClient

LEMMA StoredType ==
  \A r \in Records : Stored(r) \in [mute : BOOLEAN, volume : 0 .. MaxVolume]
BY RecordIsConfig, ConfigFields DEF Stored

\* A record that is being written can be decoded.
LEMMA InFlightType ==
  ASSUME NEW t \in Threads, IInv
  PROVE  InFlight(t) \in [Sources -> Records]
<1> DEFINE k == cl[t]
<1>1. /\ file \in [Sources -> Records] /\ ThreadInv(t)
      /\ k.rec \in Configs /\ k.old \in Configs /\ k.prev \in Sources \cup {NoSource}
  BY Acting DEF IInv, TypeOK
<1>2. CASE k.pc = "drop"
  <2>1. k.prev \in Sources /\ k.old.selected /\ k.rec = [k.old EXCEPT !.selected = FALSE]
    BY <1>1, <1>2 DEF ThreadInv, Calling, Dropping
  <2>2. k.rec \in Records
    <3>1. k.old.named /\ k.rec.named = k.old.named
      BY <1>1, <2>1, ConfigFields
    <3> QED
      BY <1>1, <3>1, ConfigFields
  <2> QED
    BY <1>1, <1>2, <2>1, <2>2 DEF InFlight
<1>3. CASE k.pc = "write" /\ k.rec.named
  <2>1. k.rec \in Records
    BY <1>1, <1>3, ConfigFields
  <2> QED
    BY <1>1, <1>3, <2>1 DEF InFlight
<1> QED
  BY <1>1, <1>2, <1>3 DEF InFlight

LEMMA BlankIsUnselected ==
  /\ [s \in Sources |-> Blank] \in [Sources -> Configs]
  /\ AtMostOne([s \in Sources |-> Blank])
BY BlankIsConfig DEF AtMostOne, Selected

LEMMA PowerKeeps ==
  ASSUME IInv, PowerLoss
  PROVE  IInv'
<1>1. file' \in [Sources -> Records]
  BY InFlightType DEF PowerLoss, IInv, TypeOK
<1>2. told' \in [Sources -> [mute : BOOLEAN, volume : 0 .. MaxVolume]]
  BY <1>1, StoredType DEF PowerLoss
<1>3. /\ cl' \in [Threads -> Clients] /\ lock' \in [Locks -> Threads \cup {NoThread}]
      /\ \A t \in Threads : ThreadInv(t)'
  BY FreshThreads DEF PowerLoss
<1>4. up' \in BOOLEAN /\ ram' \in [Sources -> Configs] /\ AtMostOne(ram')
  BY BlankIsUnselected DEF PowerLoss
<1>5. TypeOK'
  BY <1>1, <1>2, <1>3, <1>4 DEF TypeOK
<1> QED
  BY <1>3, <1>4, <1>5 DEF IInv, AtMostOne, Selected

LEMMA LoadKeeps ==
  ASSUME IInv, Load \/ LoadRefused
  PROVE  IInv'
<1>1. /\ TypeOK /\ ~ up /\ up' = TRUE /\ UNCHANGED <<file, lock, cl, told>>
      /\ ram' = ram \/ (AtMostOne(file) /\ ram' = file)
  BY DEF Load, LoadRefused, IInv
<1>2. ram' \in [Sources -> Configs] /\ AtMostOne(ram')
  BY <1>1, RecordIsConfig DEF IInv, TypeOK
<1>3. TypeOK'
  BY <1>1, <1>2 DEF TypeOK
<1>4. ASSUME NEW t \in Threads
      PROVE  ThreadInv(t)'
  <2>1. ThreadInv(t) /\ cl[t].pc = "idle" /\ \A l \in Locks : lock[l] # t
    BY <1>1, <1>4, Acting DEF IInv, ThreadInv, Calling
  <2>2. cl'[t] = cl[t] /\ lock' = lock
    BY <1>1
  <2> QED
    BY <1>1, <2>1, <2>2, LockIsLock
       DEF ThreadInv, Locking, Calling, Lookup, Dropping, Writing
<1> QED
  BY <1>2, <1>3, <1>4 DEF IInv, AtMostOne, Selected

LEMMA InitHolds == Init => IInv
<1> SUFFICES ASSUME Init
             PROVE  IInv
  OBVIOUS
<1>1. file \in [Sources -> Records]
  BY DEF Init
<1>2. told \in [Sources -> [mute : BOOLEAN, volume : 0 .. MaxVolume]]
  BY <1>1, StoredType DEF Init
<1>3. \A t \in Threads : cl[t] = Idle /\ \A l \in Locks : lock[l] # t
  BY AudioConstantsAssumption DEF Init
<1>4. \A t \in Threads : ThreadInv(t)
  BY <1>3, LockIsLock DEF ThreadInv, Locking, Calling, Lookup, Dropping, Writing, Idle
<1>5. TypeOK
  BY <1>1, <1>2, IdleIsClient, BlankIsUnselected DEF Init, TypeOK
<1> QED
  BY <1>4, <1>5, BlankIsUnselected DEF Init, IInv

LEMMA StutterKeeps ==
  ASSUME IInv, UNCHANGED audioVars
  PROVE  IInv'
<1>1. UNCHANGED <<up, ram, file, lock, cl, told>>
  BY DEF audioVars
<1>2. TypeOK' /\ AtMostOne(ram') /\ FindSelected(ram') = FindSelected(ram)
  BY <1>1, FindSelectedDepends DEF IInv, TypeOK, AtMostOne, Selected
<1>3. ASSUME NEW t \in Threads
      PROVE  ThreadInv(t)'
  <2>1. Locking(t)' /\ Calling(t)' /\ Lookup(t)'
    BY <1>1, <1>2 DEF IInv, ThreadInv, Locking, Calling, Lookup, Needed
  <2>2. Dropping(t)' /\ Writing(t)'
    BY <1>1 DEF IInv, ThreadInv, Dropping, Writing, Selected
  <2> QED
    BY <2>1, <2>2 DEF ThreadInv
<1> QED
  BY <1>2, <1>3 DEF IInv, AtMostOne, Selected

LEMMA NextKeeps ==
  ASSUME IInv, [Next]_audioVars
  PROVE  IInv'
<1>1. ASSUME NEW t \in Threads, Step(t)
      PROVE  IInv'
  BY <1>1, LockingKeeps, ChangeKeeps, WriteKeeps DEF Step
<1>2. ASSUME NEW t \in Threads, NEW c \in Calls, Call(t, c)
      PROVE  IInv'
  BY <1>2, CallKeeps
<1>3. CASE PowerLoss \/ Load \/ LoadRefused
  BY <1>3, PowerKeeps, LoadKeeps
<1> QED
  BY <1>1, <1>2, <1>3, StutterKeeps DEF Next

\* The invariant holds of every behaviour: what a thread knows of the selection and of the
\* record in its hands stays true while other threads move.
THEOREM Invariance == AudioSpec => []IInv
BY InitHolds, NextKeeps, PTL DEF AudioSpec

-----------------------------------------------------------------------------
(* What follows for every number of sources and threads, with any failures. *)

\* Records, mutexes and calls keep their types: in particular, a source is selected only
\* while it is active.
THEOREM AudioTypeCorrect == AudioSpec => []TypeOK
<1>1. IInv => TypeOK
  BY DEF IInv
<1> QED
  BY <1>1, Invariance, PTL

\* Selections, new records and failures never leave two sources selected in RAM.
THEOREM OneInRam == AudioSpec => []OneSelectedInRam
<1>1. IInv => OneSelectedInRam
  BY DEF IInv, OneSelectedInRam
<1> QED
  BY <1>1, Invariance, PTL

\* The selected source looked up at the begin of a call is still the selected one when all
\* mutexes are taken.
THEOREM LookupStaysCurrent == AudioSpec => []LookupIsCurrent
<1>1. IInv => LookupIsCurrent
  BY DEF IInv, ThreadInv, Lookup, LookupIsCurrent
<1> QED
  BY <1>1, Invariance, PTL

\* A thread that waits for another waits for a lower mutex than the other does: along a
\* chain of waiting threads the mutexes ascend, so that no circle of any length closes.
LEMMA WaitsAscend ==
  ASSUME IInv, NEW t \in Threads, NEW u \in Threads, WaitsFor(t, u),
         NEW l \in NextLock(Missing(t)), lock[l] = u,
         cl[u].pc = "lock", NEW m \in NextLock(Missing(u))
  PROVE  l < m
<1>1. Locking(u) /\ cl[u] \in Clients /\ cl[t] \in Clients
  BY DEF IInv, ThreadInv, TypeOK
<1>2. l \in Locks /\ m \in Needed(cl[u]) /\ lock[m] # u
  BY <1>1, NeededIs DEF NextLock, Missing, Held
<1> QED
  BY <1>1, <1>2 DEF Locking

\* Mutexes are taken in ascending order everywhere: no two threads wait for each other.
THEOREM NoDeadlock == AudioSpec => []NoCircularWait
<1>1. ASSUME IInv, NEW t \in Threads, NEW u \in Threads, WaitsFor(t, u), WaitsFor(u, t)
      PROVE  FALSE
  <2>1. PICK l \in NextLock(Missing(t)) : lock[l] = u
    BY <1>1 DEF WaitsFor
  <2>2. PICK m \in NextLock(Missing(u)) : lock[m] = t
    BY <1>1 DEF WaitsFor
  <2>3. cl[t].pc = "lock" /\ cl[u].pc = "lock"
    BY <1>1 DEF WaitsFor
  <2>4. l < m /\ m < l
    BY <1>1, <2>1, <2>2, <2>3, WaitsAscend
  <2>5. l \in Int /\ m \in Int
    <3>1. cl[t] \in Clients /\ cl[u] \in Clients
      BY <1>1 DEF IInv, TypeOK
    <3>2. l \in Locks /\ m \in Locks
      BY <3>1, NeededIs DEF NextLock, Missing
    <3> QED
      BY <3>2, AudioConstantsAssumption DEF Locks, Sources, Selection
  <2> QED
    BY <2>4, <2>5
<1>2. IInv => NoCircularWait
  BY <1>1 DEF NoCircularWait
<1> QED
  BY <1>2, Invariance, PTL

-----------------------------------------------------------------------------
(* RAM and flash, where a write that fails has changed nothing. *)

LEMMA WriterHolds ==
  ASSUME IInv, NEW t \in Threads, NEW s \in Sources, InWrite(t, s)
  PROVE  lock[s] = t
<1>1. ThreadInv(t)
  BY DEF IInv
<1> QED
  BY <1>1, Acting DEF InWrite, ThreadInv, Calling

\* A source whose mutex is held, but which is not being written, matches its file.
LEMMA OwnMatch ==
  ASSUME IInv, FlashInv, NEW t \in Threads, NEW s \in Sources,
         lock[s] = t, ~ InWrite(t, s), ram[s].named
  PROVE  ram[s] = file[s]
BY WriterHolds DEF FlashInv, Matching

LEMMA FlashKept ==
  ASSUME IInv, FlashInv, NEW t \in Threads, Frame(t), Restorable(t)', ToldTrue',
         \A s \in Sources : file'[s] # file[s] => lock[s] = t,
         \A s \in Sources :
           lock[s] = t /\ ram'[s].named => ram'[s] = file'[s] \/ InWrite(t, s)'
  PROVE  FlashInv'
<1>1. ASSUME NEW u \in Threads, u # t
      PROVE  /\ \A s \in Sources : InWrite(u, s)' <=> InWrite(u, s)
             /\ Restorable(u)'
  <2>1. cl'[u] = cl[u] /\ Restorable(u)
    BY <1>1 DEF Frame, FlashInv
  <2>2. \A s \in Sources : InWrite(u, s) => file'[s] = file[s]
    BY <1>1, WriterHolds
  <2>3. /\ cl[u].pc = "drop" => cl[u].prev \in Sources
        /\ cl[u].pc = "write" => cl[u].call.src \in Sources
    BY <1>1, Acting DEF IInv, ThreadInv, Calling
  <2> QED
    BY <2>1, <2>2, <2>3 DEF InWrite, Restorable
<1>2. ASSUME NEW s \in Sources, ram'[s].named
      PROVE  ram'[s] = file'[s] \/ \E u \in Threads : InWrite(u, s)'
  <2>1. CASE lock[s] = t
    BY <1>2, <2>1
  <2>2. CASE lock[s] # t
    <3>1. ram'[s] = ram[s] /\ file'[s] = file[s]
      BY <2>2 DEF Frame
    <3>2. ram[s] = file[s] \/ \E u \in Threads : InWrite(u, s)
      BY <1>2, <3>1 DEF FlashInv, Matching
    <3>3. \A u \in Threads : InWrite(u, s) => u # t
      BY <2>2, WriterHolds
    <3> QED
      BY <1>1, <3>1, <3>2, <3>3
  <2> QED
    BY <2>1, <2>2
<1> QED
  BY <1>1, <1>2 DEF FlashInv, Matching

\* A step that writes nothing and changes nothing in RAM.
LEMMA QuietKeepsFlash ==
  ASSUME IInv, FlashInv, NEW t \in Threads, Frame(t), UNCHANGED <<ram, file, told>>,
         cl[t].pc \in {"idle", "lock", "change"}, cl'[t].pc \in {"idle", "lock", "change"}
  PROVE  FlashInv'
<1>1. Restorable(t)' /\ ToldTrue'
  BY DEF Restorable, FlashInv, ToldTrue
<1>2. \A s \in Sources : ~ InWrite(t, s)
  BY DEF InWrite
<1>3. \A s \in Sources : lock[s] = t /\ ram'[s].named => ram'[s] = file'[s]
  BY <1>2, OwnMatch
<1> QED
  BY <1>1, <1>3, FlashKept

\* The change in RAM before its write.
LEMMA StoreKeepsFlash ==
  ASSUME IInv, FlashInv, NEW t \in Threads, Store(t), Frame(t), UNCHANGED told,
         (cl[t].pc = "change" /\ ~ Unchanged(cl[t].call)) \/ cl[t].pc = "drop",
         ToldTrue',
         \A s \in Sources : file'[s] # file[s] => cl[t].pc = "drop" /\ s = cl[t].prev,
         cl[t].pc = "drop" => file'[cl[t].prev] = cl[t].rec
  PROVE  FlashInv'
<1> DEFINE k == cl[t]
           c == k.call
           s == c.src
<1>1. /\ k \in Clients /\ ThreadInv(t) /\ Restorable(t)
      /\ ram \in [Sources -> Configs] /\ cl \in [Threads -> Clients]
  BY DEF IInv, TypeOK, FlashInv
<1>2. s \in Sources /\ lock[s] = t
  BY ChangedIs, Acting
<1>3. /\ ram' = IF c.op = "Replace" THEN ram ELSE [ram EXCEPT ![s] = Changed(c)]
      /\ cl'[t] = [k EXCEPT !.pc = "write", !.rec = Changed(c), !.old = ram[s]]
  BY <1>1 DEF Store
<1>4. cl'[t].pc = "write" /\ cl'[t].call = c /\ cl'[t].old = ram[s]
  BY <1>1, <1>3 DEF Clients
<1>5. k.pc = "drop" => k.prev # s /\ k.prev \in Sources /\ lock[k.prev] = t
  BY <1>1, Acting DEF ThreadInv, Calling
<1>6. \A x \in Sources : InWrite(t, x) => k.pc = "drop" /\ x = k.prev
  BY <1>1, <1>2 DEF InWrite
<1>7. Restorable(t)'
  <2>1. ram[s].named => ram[s] = file[s]
    BY <1>2, <1>5, <1>6, OwnMatch
  <2>2. file'[s] = file[s]
    BY <1>2, <1>5
  <2> QED
    BY <1>4, <2>1, <2>2 DEF Restorable
<1>8. ASSUME NEW x \in Sources, lock[x] = t, ram'[x].named
      PROVE  ram'[x] = file'[x] \/ InWrite(t, x)'
  <2>1. CASE x = s
    BY <1>4, <2>1 DEF InWrite
  <2>2. CASE x # s
    <3>1. ram'[x] = ram[x]
      BY <1>1, <1>2, <1>3, <2>2
    <3>2. CASE InWrite(t, x)
      <4>1. k.pc = "drop" /\ x = k.prev
        BY <1>6, <3>2
      <4> QED
        BY <1>1, <3>1, <4>1 DEF ThreadInv, Dropping
    <3>3. CASE ~ InWrite(t, x)
      <4>1. ram[x] = file[x]
        BY <1>8, <3>1, <3>3, OwnMatch
      <4>2. file'[x] = file[x]
        BY <3>3 DEF InWrite
      <4> QED
        BY <3>1, <4>1, <4>2
    <3> QED
      BY <3>2, <3>3
  <2> QED
    BY <2>1, <2>2
<1>9. \A x \in Sources : file'[x] # file[x] => lock[x] = t
  BY <1>5
<1> QED
  BY <1>7, <1>8, <1>9, FlashKept

LEMMA StepKeepsFlash ==
  ASSUME ~ LateErrors, IInv, FlashInv, NEW t \in Threads, Step(t)
  PROVE  FlashInv'
<1> DEFINE k == cl[t]
           c == k.call
           s == c.src
           p == k.prev
<1>1. /\ k \in Clients /\ ThreadInv(t) /\ Restorable(t) /\ ToldTrue
      /\ ram \in [Sources -> Configs] /\ cl \in [Threads -> Clients]
      /\ file \in [Sources -> Records] /\ k.rec \in Configs /\ k.old \in Configs
  BY Acting DEF IInv, TypeOK, FlashInv
<1>2. Frame(t)
  BY LockingKeeps, ChangeKeeps, WriteKeeps DEF Step
<1>3. CASE NothingToDo(t) \/ LockSelection(t) \/ LockSource(t) \/ Locked(t)
             \/ LockTimeout(t) \/ NoChange(t)
  <2>1. UNCHANGED <<ram, file, told>> /\ k.pc \in {"lock", "change"}
    BY <1>3 DEF NothingToDo, LockSelection, LockSource, Locked, LockTimeout, NoChange,
                WaitsFor
  <2>2. cl'[t].pc \in {"idle", "lock", "change"}
    BY <1>1, <1>3, <2>1 DEF NothingToDo, LockSelection, LockSource, Locked, LockTimeout,
                      NoChange, Return, Idle, Clients
  <2> QED
    BY <1>2, <2>1, <2>2, QuietKeepsFlash
<1>4. CASE ChangeInRam(t)
  <2>1. k.pc = "change" /\ ~ Unchanged(c) /\ Store(t) /\ UNCHANGED <<file, told>> /\ ToldTrue'
    BY <1>1, <1>4 DEF ChangeInRam, ToldTrue
  <2> QED
    BY <1>2, <2>1, StoreKeepsFlash
<1>5. CASE DropInRam(t)
  <2>1. /\ k.pc = "change" /\ c.op = "Select" /\ p \in Sources
        /\ UNCHANGED <<file, told>>
        /\ ram' = [ram EXCEPT ![p] = [ram[p] EXCEPT !.selected = FALSE]]
        /\ cl'[t] = [k EXCEPT !.pc = "drop", !.rec = [ram[p] EXCEPT !.selected = FALSE],
                              !.old = ram[p]]
    BY <1>1, <1>5 DEF DropInRam, Drops
  <2>2. cl'[t].pc = "drop" /\ cl'[t].prev = p /\ cl'[t].old = ram[p]
    BY <1>1, <2>1 DEF Clients
  <2>3. \A x \in Sources : ~ InWrite(t, x)
    BY <2>1 DEF InWrite
  <2>4. lock[p] = t /\ ram[p].named
    <3>1. lock[p] = t /\ lock[Selection] = t
      BY <2>1, Acting, NoSourceIsNone
    <3>2. p = FindSelected(ram)
      BY <1>1, <2>1, <3>1 DEF ThreadInv, Lookup
    <3>3. ram[p].selected
      BY <1>1, <2>1, <3>2, FindSelectedIs, NoSourceIsNone DEF IInv, Selected
    <3> QED
      BY <1>1, <2>1, <3>1, <3>3, ConfigFields
  <2>5. ram[p] = file[p]
    BY <2>1, <2>3, <2>4, OwnMatch
  <2>6. Restorable(t)' /\ ToldTrue'
    BY <1>1, <2>1, <2>2, <2>5 DEF Restorable, ToldTrue
  <2>7. ASSUME NEW x \in Sources, lock[x] = t, ram'[x].named
        PROVE  ram'[x] = file'[x] \/ InWrite(t, x)'
    BY <1>1, <2>1, <2>2, <2>3, <2>7, OwnMatch DEF InWrite
  <2> QED
    BY <1>2, <2>1, <2>6, <2>7, FlashKept
<1>6. CASE Dropped(t)
  <2>1. /\ k.pc = "drop" /\ p \in Sources /\ Store(t) /\ UNCHANGED told
        /\ file' = [file EXCEPT ![p] = k.rec]
        /\ k.rec = [k.old EXCEPT !.selected = FALSE] /\ file[p] = k.old
    BY <1>1, <1>6 DEF Dropped, Writes, ThreadInv, Calling, Dropping, Restorable, Clients
  <2>2. Stored(k.rec) = Stored(k.old)
    BY <1>1, <2>1, ConfigFields DEF Stored
  <2>3. ToldTrue'
    BY <1>1, <2>1, <2>2 DEF ToldTrue
  <2>4. file'[p] = k.rec /\ \A x \in Sources : file'[x] # file[x] => x = p
    BY <1>1, <2>1
  <2> QED
    BY <1>2, <2>1, <2>3, <2>4, StoreKeepsFlash
<1>7. CASE DropFails(t)
  <2>1. /\ k.pc = "drop" /\ p \in Sources /\ UNCHANGED <<file, told>>
        /\ ram' = [ram EXCEPT ![p] = k.old] /\ cl'[t].pc = "idle" /\ file[p] = k.old
    BY <1>1, <1>7 DEF DropFails, Fails, Return, Idle, ThreadInv, Calling, Restorable, Clients
  <2>2. Restorable(t)' /\ ToldTrue'
    BY <1>1, <2>1 DEF Restorable, ToldTrue
  <2>3. \A x \in Sources : InWrite(t, x) => x = p
    BY <2>1 DEF InWrite
  <2>4. ASSUME NEW x \in Sources, lock[x] = t, ram'[x].named
        PROVE  ram'[x] = file'[x]
    BY <1>1, <2>1, <2>3, <2>4, OwnMatch
  <2> QED
    BY <1>2, <2>1, <2>2, <2>4, FlashKept
<1>8. CASE Written(t) \/ WriteFails(t)
  <2>1. /\ k.pc = "write" /\ c \in Calls /\ c.op \in Operations \ {"Get"} /\ s \in Sources
        /\ lock[s] = t /\ cl'[t].pc = "idle"
    BY <1>1, <1>8, Acting, CallFields
       DEF Written, WriteFails, Return, Idle, ThreadInv, Calling
  <2>2. Restorable(t)'
    BY <2>1 DEF Restorable
  <2>3. \A x \in Sources : InWrite(t, x) => x = s
    BY <2>1 DEF InWrite
  <2>4. k.old.named => file[s] = k.old
    BY <1>1, <2>1 DEF Restorable
  <2>5. CASE WriteFails(t)
    <3>1. UNCHANGED <<file, told>> /\ ram' = [ram EXCEPT ![s] = k.old]
      BY <2>5 DEF WriteFails, Fails
    <3>2. ToldTrue'
      BY <1>1, <3>1 DEF ToldTrue
    <3>3. ASSUME NEW x \in Sources, lock[x] = t, ram'[x].named
          PROVE  ram'[x] = file'[x]
      BY <1>1, <2>1, <2>3, <2>4, <3>1, <3>3, OwnMatch
    <3> QED
      BY <1>2, <2>2, <3>1, <3>2, <3>3, FlashKept
  <2>6. CASE Written(t)
    <3>1. /\ k.rec.named /\ file' = [file EXCEPT ![s] = k.rec]
          /\ ram' = IF c.op = "Replace" THEN [ram EXCEPT ![s] = c.new] ELSE ram
          /\ told' = [told EXCEPT ![s] = Reported(c, told[s])]
      BY <2>6 DEF Written, Writes
    <3>2. /\ c.op = "Replace" => k.rec = c.new
          /\ c.op # "Replace" => ram[s] = k.rec
          /\ c.op = "Select" => k.rec = [k.old EXCEPT !.selected = TRUE]
          /\ c.op = "Unselect" => k.rec = [k.old EXCEPT !.selected = FALSE]
          /\ c.op = "Mute" => k.rec = [k.old EXCEPT !.mute = c.mute]
          /\ c.op = "Volume" => k.rec = [k.old EXCEPT !.volume = c.volume]
      BY <1>1, <2>1 DEF ThreadInv, Writing
    <3>3. Reported(c, told[s]) = Stored(k.rec)
      <4>1. CASE c.op = "Replace"
        BY <3>2, <4>1 DEF Reported
      <4>2. CASE c.op # "Replace"
        <5>1. k.old.named
          BY <1>1, <2>1, <3>1, <3>2, <4>2, ConfigFields DEF Operations
        <5>2. told[s] = [mute |-> k.old.mute, volume |-> k.old.volume]
          BY <1>1, <2>1, <2>4, <5>1 DEF ToldTrue, Stored
        <5> QED
          BY <1>1, <2>1, <3>2, <4>2, <5>2, ConfigFields DEF Reported, Stored, Operations
      <4> QED
        BY <4>1, <4>2
    <3>4. told \in [Sources -> [mute : BOOLEAN, volume : 0 .. MaxVolume]]
      BY DEF IInv, TypeOK
    <3>5. ToldTrue'
      BY <1>1, <2>1, <3>1, <3>3, <3>4 DEF ToldTrue
    <3>6. ASSUME NEW x \in Sources, lock[x] = t, ram'[x].named
          PROVE  ram'[x] = file'[x]
      BY <1>1, <2>1, <2>3, <3>1, <3>2, <3>6, OwnMatch
    <3>7. \A x \in Sources : file'[x] # file[x] => lock[x] = t
      BY <1>1, <2>1, <3>1
    <3> QED
      BY <1>2, <2>2, <3>5, <3>6, <3>7, FlashKept
  <2> QED
    BY <1>8, <2>5, <2>6
<1> QED
  BY <1>3, <1>4, <1>5, <1>6, <1>7, <1>8 DEF Step

LEMMA NextKeepsFlash ==
  ASSUME ~ LateErrors, IInv, FlashInv, [Next]_audioVars
  PROVE  FlashInv'
<1>1. ASSUME NEW t \in Threads, NEW c \in Calls, Call(t, c)
      PROVE  FlashInv'
  <2>1. cl[t].pc = "idle" /\ UNCHANGED <<ram, file, told>> /\ cl'[t].pc = "lock"
    BY <1>1 DEF Call, IInv, TypeOK, Clients
  <2> QED
    BY <1>1, <2>1, CallKeeps, QuietKeepsFlash
<1>2. CASE PowerLoss
  <2>1. \A s \in Sources : ~ ram'[s].named /\ told'[s] = Stored(file'[s])
    BY <1>2, BlankIsConfig DEF PowerLoss
  <2>2. \A t \in Threads : Restorable(t)'
    BY <1>2 DEF PowerLoss, Restorable, Idle
  <2> QED
    BY <2>1, <2>2 DEF FlashInv, Matching, ToldTrue
<1>3. CASE Load \/ LoadRefused
  <2>1. /\ ~ up /\ UNCHANGED <<file, cl, told>>
        /\ ram' = ram \/ ram' = file
    BY <1>3 DEF Load, LoadRefused
  <2>2. \A t \in Threads : cl[t].pc = "idle"
    BY <2>1 DEF IInv, ThreadInv, Calling
  <2>3. \A t \in Threads, s \in Sources : ~ InWrite(t, s)
    BY <2>2 DEF InWrite
  <2>4. \A s \in Sources : ram'[s].named => ram'[s] = file'[s]
    BY <2>1, <2>3 DEF FlashInv, Matching
  <2>5. \A t \in Threads : Restorable(t)'
    BY <2>1, <2>2 DEF Restorable
  <2> QED
    BY <2>1, <2>4, <2>5 DEF FlashInv, Matching, ToldTrue
<1>4. CASE UNCHANGED audioVars
  BY <1>4 DEF audioVars, FlashInv, Matching, ToldTrue, Restorable, InWrite
<1> QED
  BY <1>1, <1>2, <1>3, <1>4, StepKeepsFlash DEF Next

LEMMA FlashInvariance ==
  ASSUME ~ LateErrors
  PROVE  AudioSpec => []FlashInv
<1>1. Init => FlashInv
  BY BlankIsConfig DEF Init, FlashInv, Matching, ToldTrue, Restorable, Idle
<1>2. IInv /\ FlashInv /\ [Next]_audioVars => FlashInv'
  BY NextKeepsFlash
<1> QED
  BY <1>1, <1>2, Invariance, PTL DEF AudioSpec

\* Where a failing write has changed nothing: a source nobody works on has the same record
\* in RAM and on the flash.
THEOREM FlashFollowsRam ==
  ASSUME ~ LateErrors
  PROVE  AudioSpec => []RamMatchesFlash
<1>1. IInv /\ FlashInv => RamMatchesFlash
  BY WriterHolds, AudioConstantsAssumption DEF FlashInv, Matching, RamMatchesFlash
<1> QED
  BY <1>1, Invariance, FlashInvariance, PTL

\* Where a failing write has changed nothing: what callers were last told is stored is on
\* the flash, whatever the other threads save at the same time.
THEOREM NothingSavedIsLost ==
  ASSUME ~ LateErrors
  PROVE  AudioSpec => []SavedIsKept
<1>1. FlashInv => SavedIsKept
  BY DEF FlashInv, ToldTrue, SavedIsKept
<1> QED
  BY <1>1, FlashInvariance, PTL

-----------------------------------------------------------------------------
(* At most one selected record on the flash, where records can be read as well. *)

\* File and RAM differ on a selection only at the source a selecting call is writing.
LEMMA SelectionDiffers ==
  ASSUME IInv, FlashInv, NEW s \in Sources, ram[s].named,
         file[s].selected # ram[s].selected
  PROVE  \E t \in Threads :
           /\ lock[Selection] = t
           /\ \/ cl[t].pc = "drop" /\ cl[t].prev = s
              \/ /\ cl[t].pc = "write" /\ cl[t].call.op \in {"Select", "Unselect"}
                 /\ cl[t].call.src = s /\ file[s] = cl[t].old
<1>1. PICK t \in Threads : InWrite(t, s)
  BY DEF FlashInv, Matching
<1>2. /\ ThreadInv(t) /\ Restorable(t) /\ cl[t].old \in Configs /\ cl[t].rec \in Configs
      /\ cl[t].call \in Calls
  BY Acting DEF IInv, FlashInv
<1>3. CASE cl[t].pc = "drop"
  BY <1>1, <1>2, <1>3 DEF InWrite, ThreadInv, Calling
<1>4. CASE cl[t].pc = "write"
  <2>1. cl[t].call.src = s /\ cl[t].call.op \in Operations \ {"Get"}
    BY <1>1, <1>2, <1>4, CallFields DEF InWrite, ThreadInv, Calling
  <2>2. cl[t].old.named
    BY <1>2, <1>4, <2>1, ConfigFields DEF ThreadInv, Writing, Operations
  <2>3. file[s] = cl[t].old
    BY <1>2, <1>4, <2>1, <2>2 DEF Restorable
  <2>4. cl[t].call.op \notin {"Mute", "Volume"}
    BY <1>2, <1>4, <2>1, <2>3, ConfigFields DEF ThreadInv, Writing
  <2>5. cl[t].call.op # "Replace"
    BY <1>2, <1>4, <2>1, <2>3 DEF ThreadInv, Writing
  <2> QED
    BY <1>4, <2>1, <2>3, <2>4, <2>5, Acting DEF Operations
<1> QED
  BY <1>1, <1>3, <1>4 DEF InWrite

LEMMA OneOnFlash ==
  ASSUME IInv, FlashInv, \A s \in Sources : ram[s].named
  PROVE  AtMostOne(file)
<1>1. ASSUME NEW a \in Selected(file), NEW b \in Selected(file), a \notin Selected(ram)
      PROVE  a = b
  <2>1. /\ a \in Sources /\ b \in Sources /\ file[a].selected /\ file[b].selected
        /\ ~ ram[a].selected
        /\ file \in [Sources -> Records] /\ ram \in [Sources -> Configs]
    BY <1>1 DEF Selected, IInv, TypeOK
  <2>2. PICK t \in Threads :
           /\ lock[Selection] = t
           /\ \/ cl[t].pc = "drop" /\ cl[t].prev = a
              \/ /\ cl[t].pc = "write" /\ cl[t].call.op \in {"Select", "Unselect"}
                 /\ cl[t].call.src = a /\ file[a] = cl[t].old
    BY <2>1, SelectionDiffers
  <2>3. Selected(ram) = {}
    BY <2>1, <2>2 DEF IInv, ThreadInv, Dropping, Writing
  <2>4. ~ ram[b].selected
    BY <2>1, <2>3 DEF Selected
  <2> QED
    BY <2>1, <2>2, <2>4, SelectionDiffers
<1> QED
  BY <1>1 DEF AtMostOne, IInv

LEMMA OneInFlight ==
  ASSUME IInv, FlashInv, \A s \in Sources : ram[s].named, NEW t \in Threads
  PROVE  AtMostOne(InFlight(t))
<1> DEFINE k == cl[t]
           c == k.call
           s == c.src
<1>1. /\ AtMostOne(file) /\ ThreadInv(t) /\ Restorable(t)
      /\ k.rec \in Configs /\ k.old \in Configs /\ c \in Calls
      /\ file \in [Sources -> Records] /\ ram \in [Sources -> Configs]
  BY OneOnFlash, Acting DEF IInv, FlashInv, TypeOK
<1>2. file \in [Sources -> Configs]
  BY <1>1, RecordIsConfig
<1>3. CASE k.pc = "drop"
  <2>1. k.prev \in Sources /\ ~ k.rec.selected
    BY <1>1, <1>3, Acting, ConfigFields DEF ThreadInv, Calling, Dropping
  <2>2. Selected(InFlight(t)) = Selected(file) \ {k.prev}
    BY <1>1, <1>2, <1>3, <2>1, SelectedUpdate DEF InFlight
  <2> QED
    BY <1>1, <2>2 DEF AtMostOne
<1>4. CASE k.pc = "write" /\ k.rec.named
  <2>1. s \in Sources /\ c.op \in Operations \ {"Get"}
    BY <1>1, <1>4, CallFields DEF ThreadInv, Calling
  <2>2. Selected(InFlight(t)) =
          IF k.rec.selected THEN Selected(file) \cup {s} ELSE Selected(file) \ {s}
    BY <1>1, <1>2, <1>4, <2>1, SelectedUpdate DEF InFlight
  <2>3. ASSUME k.rec.selected, NEW b \in Selected(file), b # s
        PROVE  FALSE
    <3>1. b \in Sources /\ file[b].selected /\ file[b] \in Records
      BY <1>1, <2>3 DEF Selected
    <3>2. CASE c.op \in {"Mute", "Volume"}
      <4>1. k.old.selected /\ k.old.named
        BY <1>1, <1>4, <2>3, <3>2, ConfigFields DEF ThreadInv, Writing
      <4>2. s \in Selected(file)
        BY <1>1, <1>4, <2>1, <4>1 DEF Restorable, Selected
      <4> QED
        BY <1>1, <2>3, <4>2 DEF AtMostOne
    <3>3. CASE c.op \in {"Select", "Unselect", "Replace"}
      <4>1. Selected(ram) \subseteq {s}
        BY <1>1, <1>4, <2>3, <3>3 DEF ThreadInv, Writing
      <4>2. ~ ram[b].selected
        BY <2>3, <3>1, <4>1 DEF Selected
      <4>3. lock[Selection] = t
        BY <1>4, <3>3, Acting
      <4> QED
        BY <1>1, <1>4, <2>3, <3>1, <4>2, <4>3, SelectionDiffers
    <3> QED
      BY <2>1, <3>2, <3>3 DEF Operations
  <2> QED
    BY <1>1, <2>2, <2>3 DEF AtMostOne
<1> QED
  BY <1>1, <1>3, <1>4 DEF InFlight

LEMMA NamesStay ==
  ASSUME IInv, NEW t \in Threads, Step(t), \A s \in Sources : ram[s].named
  PROVE  \A s \in Sources : ram'[s].named
<1> DEFINE k == cl[t]
           c == k.call
           s == c.src
<1>1. /\ ThreadInv(t) /\ ram \in [Sources -> Configs]
      /\ k.rec \in Configs /\ k.old \in Configs /\ c \in Calls
  BY Acting DEF IInv, TypeOK
<1>2. CASE NothingToDo(t) \/ LockSelection(t) \/ LockSource(t) \/ Locked(t)
             \/ LockTimeout(t) \/ NoChange(t)
  BY <1>2 DEF NothingToDo, LockSelection, LockSource, Locked, LockTimeout, NoChange
<1>3. CASE DropInRam(t)
  BY <1>1, <1>3, ConfigFields DEF DropInRam, Drops
<1>4. CASE ChangeInRam(t) \/ Dropped(t)
  <2>1. Store(t) /\ ((k.pc = "change" /\ ~ Unchanged(c)) \/ k.pc = "drop")
    BY <1>4 DEF ChangeInRam, Dropped
  <2>2. s \in Sources /\ (c.op # "Replace" => Changed(c).named)
    <3> DEFINE r == ram[s]
               n == Changed(c)
    <3>1. /\ s \in Sources /\ c.op \in Operations \ {"Get"} /\ r \in Configs
          /\ c.op = "Select" => n = [r EXCEPT !.selected = TRUE]
          /\ c.op = "Unselect" => n = [r EXCEPT !.selected = FALSE]
          /\ c.op = "Mute" => n = [r EXCEPT !.mute = c.mute]
          /\ c.op = "Volume" => n = [r EXCEPT !.volume = c.volume]
      BY <2>1, ChangedIs
    <3>2. r.named
      BY <3>1
    <3> HIDE DEF r, n
    <3>3. [r EXCEPT !.selected = TRUE].named
      BY <3>1, <3>2, UpdatesKeepName
    <3>4. [r EXCEPT !.selected = FALSE].named
      BY <3>1, <3>2, UpdatesKeepName
    <3>5. [r EXCEPT !.mute = c.mute].named
      BY <3>1, <3>2, UpdatesKeepName
    <3>6. [r EXCEPT !.volume = c.volume].named
      BY <3>1, <3>2, UpdatesKeepName
    <3>7. c.op # "Replace" => n.named
      BY <3>1, <3>3, <3>4, <3>5, <3>6 DEF Operations
    <3> QED
      BY <3>1, <3>7 DEF n
  <2> QED
    BY <1>1, <2>1, <2>2 DEF Store
<1>5. CASE DropFails(t)
  <2>1. k.old.named
    BY <1>1, <1>5, ConfigFields DEF DropFails, ThreadInv, Dropping
  <2> QED
    BY <1>1, <1>5, <2>1 DEF DropFails
<1>6. CASE Written(t)
  <2>1. c.op = "Replace" => c.new.named
    BY <1>1, CallFields, RecordIsConfig
  <2> QED
    BY <1>1, <1>6, <2>1 DEF Written
<1>7. CASE WriteFails(t)
  <2>1. s \in Sources /\ c.op \in Operations \ {"Get"} /\ k.pc = "write"
    BY <1>1, <1>7, CallFields DEF WriteFails, ThreadInv, Calling
  <2>2. k.old.named
    BY <1>1, <2>1, ConfigFields DEF ThreadInv, Writing, Operations
  <2> QED
    BY <1>1, <1>7, <2>2 DEF WriteFails
<1> QED
  BY <1>2, <1>3, <1>4, <1>5, <1>6, <1>7 DEF Step

\* Where a failing write has changed nothing and records can be read: no loss of power
\* leaves two selected records for the next start-up.
THEOREM StartupCanLoad ==
  ASSUME ~ LateErrors, ~ ReadFaults
  PROVE  AudioSpec => []OneSelectedOnFlash
<1>1. Init => Loaded
  BY DEF Init, Loaded
<1>2. ASSUME IInv, FlashInv, Loaded, [Next]_audioVars
      PROVE  Loaded'
  <2>1. ASSUME NEW t \in Threads, Step(t)
        PROVE  Loaded'
    <3>1. up /\ up' = up
      <4>1. up' = up
        BY <1>2, <2>1, LockingKeeps, ChangeKeeps, WriteKeeps DEF Step, Frame
      <4>2. cl[t].pc # "idle"
        BY <2>1 DEF Step, NothingToDo, LockSelection, LockSource, Locked, LockTimeout,
                    WaitsFor, NoChange, DropInRam, ChangeInRam, Dropped, DropFails,
                    Written, WriteFails
      <4> QED
        BY <1>2, <4>1, <4>2 DEF IInv, ThreadInv, Calling
    <3> QED
      BY <1>2, <2>1, <3>1, NamesStay DEF Loaded
  <2>2. CASE PowerLoss
    <3>1. up /\ \A s \in Sources : ram[s].named
      BY <1>2, <2>2 DEF PowerLoss, Loaded
    <3>2. AtMostOne(file) /\ \A t \in Threads : AtMostOne(InFlight(t))
      BY <1>2, <3>1, OneOnFlash, OneInFlight
    <3>3. AtMostOne(file')
      BY <2>2, <3>2 DEF PowerLoss
    <3> QED
      BY <2>2, <3>3 DEF PowerLoss, Loaded, AtMostOne, Selected
  <2>3. CASE Load \/ LoadRefused
    <3>1. up' = TRUE /\ ram' = file
      BY <1>2, <2>3 DEF Load, LoadRefused, Loaded
    <3> QED
      BY <1>2, <3>1, RecordIsConfig DEF Loaded, IInv, TypeOK
  <2>4. CASE (\E t \in Threads : \E c \in Calls : Call(t, c)) \/ UNCHANGED audioVars
    <3>1. up' = up /\ ram' = ram /\ file' = file
      BY <2>4 DEF Call, audioVars
    <3> QED
      BY <1>2, <3>1 DEF Loaded, AtMostOne, Selected
  <2> QED
    BY <1>2, <2>1, <2>2, <2>3, <2>4 DEF Next
<1>3. IInv /\ FlashInv /\ Loaded => OneSelectedOnFlash
  BY OneOnFlash DEF Loaded, OneSelectedOnFlash
<1> QED
  BY <1>1, <1>2, <1>3, Invariance, FlashInvariance, PTL DEF AudioSpec

=============================================================================
