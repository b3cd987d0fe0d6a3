-------------------------- MODULE AudioProperties ---------------------------
(***************************************************************************)
(* What the audio-source configuration has to guarantee to its callers and  *)
(* to the next start-up.                                                    *)
(***************************************************************************)
EXTENDS AudioSources

\* A source that is not loaded: mute state and volume may be set for the time of a write
\* that cannot succeed.
Nameless == [named : {FALSE}, active : {FALSE}, mute : BOOLEAN, selected : {FALSE},
             volume : 0 .. MaxVolume]
Configs == Records \cup Nameless
Clients == [pc : {"idle", "lock", "change", "drop", "write"}, call : Calls,
            prev : Sources \cup {NoSource}, rec : Configs, old : Configs]

\* RAM and files hold nothing a start-up would not accept: in particular, a source is
\* selected only while it is active, whatever replaced its record meanwhile.
TypeOK ==
  /\ up \in BOOLEAN
  /\ ram \in [Sources -> Configs]
  /\ file \in [Sources -> Records]
  /\ lock \in [Locks -> Threads \cup {NoThread}]
  /\ cl \in [Threads -> Clients]
  /\ told \in [Sources -> [mute : BOOLEAN, volume : 0 .. MaxVolume]]

\* Two selections, or a selection and a new record, never leave two sources selected
\* in RAM, whatever fails in between.
OneSelectedInRam == AtMostOne(ram)

\* No loss of power leaves two selected records for the next start-up to find, which
\* would then load none of them.
OneSelectedOnFlash == AtMostOne(file)

\* A source nobody is working on has the same record in RAM and on the flash: failed
\* writes were taken back, and nothing was stored that RAM does not know.
RamMatchesFlash ==
  \A s \in Sources : (lock[s] = NoThread /\ ram[s].named) => ram[s] = file[s]

\* The mute state and the volume of a source nobody is working on are on the flash as
\* their callers were last told: a concurrent save of the other field, a selection or
\* a failure does not bring an old value back.
SavedIsKept ==
  \A s \in Sources : lock[s] = NoThread => Stored(file[s]) = told[s]

\* The selected source a call looked up is still the selected one when it acts on it.
LookupIsCurrent ==
  \A t \in Threads :
    (cl[t].pc \in {"lock", "change"} /\ lock[Selection] = t
       /\ cl[t].call.op \in {"Get", "Select"})
      => cl[t].prev = FindSelected(ram)

\* No two threads wait for each other's mutexes.
NoCircularWait == \A t, u \in Threads : ~ (WaitsFor(t, u) /\ WaitsFor(u, t))

\* Every call returns, also when no mutex is ever waited for in vain.
CallsReturn == \A t \in Threads : cl[t].pc # "idle" ~> cl[t].pc = "idle"

\* "If power is lost between the two writes, startup can observe zero selected
\* sources, never two" (AudioSrcConfiguration.c:338-339).
StartupSeesAtMostOne == ~ up => AtMostOne(file)
=============================================================================
