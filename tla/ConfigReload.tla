---------------------------- MODULE ConfigReload ----------------------------
(***************************************************************************)
(* How a running gateway follows its configuration file                    *)
(* (gateway/src/config_watcher.rs): a watcher signals changes, and SIGHUP  *)
(* and an administrator's requests ask for a reload.  The file system and  *)
(* its notifications are external.  One file, edited by one hand.          *)
(***************************************************************************)
EXTENDS Naturals

CONSTANTS Version,     \* contents of the file that parse
          Admin,       \* requests to /api/admin/reload
          MaxEdits,    \* bound on the steps of editing
          Default,     \* the configuration without a file
          Torn,        \* a file that is being written
          NoFile       \* no file; what an attempt to load one yields that fails

ASSUME ConfigAssumption ==
    /\ "task" \notin Admin
    /\ Torn \notin Version /\ NoFile \notin Version \cup {Torn, Default}
    /\ MaxEdits \in Nat

VARIABLES file,        \* a version, Torn, or NoFile
          watch,       \* what is watched: the file, its directory, or nothing
          event,       \* whether the file system has an event to deliver
          signal,      \* the watcher's channel, which has room for one message
          hup,         \* whether there has been a SIGHUP that was not received
          reload,      \* what the task and each request are about to do
          current,     \* the configuration behind the lock
          edits,
          unseen,      \* history: whether the last change was not noticed
          crossed      \* history: whether the last reload was stored while another
                       \* one was between reading the file and storing it

confVars == <<file, watch, event, signal, hup, reload, current, edits, unseen, crossed>>
disk == <<file, watch, event, edits, unseen>>

Reloader == Admin \cup {"task"}
Idle == [step |-> "idle"]

\* What Config::load can make of the file; NoFile stands for an error.
Loads(f) ==
    CASE f = NoFile -> {Default}
      [] f = Torn -> {Torn, Default, NoFile}
      [] OTHER -> {f}

\* main keeps the default if it cannot load the file, and starts the task later.
ConfInit ==
    /\ file \in Version \cup {NoFile, Torn}
    /\ current \in Loads(file) \ {NoFile}
    /\ watch = "none" /\ event = FALSE /\ signal = FALSE /\ hup = FALSE
    /\ reload = [r \in Reloader |-> IF r = "task" THEN [step |-> "starting"] ELSE Idle]
    /\ edits = 0 /\ unseen = FALSE /\ crossed = FALSE

-----------------------------------------------------------------------------
\* The watch is put on the file, or on its directory, if that can be found.
Watch ==
    /\ reload["task"].step = "starting"
    /\ watch' \in IF file # NoFile THEN {"file", "none"} ELSE {"directory", "none"}
    /\ reload' = [reload EXCEPT !["task"] = Idle]
    /\ UNCHANGED <<file, event, signal, hup, current, edits, unseen, crossed>>

Edit == edits < MaxEdits /\ edits' = edits + 1

\* Whether a change is noticed.
Noticed(yes) == event' = (event \/ yes) /\ unseen' = ~yes

\* The file is created or emptied, and written.
Truncate ==
    /\ Edit /\ file # Torn /\ file' = Torn
    /\ Noticed(watch # "none")
    /\ UNCHANGED <<watch, signal, hup, reload, current, crossed>>

Fill(v) ==
    /\ Edit /\ file = Torn /\ file' = v
    /\ Noticed(watch # "none")
    /\ UNCHANGED <<watch, signal, hup, reload, current, crossed>>

\* Another file is moved to its place.  A watch of the file goes with the old
\* one, whose end may or may not be noticed.
Replace(v) ==
    /\ Edit /\ file' = v
    /\ \/ /\ watch = "file" /\ watch' = "none"
          /\ \E yes \in BOOLEAN : Noticed(yes)
       \/ /\ watch # "file" /\ UNCHANGED watch
          /\ Noticed(watch = "directory")
    /\ UNCHANGED <<signal, hup, reload, current, crossed>>

\* The end of a file is no change to the watcher, except that a watched file's
\* metadata may be said to have changed.
DeleteFile ==
    /\ Edit /\ file # NoFile /\ file' = NoFile
    /\ watch' = IF watch = "file" THEN "none" ELSE watch
    /\ \E yes \in {FALSE, watch = "file"} : Noticed(yes)
    /\ UNCHANGED <<signal, hup, reload, current, crossed>>

\* The watcher's callback: try_send does nothing if the channel is full.
Signal ==
    /\ event /\ event' = FALSE /\ signal' = TRUE
    /\ UNCHANGED <<file, watch, hup, reload, current, edits, unseen, crossed>>

\* An operator who asks for a reload knows of the change.
HangUp ==
    /\ reload["task"].step # "starting"
    /\ hup' = TRUE /\ unseen' = FALSE
    /\ UNCHANGED <<file, watch, event, signal, reload, current, edits, crossed>>

-----------------------------------------------------------------------------
Wake ==
    /\ reload["task"] = Idle
    /\ \/ signal /\ signal' = FALSE /\ UNCHANGED hup
       \/ hup /\ hup' = FALSE /\ UNCHANGED signal
    /\ reload' = [reload EXCEPT !["task"] = [step |-> "load"]]
    /\ UNCHANGED <<disk, current, crossed>>

Request(a) ==
    /\ reload[a] = Idle
    /\ reload' = [reload EXCEPT ![a] = [step |-> "load"]]
    /\ UNCHANGED <<disk, signal, hup, current, crossed>>

Loaded == { r \in Reloader : reload[r].step = "store" }

Load(r) ==
    /\ reload[r].step = "load"
    /\ \E c \in Loads(file) :
         reload' = IF c = NoFile THEN [reload EXCEPT ![r] = Idle]
                   ELSE [s \in Reloader |->
                           IF s = r THEN [step |-> "store", config |-> c,
                                          alone |-> Loaded = {}]
                           ELSE IF s \in Loaded THEN [reload[s] EXCEPT !.alone = FALSE]
                           ELSE reload[s]]
    /\ UNCHANGED <<disk, signal, hup, current, crossed>>

\* Mutant: what was signalled in the meantime is taken for done.
StoreDraining(r) ==
    /\ reload[r].step = "store"
    /\ current' = reload[r].config
    /\ crossed' = ~reload[r].alone
    /\ reload' = [reload EXCEPT ![r] = Idle]
    /\ signal' = FALSE
    /\ UNCHANGED <<disk, hup>>

\* The lock is there.
Store(r) ==
    /\ reload[r].step = "store"
    /\ current' = reload[r].config
    /\ crossed' = ~reload[r].alone
    /\ reload' = [reload EXCEPT ![r] = Idle]
    /\ UNCHANGED <<disk, signal, hup>>

\* A client that leaves takes its request along.
Leave(a) ==
    /\ reload[a].step \in {"load", "store"}
    /\ reload' = [reload EXCEPT ![a] = Idle]
    /\ UNCHANGED <<disk, signal, hup, current, crossed>>

ConfNext ==
    \/ Watch \/ Truncate \/ DeleteFile \/ Signal \/ HangUp \/ Wake
    \/ \E v \in Version : Fill(v) \/ Replace(v)
    \/ \E r \in Reloader : Load(r) \/ Store(r)
    \/ \E a \in Admin : Request(a) \/ Leave(a)

ConfSpec == ConfInit /\ [][ConfNext]_confVars

-----------------------------------------------------------------------------
Quiet == ~event /\ ~signal /\ ~hup /\ \A r \in Reloader : reload[r] = Idle

(* "The gateway watches its config file for changes and reloads              *)
(* automatically" (README.md:399): once nothing is under way, the gateway    *)
(* has what the file says, however many changes share one message of the     *)
(* channel, and come before, during or after a reload.  Excepted are a       *)
(* change that the watcher does not see, and a reload that was stored while  *)
(* another one (of an administrator, who does not go through the task) had   *)
(* read the file and not stored it.                                          *)
ConfigFollows ==
    Quiet /\ ~unseen /\ ~crossed /\ file # Torn =>
        current = IF file = NoFile THEN Default ELSE file
=============================================================================
