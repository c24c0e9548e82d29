-------------------------------- MODULE Setup --------------------------------
(***************************************************************************)
(* `jb setup` of orchestrator/main.py: the registration of the MCP server  *)
(* in the configuration of Claude Code, by commands of the claude CLI.     *)
(*                                                                         *)
(* A call asks for the registration, compares it, removes it and adds a    *)
(* new one, in up to three commands that may each fail or run out of time. *)
(* What the commands do is external: `add` refuses a name that is taken,   *)
(* `remove` one that is not there.                                         *)
(***************************************************************************)
CONSTANTS
    Calls,      \* calls of jb setup and jb setup --unregister
    Paths,      \* where jb may be installed
    Occurs,     \* which path is part of what is printed for a registration with which
    Keys,       \* values of OPENROUTER_API_KEY that are not empty
    Unset,      \* the variable is not set; a registration without a key
    Empty       \* the variable is set to nothing

ASSUME KeysAssumption  == Unset # Empty /\ {Unset, Empty} \cap Keys = {}
ASSUME PathsAssumption == "none" \notin Paths

\* A registration is printed with its path, of which another path may be a part, like
\* /bin/jb of /usr/bin/jb.
ASSUME OccursAssumption ==
    /\ Occurs \subseteq Paths \X Paths
    /\ \A p \in Paths : <<p, p>> \in Occurs

VARIABLES
    config,     \* the registration of jibuff
    call,       \* what each call is doing
    answer,     \* history: how the last call that succeeded or failed for itself has
                \* ended, and what it wanted
    intact      \* history: no command has failed for itself, and nobody unregistered

setupVars == <<config, call, answer, intact>>

Registrations == [path : Paths, key : Keys \cup {Unset}]

Unregistered == [path |-> "none", key |-> Unset]

\* What a call finds in its environment.
Wants == [path : Paths, key : Keys \cup {Unset, Empty}]

Idle == [pc |-> "idle", wants |-> Unregistered, unregisters |-> FALSE]

NoAnswer == [ended |-> "none", wants |-> Unregistered]

SetupTypeOK ==
    /\ config \in Registrations \cup {Unregistered}
    /\ call \in [Calls -> [pc : {"idle", "get", "remove", "add"},
                           wants : Wants \cup {Unregistered}, unregisters : BOOLEAN]]
    /\ answer \in [ended : {"none", "matches", "added", "removed", "absent", "error"},
                   wants : Wants \cup {Unregistered}]
    /\ intact \in BOOLEAN

SetupInit ==
    /\ config \in Registrations \cup {Unregistered}
    /\ call = [c \in Calls |-> Idle]
    /\ answer = NoAnswer
    /\ intact = TRUE

At(c, pc) == call[c].pc = pc
Goto(c, pc) == call' = [call EXCEPT ![c].pc = pc] /\ UNCHANGED answer

Registered == config # Unregistered

Answer(c, ended) ==
    /\ call' = [call EXCEPT ![c] = Idle]
    /\ answer' = [ended |-> ended, wants |-> call[c].wants]

-----------------------------------------------------------------------------
BeginSetup(c) ==
    /\ At(c, "idle")
    /\ \E w \in Wants :
           call' = [call EXCEPT ![c] = [pc |-> "get", wants |-> w, unregisters |-> FALSE]]
    /\ UNCHANGED <<config, answer, intact>>

BeginUnregister(c) ==
    /\ At(c, "idle")
    /\ call' = [call EXCEPT ![c] = [Idle EXCEPT !.pc = "get", !.unregisters = TRUE]]
    /\ intact' = FALSE
    /\ UNCHANGED <<config, answer>>

\* _registration_matches looks for the path that it wants anywhere in what is printed
\* (main.py:483), and compares that there is a key, not which one.
Matches(w) ==
    /\ <<w.path, config.path>> \in Occurs
    /\ (config.key # Unset) = (w.key # Unset)

\* _check_jibuff_registration.
Get(c) ==
    /\ At(c, "get")
    /\ \/ call[c].unregisters /\ ~Registered /\ Answer(c, "absent")
       \/ call[c].unregisters /\ Registered /\ Goto(c, "remove")
       \/ ~call[c].unregisters /\ ~Registered /\ Goto(c, "add")
       \/ ~call[c].unregisters /\ Registered /\ Matches(call[c].wants) /\ Answer(c, "matches")
       \/ ~call[c].unregisters /\ Registered /\ ~Matches(call[c].wants) /\ Goto(c, "remove")
    /\ UNCHANGED <<config, intact>>

\* Faulty: a call that updates ends like one that unregisters.
RemoveOnly(c) ==
    /\ At(c, "remove")
    /\ Registered
    /\ config' = Unregistered
    /\ Answer(c, "removed")
    /\ UNCHANGED intact

Remove(c) ==
    /\ At(c, "remove")
    /\ Registered
    /\ config' = Unregistered
    /\ IF call[c].unregisters THEN Answer(c, "removed") ELSE Goto(c, "add")
    /\ UNCHANGED intact

\* An empty key is not passed on.
Added(w) == [path |-> w.path, key |-> IF w.key = Empty THEN Unset ELSE w.key]

Add(c) ==
    /\ At(c, "add")
    /\ ~Registered
    /\ config' = Added(call[c].wants)
    /\ Answer(c, "added")
    /\ UNCHANGED intact

TooLate(c) ==
    \/ At(c, "remove") /\ ~Registered
    \/ At(c, "add") /\ Registered

\* Faulty: the exit code of a refused command is not looked at, so that the call goes on
\* and says that it is done.
RefusalIgnored(c) ==
    /\ TooLate(c)
    /\ IF At(c, "remove") /\ ~call[c].unregisters
       THEN Goto(c, "add")
       ELSE Answer(c, IF call[c].unregisters THEN "removed" ELSE "added")
    /\ UNCHANGED <<config, intact>>

\* Another call was faster: this one ends with an error, and has changed nothing.
Refused(c) ==
    /\ TooLate(c)
    /\ call' = [call EXCEPT ![c] = Idle]
    /\ UNCHANGED <<config, answer, intact>>

\* A command fails or runs out of time, which does not say whether it has done its work,
\* or the call is interrupted.
Fail(c) ==
    /\ ~At(c, "idle")
    /\ \/ UNCHANGED config
       \/ At(c, "remove") /\ config' = Unregistered
       \/ At(c, "add") /\ ~Registered /\ config' = Added(call[c].wants)
    /\ Answer(c, "error")
    /\ intact' = FALSE

-----------------------------------------------------------------------------
AllEnded == \A c \in Calls : At(c, "idle")

SetupNext == \E c \in Calls :
    \/ BeginSetup(c) \/ BeginUnregister(c) \/ Get(c) \/ Remove(c) \/ Add(c)
    \/ Refused(c) \/ Fail(c)

SetupSpec == SetupInit /\ [][SetupNext]_setupVars

-----------------------------------------------------------------------------
(* Properties. *)

\* What the last answer says of the registration: after "Done" it is the one that was
\* asked for, with its path and its key (main.py:541-553); after "nothing to remove" or
\* "Removed" there is none; and after "Already registered" what is printed has the path
\* that was found in it, and a key exactly if the variable was set, which is less than the
\* message says: see PathIsCurrent and KeyIsCurrent.  Nothing is said after a command that
\* failed for itself, which may have done its work.
AnswerHolds ==
    LET w == answer.wants IN
    /\ answer.ended = "added" => config = Added(w)
    /\ answer.ended = "matches" =>
           /\ Registered
           /\ <<w.path, config.path>> \in Occurs
           /\ (config.key # Unset) = (w.key # Unset)
    /\ answer.ended \in {"removed", "absent"} => ~Registered

\* When all calls have ended, what the last of them to succeed has said is true, however
\* they overlapped, whatever was registered before, and whoever was refused since.
AnswerIsTrue == AllEnded => AnswerHolds

\* Setups that overlap in any order may fail, but do not leave the server unregistered
\* between them, as long as no command fails for itself (main.py:520-544).
RaceKeepsRegistration ==
    intact /\ AllEnded /\ answer # NoAnswer => Registered

\* "Already registered with current config" (main.py:524).  Refuted: with another path, of
\* which the one that was found is a part (main.py:483).
PathIsCurrent ==
    AllEnded /\ answer.ended = "matches" => config.path = answer.wants.path

\* The same message.  Refuted: with another key than the one that is set now.
KeyIsCurrent ==
    AllEnded /\ answer.ended = "matches" => config.key = answer.wants.key

\* A setup that fails leaves a registration behind if there was one.  Refuted: it is
\* removed before the new one is added.
FailureKeepsRegistration ==
    [][\A c \in Calls : ~call[c].unregisters /\ Registered => Registered']_setupVars
=============================================================================
