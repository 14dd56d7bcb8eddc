----------------------------- MODULE LoopConfig -----------------------------
(***************************************************************************)
(* .ares/loop_config.json and the commands that change it: goal set,       *)
(* budget set, scope set, oscillation set-policy and init (ar724/cli.py).  *)
(* Each of them reads the whole file, changes the fields it was given and  *)
(* writes the whole file by atomic_write (ar724/db.py): a temporary file,  *)
(* filled, closed, and moved over the old one.  There is no lock, and a    *)
(* command may be killed, or fail, anywhere; its temporary file is then    *)
(* unlinked or left where nobody reads it.  The audit event that follows a *)
(* change is a log, and left out.                                          *)
(*                                                                         *)
(* A content is a function from fields to values, None where the JSON has  *)
(* no such key; the nested objects resource_budget and scope_overrides     *)
(* count as the fields they hold.                                          *)
(***************************************************************************)
EXTENDS Integers

CONSTANTS
    Shell,        \* command lines in which such commands run, one at a time
    Field,        \* keys of the file
    Value,
    None,
    Change,       \* what a command may be given: fields and their values
    Defaults,     \* what init writes
    MaxCommands   \* bound: commands begun

Content == [Field -> Value \cup {None}]

ASSUME LoopConfigAssumption ==
    /\ None \notin Value
    /\ Change \subseteq Content
    /\ Defaults \in Content
    /\ MaxCommands \in Nat

VARIABLES
    file,      \* the file: <<>> if there is none, <<content>> or Torn
    command,   \* the command in each shell
    commands,  \* how many have begun
    last,      \* history: the value last set for each field
    undone     \* history: fields written back by a command that had not seen
               \* their last change

configVars == <<file, command, commands, last, undone>>

Nothing == [f \in Field |-> None]
NoFile == <<>>
Torn == <<None, None>>
Whole == {<<c>> : c \in Content}

\* A command that has a dict to write.  named: the fields it was given; new:
\* it is init; temp: its temporary file; others: history, the fields others
\* have set since it looked at the file.
Writing(place, named, new, cfg, temp, others) ==
    [at |-> place, named |-> named, new |-> new, cfg |-> cfg, temp |-> temp, others |-> others]
Prompt == Writing("prompt", {}, FALSE, Nothing, NoFile, {})

Command == [at : {"prompt", "mkstemp", "fill", "replace"}, named : SUBSET Field, new : BOOLEAN,
            cfg : Content, temp : Whole \cup {NoFile, Torn}, others : SUBSET Field]

ConfigOK ==
    /\ file \in Whole \cup {NoFile}
    /\ command \in [Shell -> Command]
    /\ commands \in 0 .. MaxCommands
    /\ last \in Content
    /\ undone \in SUBSET Field

ConfigInit ==
    /\ file = NoFile
    /\ command = [s \in Shell |-> Prompt]
    /\ commands = 0
    /\ last = Nothing
    /\ undone = {}

-----------------------------------------------------------------------------
\* get_loop_config
Contents(x) == IF x = NoFile THEN Nothing ELSE x[1]

Named(ch) == {f \in Field : ch[f] # None}

\* seeded fault: a dict made of the options alone
OptionsOnly(c, ch) == ch

\* The assignments cfg[field] = value, and dict.update.
Over(c, ch) == [f \in Field |-> IF ch[f] # None THEN ch[f] ELSE c[f]]

Now(s, c) == command' = [command EXCEPT ![s] = c]

Begin(s, c) ==
    /\ command[s].at = "prompt" /\ commands < MaxCommands
    /\ Now(s, c)
    /\ commands' = commands + 1
    /\ UNCHANGED <<file, last, undone>>

\* goal set, budget set, scope set, oscillation set-policy
Set(s) ==
    \E ch \in Change :
        Begin(s, Writing("mkstemp", Named(ch), FALSE, Over(Contents(file), ch), NoFile, {}))

\* init, which does not touch a file that is there
Initialise(s) ==
    file = NoFile /\ Begin(s, Writing("mkstemp", {}, TRUE, Defaults, NoFile, {}))

\* seeded fault: the file itself is opened for writing
OpenInPlace(s) ==
    /\ command[s].at = "mkstemp"
    /\ Now(s, [command[s] EXCEPT !.at = "fill", !.temp = Torn])
    /\ file' = Torn
    /\ UNCHANGED <<commands, last, undone>>

\* atomic_write: an empty temporary file, then its content.
Mkstemp(s) ==
    /\ command[s].at = "mkstemp"
    /\ Now(s, [command[s] EXCEPT !.at = "fill", !.temp = Torn])
    /\ UNCHANGED <<file, commands, last, undone>>

Fill(s) ==
    /\ command[s].at = "fill"
    /\ Now(s, [command[s] EXCEPT !.at = "replace", !.temp = <<command[s].cfg>>])
    /\ UNCHANGED <<file, commands, last, undone>>

\* What a command is there to set: init, whatever nobody has set before it.
Meant(c) == IF c.new THEN Field \ c.others ELSE c.named

\* os.replace, which also writes back what the command has read of the fields it
\* was not given.
Replace(s) ==
    LET c == command[s]
        set == Meant(c) \cup c.others IN
    /\ c.at = "replace"
    /\ file' = c.temp
    /\ command' = [t \in Shell |->
           IF t = s THEN Prompt
           ELSE IF command[t].at = "prompt" THEN command[t]
           ELSE [command[t] EXCEPT !.others = @ \cup set]]
    /\ last' = [f \in Field |-> IF f \in Meant(c) THEN c.cfg[f] ELSE last[f]]
    /\ undone' = (undone \cup c.others) \ Meant(c)
    /\ UNCHANGED commands

\* Killed, or an exception.
GivesUp(s) ==
    /\ command[s].at # "prompt"
    /\ Now(s, Prompt)
    /\ UNCHANGED <<file, commands, last, undone>>

ConfigNext ==
    \E s \in Shell :
        Set(s) \/ Initialise(s) \/ Mkstemp(s) \/ Fill(s) \/ Replace(s) \/ GivesUp(s)

-----------------------------------------------------------------------------
\* A command that is given some fields undoes no change of the others, except one
\* made between its own reading and writing of the file; what another command
\* wrote then is what it may undo, and no more (get_loop_config and
\* write_loop_config, without a lock between them).
OnlyUnseenChangesAreUndone ==
    \A f \in Field : Contents(file)[f] # last[f] => f \in undone
=============================================================================
