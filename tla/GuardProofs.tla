---------------------------- MODULE GuardProofs ----------------------------
(***************************************************************************)
(* Theorems about Guard for any number of shells, any fields and any       *)
(* detector: its types, what overlapping commands may undo of each other,  *)
(* and that the conductor obeys the policy that was set last.              *)
(***************************************************************************)
EXTENDS Guard, FiniteSetTheorems, FunctionTheorems, SequenceTheorems, TLAPS

LEMMA WrittenIsACommand ==
    ASSUME NEW place \in {"prompt", "mkstemp", "fill", "replace"}, NEW named \in SUBSET Field,
           NEW new \in BOOLEAN, NEW c \in Content, NEW x \in Whole \cup {NoFile, Torn},
           NEW others \in SUBSET Field
    PROVE  Writing(place, named, new, c, x, others) \in Command
BY DEF Writing, Command

LEMMA PromptIsACommand == Prompt \in Command /\ Prompt.at = "prompt"
<1>1. Nothing \in Content
  BY DEF Nothing, Content
<1> QED
  BY <1>1 DEF Prompt, Writing, Command

LEMMA ContentsAreContent ==
    ASSUME NEW x \in Whole \cup {NoFile} PROVE Contents(x) \in Content
<1>1. Nothing \in Content
  BY DEF Nothing, Content
<1>2. CASE x = NoFile
  BY <1>1, <1>2 DEF Contents
<1>3. CASE x # NoFile
  <2>1. PICK c \in Content : x = <<c>>
    BY <1>3 DEF Whole
  <2> QED
    BY <1>3, <2>1 DEF Contents
<1> QED
  BY <1>2, <1>3

LEMMA OverIsContent ==
    ASSUME NEW c \in Content, NEW ch \in Content PROVE Over(c, ch) \in Content
BY DEF Over, Content

-----------------------------------------------------------------------------
\* What a command that is not init holds of the fields it was not given is what
\* the file says, unless others have set them since; and what it is about to move
\* over the file is what it holds.
HasSeen(c) ==
    /\ c.at \in {"mkstemp", "fill", "replace"} /\ ~c.new =>
           \A f \in Field \ (c.named \cup c.others) : c.cfg[f] = Contents(file)[f]
    /\ c.at = "replace" => c.temp = <<c.cfg>>

ConfigInv ==
    /\ ConfigOK
    /\ \A s \in Shell : HasSeen(command[s])
    /\ OnlyUnseenChangesAreUndone

LEMMA NowKeeps ==
    ASSUME ConfigInv, NEW s \in Shell, NEW c \in Command, HasSeen(c), Now(s, c),
           UNCHANGED <<file, last, undone>>, commands' \in 0 .. MaxCommands
    PROVE  ConfigInv'
<1>1. command' \in [Shell -> Command]
  BY DEF ConfigInv, ConfigOK, Now
<1>2. \A t \in Shell : command'[t] = IF t = s THEN c ELSE command[t]
  BY DEF ConfigInv, ConfigOK, Now
<1>3. \A t \in Shell : HasSeen(command[t])'
  BY <1>2 DEF ConfigInv, HasSeen
<1> QED
  BY <1>1, <1>3 DEF ConfigInv, ConfigOK, OnlyUnseenChangesAreUndone

LEMMA BeginKeeps ==
    ASSUME ConfigInv, NEW s \in Shell, NEW c \in Command, HasSeen(c), Begin(s, c)
    PROVE  ConfigInv'
<1>1. commands' \in 0 .. MaxCommands
  BY LoopConfigAssumption DEF LoopConfigAssumption, ConfigInv, ConfigOK, Begin
<1> QED
  BY <1>1, NowKeeps DEF Begin

LEMMA SetKeeps == ASSUME ConfigInv, NEW s \in Shell, Set(s) PROVE ConfigInv'
<1>1. PICK ch \in Change :
          Begin(s, Writing("mkstemp", Named(ch), FALSE, Over(Contents(file), ch), NoFile, {}))
  BY DEF Set
<1> DEFINE old == Contents(file)
           new == Over(old, ch)
           c == Writing("mkstemp", Named(ch), FALSE, new, NoFile, {})
<1>2. ch \in Content /\ old \in Content
  BY LoopConfigAssumption, ContentsAreContent DEF LoopConfigAssumption, ConfigInv, ConfigOK
<1>3. new \in Content
  BY <1>2, OverIsContent
<1>4. Named(ch) \in SUBSET Field
  BY DEF Named
<1>5. c \in Command
  <2> HIDE DEF new
  <2> QED
    BY <1>3, <1>4, WrittenIsACommand
<1>6. \A f \in Field \ Named(ch) : new[f] = old[f]
  BY DEF Over, Named
<1>7. HasSeen(c)
  <2> HIDE DEF new
  <2> QED
    BY <1>6 DEF HasSeen, Writing
<1> QED
  <2> HIDE DEF c
  <2>1. Begin(s, c)
    BY <1>1 DEF c
  <2> QED
    BY <2>1, <1>5, <1>7, BeginKeeps

LEMMA InitialiseKeeps == ASSUME ConfigInv, NEW s \in Shell, Initialise(s) PROVE ConfigInv'
<1> DEFINE c == Writing("mkstemp", {}, TRUE, Defaults, NoFile, {})
<1>1. c \in Command
  BY WrittenIsACommand, LoopConfigAssumption DEF LoopConfigAssumption
<1>2. HasSeen(c)
  BY DEF HasSeen, Writing
<1>3. Begin(s, c)
  BY DEF Initialise
<1> HIDE DEF c
<1> QED
  BY <1>1, <1>2, <1>3, BeginKeeps

LEMMA AtomicWriteKeeps ==
    ASSUME ConfigInv, NEW s \in Shell, Mkstemp(s) \/ Fill(s) \/ GivesUp(s)
    PROVE  ConfigInv'
<1> DEFINE c == command[s]
<1>1. c \in Command /\ HasSeen(c) /\ commands \in 0 .. MaxCommands
  BY DEF ConfigInv, ConfigOK
<1>2. CASE Mkstemp(s)
  <2> DEFINE d == [c EXCEPT !.at = "fill", !.temp = Torn]
  <2>1. d \in Command
    BY <1>1 DEF Command
  <2>2. HasSeen(d)
    BY <1>1, <1>2 DEF HasSeen, Mkstemp, Command
  <2>3. Now(s, d) /\ UNCHANGED <<file, commands, last, undone>>
    BY <1>2 DEF Mkstemp
  <2> HIDE DEF d
  <2> QED
    BY <1>1, <2>1, <2>2, <2>3, NowKeeps
<1>3. CASE Fill(s)
  <2> DEFINE d == [c EXCEPT !.at = "replace", !.temp = <<c.cfg>>]
  <2>1. d \in Command
    BY <1>1 DEF Command, Whole
  <2>2. HasSeen(d)
    BY <1>1, <1>3 DEF HasSeen, Fill, Command
  <2>3. Now(s, d) /\ UNCHANGED <<file, commands, last, undone>>
    BY <1>3 DEF Fill
  <2> HIDE DEF d
  <2> QED
    BY <1>1, <2>1, <2>2, <2>3, NowKeeps
<1>4. CASE GivesUp(s)
  <2>1. HasSeen(Prompt)
    BY PromptIsACommand DEF HasSeen
  <2> QED
    BY <1>1, <1>4, <2>1, PromptIsACommand, NowKeeps DEF GivesUp
<1> QED
  BY <1>2, <1>3, <1>4

LEMMA ReplaceKeeps == ASSUME ConfigInv, NEW s \in Shell, Replace(s) PROVE ConfigInv'
<1> DEFINE c == command[s]
           set == Meant(c) \cup c.others
<1>1. c \in Command /\ HasSeen(c) /\ c.at = "replace" /\ c.temp = <<c.cfg>>
  BY DEF ConfigInv, ConfigOK, Replace, HasSeen
<1>2. c.cfg \in Content /\ c.others \in SUBSET Field /\ c.named \in SUBSET Field
      /\ c.new \in BOOLEAN
  BY <1>1 DEF Command
<1>3. Meant(c) \in SUBSET Field /\ set \in SUBSET Field
  BY <1>2 DEF Meant
<1>4. file' = <<c.cfg>> /\ file' \in Whole /\ Contents(file)' = c.cfg
  BY <1>1, <1>2 DEF Replace, Whole, Contents, NoFile
<1>5. ConfigOK'
  <2>1. last' \in Content /\ undone' \in SUBSET Field
    BY <1>2, <1>3 DEF Replace, Content, ConfigInv, ConfigOK
  <2>2. command' \in [Shell -> Command]
    <3>1. \A t \in Shell : [command[t] EXCEPT !.others = @ \cup set] \in Command
      BY <1>3 DEF ConfigInv, ConfigOK, Command
    <3> QED
      BY <3>1, PromptIsACommand DEF Replace, ConfigInv, ConfigOK
  <2> QED
    BY <1>4, <2>1, <2>2 DEF Replace, ConfigInv, ConfigOK
<1>6. OnlyUnseenChangesAreUndone'
  <2> SUFFICES ASSUME NEW f \in Field, f \notin undone' PROVE c.cfg[f] = last'[f]
    BY <1>4 DEF OnlyUnseenChangesAreUndone
  <2>1. last'[f] = IF f \in Meant(c) THEN c.cfg[f] ELSE last[f]
    BY DEF Replace
  <2>2. f \notin Meant(c) => f \notin undone /\ f \notin c.others
    BY DEF Replace
  <2>3. f \notin Meant(c) => ~c.new /\ f \notin c.named
    BY <2>2 DEF Meant
  <2>4. f \notin Meant(c) => c.cfg[f] = Contents(file)[f]
    BY <1>1, <2>2, <2>3 DEF HasSeen
  <2>5. f \notin Meant(c) => Contents(file)[f] = last[f]
    BY <2>2 DEF ConfigInv, OnlyUnseenChangesAreUndone
  <2> QED
    BY <2>1, <2>4, <2>5
<1>7. ASSUME NEW t \in Shell PROVE HasSeen(command[t])'
  <2>1. CASE t = s
    <3>1. command'[t] = Prompt
      BY <2>1 DEF Replace
    <3> QED
      BY <3>1, PromptIsACommand DEF HasSeen
  <2>2. CASE t # s /\ command[t].at = "prompt"
    <3>1. command'[t] = command[t]
      BY <2>2 DEF Replace
    <3> QED
      BY <3>1, <2>2 DEF HasSeen
  <2>3. CASE t # s /\ command[t].at # "prompt"
    <3> DEFINE d == command[t]
               e == [d EXCEPT !.others = @ \cup set]
    <3>1. command'[t] = e
      BY <2>3 DEF Replace
    <3>2. d \in Command /\ HasSeen(d)
      BY DEF ConfigInv, ConfigOK
    <3>3. e.at = d.at /\ e.new = d.new /\ e.named = d.named /\ e.cfg = d.cfg
          /\ e.temp = d.temp /\ e.others = d.others \cup set
      BY <3>2 DEF Command
    <3>4. ASSUME NEW f \in Field \ (d.named \cup d.others \cup set),
                 d.at \in {"mkstemp", "fill", "replace"}, ~d.new
          PROVE  d.cfg[f] = c.cfg[f]
      <4>1. d.cfg[f] = Contents(file)[f]
        BY <3>2, <3>4 DEF HasSeen
      <4>2. f \notin Meant(c) /\ f \notin c.others
        OBVIOUS
      <4>3. ~c.new /\ f \notin c.named
        BY <4>2 DEF Meant
      <4>4. c.cfg[f] = Contents(file)[f]
        BY <1>1, <4>2, <4>3 DEF HasSeen
      <4> QED
        BY <4>1, <4>4
    <3> HIDE DEF d, e, c, set
    <3>5. \A f \in Field \ (e.named \cup e.others) :
              e.at \in {"mkstemp", "fill", "replace"} /\ ~e.new => e.cfg[f] = c.cfg[f]
      BY <3>3, <3>4
    <3>6. e.at = "replace" => e.temp = <<e.cfg>>
      BY <3>2, <3>3 DEF HasSeen
    <3> QED
      BY <3>1, <3>5, <3>6, <1>4 DEF HasSeen
  <2> QED
    BY <2>1, <2>2, <2>3
<1> QED
  BY <1>5, <1>6, <1>7 DEF ConfigInv

LEMMA ConfigStep ==
    ASSUME ConfigInv, ConfigNext \/ UNCHANGED configVars PROVE ConfigInv'
<1>1. CASE UNCHANGED configVars
  BY <1>1 DEF configVars, ConfigInv, ConfigOK, HasSeen, OnlyUnseenChangesAreUndone
<1>2. CASE ConfigNext
  <2>1. PICK s \in Shell :
            Set(s) \/ Initialise(s) \/ Mkstemp(s) \/ Fill(s) \/ Replace(s) \/ GivesUp(s)
    BY <1>2 DEF ConfigNext
  <2> QED
    BY <2>1, SetKeeps, InitialiseKeeps, AtomicWriteKeeps, ReplaceKeeps
<1> QED
  BY <1>1, <1>2

LEMMA ConfigStarts == ConfigInit => ConfigInv
<1> SUFFICES ASSUME ConfigInit PROVE ConfigInv
  OBVIOUS
<1>1. Nothing \in Content
  BY DEF Nothing, Content
<1>2. ConfigOK
  BY <1>1, PromptIsACommand, LoopConfigAssumption DEF ConfigInit, ConfigOK, LoopConfigAssumption
<1>3. \A s \in Shell : HasSeen(command[s])
  BY PromptIsACommand DEF ConfigInit, HasSeen
<1> QED
  BY <1>2, <1>3 DEF ConfigInit, ConfigInv, OnlyUnseenChangesAreUndone, Contents

-----------------------------------------------------------------------------
\* A deque of maxlen Window never holds more, and holds what was put in.
LEMMA PushedFits ==
    ASSUME NEW S, NEW q \in Seq(S), NEW e \in S, Len(q) <= Window
    PROVE  Pushed(q, e) \in Seq(S) /\ Len(Pushed(q, e)) <= Window
<1> DEFINE all == Append(q, e)
<1>1. all \in Seq(S) /\ all # <<>> /\ Len(all) = Len(q) + 1
  BY AppendProperties
<1>2. Tail(all) \in Seq(S) /\ Len(Tail(all)) = Len(all) - 1
  BY <1>1, HeadTailProperties
<1>3. Len(q) \in Nat /\ Window \in Nat
  BY LenProperties, OscillationAssumption DEF OscillationAssumption
<1>4. Pushed(q, e) = IF Len(all) > Window THEN Tail(all) ELSE all
  BY DEF Pushed
<1> HIDE DEF all
<1> QED
  BY <1>1, <1>2, <1>3, <1>4

DetectorOK ==
    /\ detector \in Detector
    /\ Len(detector.history) <= Window
    /\ \A k \in Parameter : Len(detector.param_history[k]) <= Window
    /\ fired \in BOOLEAN
    /\ refuses \in BOOLEAN
    /\ seen \in Seq(Candidate)

LEMMA ObservedIsADetector ==
    ASSUME NEW d \in Detector, Len(d.history) <= Window,
           \A k \in Parameter : Len(d.param_history[k]) <= Window, NEW p \in Candidate
    PROVE  /\ Observed(d, p) \in Detector
           /\ Len(Observed(d, p).history) <= Window
           /\ \A k \in Parameter : Len(Observed(d, p).param_history[k]) <= Window
<1> DEFINE h == Pushed(d.history, p)
           Q(k) == IF k \in DOMAIN p THEN Pushed(d.param_history[k], p[k]) ELSE d.param_history[k]
<1>1. d.history \in Seq(Candidate) /\ d.param_history \in [Parameter -> Seq(Bucket)]
  BY DEF Detector
<1>2. h \in Seq(Candidate) /\ Len(h) <= Window
  BY <1>1, PushedFits
<1>3. ASSUME NEW k \in Parameter PROVE Q(k) \in Seq(Bucket) /\ Len(Q(k)) <= Window
  <2>1. d.param_history[k] \in Seq(Bucket) /\ Len(d.param_history[k]) <= Window
    BY <1>1
  <2>2. CASE k \in DOMAIN p
    <3>1. PICK K \in SUBSET Parameter : p \in [K -> Bucket]
      BY OscillationAssumption DEF OscillationAssumption
    <3>2. p[k] \in Bucket
      BY <2>2, <3>1
    <3> QED
      BY <2>1, <2>2, <3>2, PushedFits
  <2>3. CASE k \notin DOMAIN p
    BY <2>1, <2>3
  <2> QED
    BY <2>2, <2>3
<1>4. Observed(d, p) = [history |-> h, param_history |-> [k \in Parameter |-> Q(k)]]
  BY DEF Observed
<1> HIDE DEF h, Q
<1> QED
  BY <1>2, <1>3, <1>4 DEF Detector

LEMMA NewDetectorOK ==
    /\ NewDetector \in Detector
    /\ Len(NewDetector.history) <= Window
    /\ \A k \in Parameter : Len(NewDetector.param_history[k]) <= Window
<1>1. Window \in Nat
  BY OscillationAssumption DEF OscillationAssumption
<1>2. <<>> \in Seq(Candidate) /\ <<>> \in Seq(Bucket) /\ Len(<<>>) = 0
  BY EmptySeq
<1>3. NewDetector.history = <<>>
      /\ NewDetector.param_history = [k \in Parameter |-> <<>>]
  BY DEF NewDetector
<1>4. NewDetector \in Detector
  BY <1>2 DEF NewDetector, Detector
<1> QED
  BY <1>1, <1>2, <1>3, <1>4

LEMMA DetectorStep ==
    ASSUME DetectorOK, Conducts \/ UNCHANGED guardVars PROVE DetectorOK'
<1>1. CASE UNCHANGED guardVars
  BY <1>1 DEF guardVars, DetectorOK
<1>2. CASE Unreadable
  BY <1>2 DEF Unreadable, DetectorOK
<1>3. ASSUME NEW p \in Candidate, Attempt(p) PROVE DetectorOK'
  <2>1. detector' = Observed(detector, p)
    BY <1>3 DEF Attempt
  <2>2. detector' \in Detector /\ Len(detector'.history) <= Window
        /\ \A k \in Parameter : Len(detector'.param_history[k]) <= Window
    BY <2>1, ObservedIsADetector DEF DetectorOK
  <2>3. seen' \in Seq(Candidate)
    BY <1>3, AppendProperties DEF Attempt, DetectorOK
  <2>4. fired' \in BOOLEAN /\ refuses' \in BOOLEAN
    BY <1>3 DEF Attempt, Triggered, Joint
  <2> QED
    BY <2>2, <2>3, <2>4 DEF DetectorOK
<1>4. CASE ByPolicy
  BY <1>4 DEF ByPolicy, DetectorOK
<1>5. CASE Restart
  <2>1. <<>> \in Seq(Candidate)
    BY EmptySeq
  <2> QED
    BY <1>5, <2>1, NewDetectorOK DEF Restart, DetectorOK
<1> QED
  BY <1>1, <1>2, <1>3, <1>4, <1>5 DEF Conducts

Inv == ConfigInv /\ DetectorOK

\* The configuration and the detector by themselves: neither's steps touch the
\* other's variables.
THEOREM Invariance == Spec => []Inv
<1>1. Init => Inv
  <2>1. ASSUME Init PROVE DetectorOK
    <3>1. <<>> \in Seq(Candidate)
      BY EmptySeq
    <3> QED
      BY <2>1, <3>1, NewDetectorOK DEF Init, DetectorOK
  <2> QED
    BY <2>1, ConfigStarts DEF Init, Inv
<1>2. Inv /\ [Next]_vars => Inv'
  <2> SUFFICES ASSUME Inv, [Next]_vars PROVE Inv'
    OBVIOUS
  <2>1. (ConfigNext \/ UNCHANGED configVars) /\ (Conducts \/ UNCHANGED guardVars)
    BY DEF Next, vars, configVars, guardVars
  <2> QED
    BY <2>1, ConfigStep, DetectorStep DEF Inv
<1> QED
  BY <1>1, <1>2, PTL DEF Spec

\* Every variable of the commands and of the detector keeps its type; the file is
\* never half of one, and the deques never hold more than the window.
THEOREM TypeCorrect == Spec => []TypeOK
<1>1. Inv => TypeOK
  BY DEF Inv, ConfigInv, DetectorOK, TypeOK
<1> QED
  BY <1>1, Invariance, PTL

\* Whatever commands overlap, they undo of each other's changes only those made
\* between a command's reading and writing of the file.
THEOREM OnlyUnseen == Spec => []OnlyUnseenChangesAreUndone
<1>1. Inv => OnlyUnseenChangesAreUndone
  BY DEF Inv, ConfigInv
<1> QED
  BY <1>1, Invariance, PTL

\* A detection is answered by the policy that was set last, unless a command
\* has put an older one back unseen.
THEOREM PolicyObeyed == Spec => PolicySetIsPolicyObeyed
<1>1. Inv /\ [Next]_vars =>
        [fired /\ ~fired' /\ seen' # <<>> /\ "oscillation_policy" \notin undone
           => (refuses' <=> last["oscillation_policy"] = "halt")]_vars
  <2> SUFFICES ASSUME Inv, Next, fired, ~fired', seen' # <<>>,
                      "oscillation_policy" \notin undone
               PROVE  refuses' <=> last["oscillation_policy"] = "halt"
    OBVIOUS
  <2>1. Conducts
    BY DEF Next, guardVars
  <2>2. ByPolicy
    BY <2>1 DEF Conducts, Unreadable, Attempt, Restart
  <2>3. Contents(file)["oscillation_policy"] = last["oscillation_policy"]
    BY GuardAssumption DEF GuardAssumption, Inv, ConfigInv, OnlyUnseenChangesAreUndone
  <2>4. None # "halt"
    BY GuardAssumption, LoopConfigAssumption DEF GuardAssumption, LoopConfigAssumption
  <2>5. Policy = "halt" <=> last["oscillation_policy"] = "halt"
    BY <2>3, <2>4 DEF Policy
  <2>6. refuses' = (Policy = "halt")
    BY <2>2 DEF ByPolicy
  <2> QED
    BY <2>5, <2>6
<1> QED
  BY <1>1, Invariance, PTL DEF Spec, PolicySetIsPolicyObeyed

(***************************************************************************)
(* Without overlapping commands nothing is ever undone: a command that is  *)
(* alone has been told of no change by others when it moves its file.      *)
(***************************************************************************)
CommandsApart ==
    \A s, t \in Shell : command[s].at # "prompt" /\ command[t].at # "prompt" => s = t

NobodyInBetween ==
    /\ undone = {}
    /\ \A s \in Shell : command[s].others = {}

LEMMA ApartStep ==
    ASSUME ConfigInv, NobodyInBetween, CommandsApart, ConfigNext \/ UNCHANGED configVars
    PROVE  NobodyInBetween'
<1> USE DEF NobodyInBetween
<1>1. CASE UNCHANGED configVars
  BY <1>1 DEF configVars
<1>2. ASSUME NEW s \in Shell, NEW c, c.others = {}, Now(s, c), UNCHANGED undone
      PROVE  NobodyInBetween'
  BY <1>2 DEF Now, ConfigInv, ConfigOK
<1>3. ASSUME NEW s \in Shell, Set(s) \/ Initialise(s)
      PROVE  NobodyInBetween'
  BY <1>2, <1>3 DEF Set, Initialise, Begin, Writing
<1>4. ASSUME NEW s \in Shell, Mkstemp(s) \/ Fill(s)
      PROVE  NobodyInBetween'
  <2>1. command[s] \in Command
    BY DEF ConfigInv, ConfigOK
  <2> QED
    BY <1>2, <1>4, <2>1 DEF Mkstemp, Fill, Command
<1>5. ASSUME NEW s \in Shell, GivesUp(s)
      PROVE  NobodyInBetween'
  BY <1>2, <1>5 DEF GivesUp, Prompt, Writing
<1>6. ASSUME NEW s \in Shell, Replace(s)
      PROVE  NobodyInBetween'
  <2>1. undone' = {}
    BY <1>6 DEF Replace
  <2>2. \A t \in Shell : t # s => command[t].at = "prompt"
    BY <1>6 DEF Replace, CommandsApart
  <2>3. \A t \in Shell : command'[t] = IF t = s THEN Prompt ELSE command[t]
    BY <1>6, <2>2 DEF Replace
  <2> QED
    BY <2>1, <2>3 DEF Prompt, Writing
<1> QED
  BY <1>1, <1>3, <1>4, <1>5, <1>6 DEF ConfigNext

LEMMA NothingUndone == Spec /\ []CommandsApart => []NobodyInBetween
<1>1. Init => NobodyInBetween
  BY DEF Init, ConfigInit, NobodyInBetween, Prompt, Writing
<1>2. Inv /\ NobodyInBetween /\ CommandsApart /\ [Next]_vars => NobodyInBetween'
  <2> SUFFICES ASSUME Inv, NobodyInBetween, CommandsApart, [Next]_vars
               PROVE  NobodyInBetween'
    OBVIOUS
  <2>1. ConfigNext \/ UNCHANGED configVars
    BY DEF Next, vars, configVars
  <2> QED
    BY <2>1, ApartStep DEF Inv
<1> QED
  BY <1>1, <1>2, Invariance, PTL DEF Spec

\* As long as no two commands overlap, the file says of every field what was
\* set last, whatever commands are killed half way.
THEOREM SetIsKept ==
    Spec /\ []CommandsApart => [](\A f \in Field : Contents(file)[f] = last[f])
<1>1. Inv /\ NobodyInBetween => \A f \in Field : Contents(file)[f] = last[f]
  BY DEF Inv, ConfigInv, OnlyUnseenChangesAreUndone, NobodyInBetween
<1> QED
  BY <1>1, Invariance, NothingUndone, PTL

\* And every detection is then answered by the policy that was set last.
THEOREM PolicyObeyedApart ==
    Spec /\ []CommandsApart =>
        [][fired /\ ~fired' /\ seen' # <<>>
             => (refuses' <=> last["oscillation_policy"] = "halt")]_vars
<1>1. NobodyInBetween =>
        ([fired /\ ~fired' /\ seen' # <<>> /\ "oscillation_policy" \notin undone
            => (refuses' <=> last["oscillation_policy"] = "halt")]_vars
         => [fired /\ ~fired' /\ seen' # <<>>
               => (refuses' <=> last["oscillation_policy"] = "halt")]_vars)
  BY DEF NobodyInBetween
<1> QED
  BY <1>1, NothingUndone, PolicyObeyed, PTL DEF PolicySetIsPolicyObeyed

(***************************************************************************)
(* The deques against everything the detector was shown.  A deque q        *)
(* follows f on the positions I if it holds what f has at the last of them:*)
(* m says which entry came from which position.                            *)
(***************************************************************************)
FollowsBy(q, f, I, L, m) ==
    /\ \A i, j \in 1 .. L : i < j => m[i] < m[j]
    /\ \A i \in 1 .. L : q[i] = f[m[i]]
    /\ \A j \in I : \A i \in 1 .. L : m[i] <= j => \E l \in 1 .. L : m[l] = j
    /\ L <= Window
    /\ L < Window => \A j \in I : \E l \in 1 .. L : m[l] = j

Follows(q, f, I) ==
    \E L \in Nat : L = Len(q) /\ \E m \in [1 .. L -> I] : FollowsBy(q, f, I, L, m)

LEMMA EmptyFollows == ASSUME NEW f PROVE Follows(<<>>, f, {})
<1> DEFINE m == [i \in 1 .. 0 |-> i]
<1>1. Len(<<>>) = 0 /\ Window \in Nat
  BY OscillationAssumption DEF OscillationAssumption
<1>2. m \in [1 .. 0 -> {}]
  OBVIOUS
<1>3. FollowsBy(<<>>, f, {}, 0, m)
  BY <1>1 DEF FollowsBy
<1> HIDE DEF m
<1> QED
  BY <1>1, <1>2, <1>3 DEF Follows

\* A new position at the end, and its value pushed.
LEMMA PushedFollows ==
    ASSUME NEW S, NEW q \in Seq(S), NEW e \in S, NEW I \in SUBSET Nat, NEW n \in Nat,
           \A j \in I : j < n, NEW f, NEW g, \A j \in I : g[j] = f[j], g[n] = e,
           Follows(q, f, I)
    PROVE  Follows(Pushed(q, e), g, I \cup {n})
<1> DEFINE L == Len(q)
           all == Append(q, e)
<1>0. PICK m \in [1 .. L -> I] : FollowsBy(q, f, I, L, m)
  BY DEF Follows
<1>1. /\ \A i, j \in 1 .. L : i < j => m[i] < m[j]
      /\ \A i \in 1 .. L : q[i] = f[m[i]]
      /\ \A j \in I : \A i \in 1 .. L : m[i] <= j => \E l \in 1 .. L : m[l] = j
      /\ L <= Window
      /\ L < Window => \A j \in I : \E l \in 1 .. L : m[l] = j
  BY <1>0 DEF FollowsBy
<1>2. L \in Nat /\ Window \in Nat \ {0} /\ \A i \in 1 .. L : m[i] \in Nat /\ m[i] < n
  BY LenProperties, OscillationAssumption DEF OscillationAssumption
<1>3. /\ all \in Seq(S) /\ all # <<>> /\ Len(all) = L + 1
      /\ \A i \in 1 .. L : all[i] = q[i]
      /\ all[L + 1] = e
  BY AppendProperties
<1>4. CASE L < Window
  <2> DEFINE new == [i \in 1 .. L + 1 |-> IF i <= L THEN m[i] ELSE n]
  <2>1. Pushed(q, e) = all
    BY <1>2, <1>3, <1>4 DEF Pushed
  <2>2. new \in [1 .. L + 1 -> I \cup {n}]
    BY <1>2
  <2>3. \A i, j \in 1 .. L + 1 : i < j => new[i] < new[j]
    BY <1>1, <1>2
  <2>4. \A i \in 1 .. L + 1 : all[i] = g[new[i]]
    BY <1>1, <1>2, <1>3
  <2>5. ASSUME NEW j \in I \cup {n} PROVE \E l \in 1 .. L + 1 : new[l] = j
    <3>1. CASE j = n
      <4>1. new[L + 1] = j /\ L + 1 \in 1 .. L + 1
        BY <3>1, <1>2
      <4> QED
        BY <4>1
    <3>2. CASE j \in I
      <4>1. PICK l \in 1 .. L : m[l] = j
        BY <3>2, <1>1, <1>4
      <4>2. new[l] = j /\ l \in 1 .. L + 1
        BY <4>1, <1>2
      <4> QED
        BY <4>2
    <3> QED
      BY <3>1, <3>2
  <2>6. L + 1 <= Window
    BY <1>2, <1>4
  <2> HIDE DEF new
  <2> QED
    <3>1. FollowsBy(all, g, I \cup {n}, L + 1, new)
      BY <2>3, <2>4, <2>5, <2>6 DEF FollowsBy
    <3>2. L + 1 \in Nat
      BY <1>2
    <3> HIDE DEF all
    <3> QED
      BY <1>3, <2>1, <2>2, <3>1, <3>2 DEF Follows
<1>5. CASE ~(L < Window)
  <2> DEFINE new == [i \in 1 .. L |-> IF i < L THEN m[i + 1] ELSE n]
             r == Tail(all)
  <2>0. L = Window /\ L \in Nat \ {0}
    BY <1>1, <1>2, <1>5
  <2>1. Pushed(q, e) = r
    BY <1>2, <1>3, <2>0 DEF Pushed
  <2>2. Len(r) = L /\ \A i \in 1 .. L : r[i] = all[i + 1]
    <3>1. Len(r) = Len(all) - 1 /\ \A i \in 1 .. Len(r) : r[i] = all[i + 1]
      BY <1>3, HeadTailProperties
    <3> QED
      BY <3>1, <1>2, <1>3
  <2>3. new \in [1 .. L -> I \cup {n}]
    BY <2>0
  <2>4. \A i, j \in 1 .. L : i < j => new[i] < new[j]
    BY <1>1, <1>2, <2>0
  <2>5. \A i \in 1 .. L : r[i] = g[new[i]]
    <3>1. ASSUME NEW i \in 1 .. L, i < L PROVE r[i] = g[new[i]]
      <4>1. i + 1 \in 1 .. L /\ new[i] = m[i + 1]
        BY <3>1, <2>0
      <4>2. r[i] = q[i + 1]
        BY <4>1, <2>2, <1>3
      <4>3. q[i + 1] = f[m[i + 1]] /\ m[i + 1] \in I
        BY <4>1, <1>1
      <4> HIDE DEF new, r
      <4> QED
        BY <4>1, <4>2, <4>3
    <3>2. r[L] = g[new[L]]
      <4>1. r[L] = e
        BY <2>0, <2>2, <1>3
      <4>2. new[L] = n
        BY <2>0
      <4> HIDE DEF new, r
      <4> QED
        BY <4>1, <4>2
    <3> HIDE DEF new, r
    <3> QED
      BY <3>1, <3>2, <2>0
  <2>6. ASSUME NEW j \in I \cup {n}, NEW i \in 1 .. L, new[i] <= j
        PROVE  \E l \in 1 .. L : new[l] = j
    <3>1. CASE j = n
      <4>1. new[L] = j /\ L \in 1 .. L
        BY <3>1, <2>0
      <4> QED
        BY <4>1
    <3>2. CASE j # n
      <4>1. j \in I /\ j < n
        BY <3>2
      <4>2. i < L /\ m[i + 1] <= j
        BY <4>1, <2>6, <2>0
      <4>3. PICK l \in 1 .. L : m[l] = j
        BY <4>1, <4>2, <1>1, <2>0
      <4>4. l # 1
        <5>1. m[1] < m[i + 1]
          BY <4>2, <1>1, <2>0
        <5>2. m[1] \in Nat /\ m[i + 1] \in Nat /\ j \in Nat
          BY <4>1, <4>2, <1>2, <2>0
        <5> QED
          BY <4>2, <4>3, <5>1, <5>2
      <4>5. l - 1 \in 1 .. L /\ new[l - 1] = j
        BY <4>3, <4>4, <2>0
      <4> QED
        BY <4>5
    <3> QED
      BY <3>1, <3>2
  <2> HIDE DEF new, r
  <2>7. ~(L < Window) /\ L <= Window
    BY <1>2, <2>0
  <2> QED
    <3>1. FollowsBy(r, g, I \cup {n}, L, new)
      BY <2>4, <2>5, <2>6, <2>7 DEF FollowsBy
    <3> QED
      BY <1>2, <2>1, <2>2, <2>3, <3>1 DEF Follows
<1> QED
  BY <1>4, <1>5

\* The entries of a deque that follows f on I are f at the latest positions of I.
LEMMA FollowsTheLatest ==
    ASSUME NEW S, NEW q \in Seq(S), NEW I \in SUBSET Nat, IsFiniteSet(I), NEW f,
           Follows(q, f, I)
    PROVE  /\ Cardinality(Latest(I)) = Window <=> Len(q) >= Window
           /\ Values(q) = {f[i] : i \in Latest(I)}
           /\ \A e : Times(q, e) = Cardinality({i \in Latest(I) : f[i] = e})
<1> DEFINE L == Len(q)
<1>0. PICK m \in [1 .. L -> I] : FollowsBy(q, f, I, L, m)
  BY DEF Follows
<1>1. /\ \A i, j \in 1 .. L : i < j => m[i] < m[j]
      /\ \A i \in 1 .. L : q[i] = f[m[i]]
      /\ \A j \in I : \A i \in 1 .. L : m[i] <= j => \E l \in 1 .. L : m[l] = j
      /\ L <= Window
      /\ L < Window => \A j \in I : \E l \in 1 .. L : m[l] = j
  BY <1>0 DEF FollowsBy
<1>2. L \in Nat /\ Window \in Nat \ {0} /\ DOMAIN q = 1 .. L
  BY LenProperties, OscillationAssumption DEF OscillationAssumption
<1> DEFINE R == {m[i] : i \in 1 .. L}
<1>3. \A i, j \in 1 .. L : m[i] = m[j] => i = j
  <2>1. \A i \in 1 .. L : m[i] \in Nat
    OBVIOUS
  <2> QED
    BY <1>1, <1>2, <2>1
<1>4. IsFiniteSet(1 .. L) /\ Cardinality(1 .. L) = L
  <2> HIDE DEF L
  <2>1. 1 \in Int /\ L \in Int
    BY <1>2
  <2>2. IsFiniteSet(1 .. L) /\ Cardinality(1 .. L) = IF 1 > L THEN 0 ELSE L - 1 + 1
    BY <2>1, FS_Interval
  <2> QED
    BY <2>2, <1>2
<1>5. R \subseteq I /\ IsFiniteSet(R) /\ Cardinality(R) = L
  <2>1. m \in [1 .. L -> R]
    OBVIOUS
  <2>2. m \in Bijection(1 .. L, R)
    <3>1. \A r \in R : \E i \in 1 .. L : m[i] = r
      OBVIOUS
    <3> HIDE DEF R
    <3>2. m \in Injection(1 .. L, R)
      BY <2>1, <1>3, Fun_IsInj
    <3>3. m \in Surjection(1 .. L, R)
      BY <2>1, <3>1, Fun_IsSurj
    <3> QED
      BY <3>2, <3>3 DEF Bijection
  <2>3. ExistsBijection(1 .. L, R)
    BY <2>2 DEF ExistsBijection
  <2>4. R \subseteq I
    OBVIOUS
  <2> HIDE DEF R
  <2> QED
    BY <1>4, <2>3, <2>4, FS_Bijection
<1> DEFINE From(i) == {j \in I : j >= i}
<1>6. ASSUME NEW i \in I PROVE IsFiniteSet(From(i)) /\ Cardinality(From(i)) \in Nat
  BY FS_Subset, FS_CardinalityType
<1>7. ASSUME NEW i \in R PROVE i \in Latest(I)
  <2>1. PICK l \in 1 .. L : m[l] = i
    OBVIOUS
  <2>2. From(i) \subseteq R
    BY <1>1, <2>1
  <2>3. Cardinality(From(i)) <= L
    BY <2>2, <1>5, FS_Subset
  <2>4. i \in I
    BY <1>5
  <2>5. Cardinality(From(i)) \in Nat
    BY <2>4, <1>6
  <2>6. Cardinality(From(i)) <= Window
    BY <2>3, <2>5, <1>1, <1>2
  <2> QED
    BY <2>4, <2>6 DEF Latest
<1>8. ASSUME NEW i \in I, i \notin R PROVE i \notin Latest(I)
  <2>1. L = Window
    <3>1. ~(\E l \in 1 .. L : m[l] = i)
      BY <1>8
    <3>2. ~(L < Window)
      BY <3>1, <1>1
    <3>3. L <= Window
      BY <1>1
    <3> HIDE DEF L
    <3> QED
      BY <3>2, <3>3, <1>2
  <2>2. \A l \in 1 .. L : m[l] \in I /\ m[l] > i
    <3>1. \A l \in 1 .. L : m[l] \in Nat /\ ~(m[l] <= i)
      BY <1>1, <1>8
    <3> QED
      BY <3>1
  <2>3. R \cup {i} \subseteq From(i)
    <3>1. ASSUME NEW r \in R PROVE r \in I /\ r >= i
      <4>1. PICK l \in 1 .. L : r = m[l]
        OBVIOUS
      <4>2. r \in Nat /\ i \in Nat /\ r > i
        BY <4>1, <2>2
      <4> QED
        BY <4>2, <1>5
    <3>2. i \in I /\ i >= i
      OBVIOUS
    <3> QED
      BY <3>1, <3>2
  <2>4. Cardinality(R \cup {i}) = Window + 1
    <3> HIDE DEF R
    <3> QED
      BY <1>5, <1>8, <2>1, FS_AddElement
  <2>5. Cardinality(R \cup {i}) <= Cardinality(From(i))
    BY <2>3, <1>6, FS_Subset
  <2>6. ~(Cardinality(From(i)) <= Window)
    BY <2>4, <2>5, <1>6, <1>2
  <2> QED
    BY <2>6 DEF Latest
<1>9. Latest(I) = R
  <2>1. Latest(I) \subseteq I
    BY DEF Latest
  <2> HIDE DEF R
  <2> QED
    BY <2>1, <1>5, <1>7, <1>8
<1>10. Cardinality(Latest(I)) = Window <=> L >= Window
  BY <1>1, <1>2, <1>5, <1>9
<1>11. Values(q) = {f[i] : i \in R}
  BY <1>1, <1>2 DEF Values
<1>12. ASSUME NEW e PROVE Times(q, e) = Cardinality({i \in R : f[i] = e})
  <2> DEFINE A == {i \in 1 .. L : q[i] = e}
             B == {i \in R : f[i] = e}
             h == [i \in A |-> m[i]]
  <2>1. IsFiniteSet(A)
    BY <1>4, FS_Subset
  <2>2. h \in [A -> B]
    BY <1>1
  <2>3. \A i, j \in A : h[i] = h[j] => i = j
    BY <1>3
  <2>4. \A b \in B : \E i \in A : h[i] = b
    BY <1>1
  <2>5. ExistsBijection(A, B)
    <3> HIDE DEF A, B, h
    <3>1. h \in Injection(A, B)
      BY <2>2, <2>3, Fun_IsInj
    <3>2. h \in Surjection(A, B)
      BY <2>2, <2>4, Fun_IsSurj
    <3> QED
      BY <3>1, <3>2 DEF Bijection, ExistsBijection
  <2>6. Cardinality(B) = Cardinality(A)
    <3> HIDE DEF A, B
    <3> QED
      BY <2>1, <2>5, FS_Bijection
  <2> QED
    BY <2>6, <1>2 DEF Times
<1> QED
  BY <1>9, <1>10, <1>11, <1>12

LEMMA PushedIsLast ==
    ASSUME NEW S, NEW q \in Seq(S), NEW e \in S, Len(q) <= Window
    PROVE  Pushed(q, e)[Len(Pushed(q, e))] = e
<1> DEFINE all == Append(q, e)
<1>1. /\ all \in Seq(S) /\ all # <<>> /\ Len(all) = Len(q) + 1
      /\ all[Len(q) + 1] = e
  BY AppendProperties
<1>2. Len(Tail(all)) = Len(all) - 1 /\ \A i \in 1 .. Len(Tail(all)) : Tail(all)[i] = all[i + 1]
  BY <1>1, HeadTailProperties
<1>3. Len(q) \in Nat /\ Window \in Nat \ {0}
  BY LenProperties, OscillationAssumption DEF OscillationAssumption
<1>4. CASE Len(all) > Window
  <2>1. Len(Tail(all)) = Len(q) /\ Len(q) \in 1 .. Len(Tail(all))
    BY <1>1, <1>2, <1>3, <1>4
  <2>2. Tail(all)[Len(q)] = e
    BY <1>1, <1>2, <2>1
  <2>3. Pushed(q, e) = Tail(all)
    BY <1>4 DEF Pushed
  <2> QED
    BY <2>1, <2>2, <2>3
<1>5. CASE ~(Len(all) > Window)
  <2>1. Pushed(q, e) = all
    BY <1>5 DEF Pushed
  <2> QED
    BY <1>1, <2>1
<1> QED
  BY <1>4, <1>5

\* The positions of the candidates with a parameter, and its values there.
Has(s, k) == {i \in DOMAIN s : k \in DOMAIN s[i]}
Of(s, k) == [i \in Has(s, k) |-> s[i][k]]

Tracks(d, s) ==
    /\ Follows(d.history, s, DOMAIN s)
    /\ \A k \in Parameter : Follows(d.param_history[k], Of(s, k), Has(s, k))

DequesFollow == Tracks(detector, seen)

LEMMA StartFollows == Tracks(NewDetector, <<>>)
<1>1. DOMAIN <<>> = {}
  OBVIOUS
<1>2. \A k \in Parameter : Has(<<>>, k) = {}
  BY <1>1 DEF Has
<1>3. NewDetector.history = <<>> /\ \A k \in Parameter : NewDetector.param_history[k] = <<>>
  BY DEF NewDetector
<1> QED
  BY <1>1, <1>2, <1>3, EmptyFollows DEF Tracks

\* What an attempt adds to everything shown so far.
LEMMA OneMore ==
    ASSUME NEW s \in Seq(Candidate), NEW p \in Candidate
    PROVE  LET t == Append(s, p)
               n == Len(s) + 1 IN
           /\ t \in Seq(Candidate) /\ n \in Nat /\ Len(t) = n /\ t[n] = p
           /\ DOMAIN s \in SUBSET Nat /\ DOMAIN t = DOMAIN s \cup {n}
           /\ \A j \in DOMAIN s : j < n /\ t[j] = s[j]
           /\ \A k \in DOMAIN p :
                  /\ Has(t, k) = Has(s, k) \cup {n}
                  /\ \A j \in Has(s, k) : Of(t, k)[j] = Of(s, k)[j]
                  /\ Of(t, k)[n] = p[k]
           /\ \A k \in Parameter \ DOMAIN p : Has(t, k) = Has(s, k) /\ Of(t, k) = Of(s, k)
<1> DEFINE t == Append(s, p)
           n == Len(s) + 1
<1>1. /\ t \in Seq(Candidate) /\ Len(t) = n /\ t[n] = p /\ n \in Nat
      /\ DOMAIN s = 1 .. Len(s) /\ DOMAIN t = 1 .. n
      /\ \A j \in 1 .. Len(s) : t[j] = s[j]
  BY AppendProperties, LenProperties
<1>2. DOMAIN s \in SUBSET Nat /\ DOMAIN t = DOMAIN s \cup {n}
      /\ (\A j \in DOMAIN s : j < n /\ t[j] = s[j]) /\ n \notin DOMAIN s
  BY <1>1, LenProperties
<1> HIDE DEF t, n
<1>3. ASSUME NEW k PROVE Has(t, k) = IF k \in DOMAIN p THEN Has(s, k) \cup {n} ELSE Has(s, k)
  BY <1>1, <1>2 DEF Has
<1>4. ASSUME NEW k \in DOMAIN p
      PROVE  (\A j \in Has(s, k) : Of(t, k)[j] = Of(s, k)[j]) /\ Of(t, k)[n] = p[k]
  <2>1. \A j \in Has(s, k) : t[j] = s[j]
    BY <1>2 DEF Has
  <2> QED
    BY <1>1, <1>3, <2>1 DEF Of
<1>5. ASSUME NEW k \in Parameter \ DOMAIN p PROVE Of(t, k) = Of(s, k)
  <2>1. \A j \in Has(s, k) : t[j] = s[j]
    BY <1>2 DEF Has
  <2> QED
    BY <1>3, <2>1 DEF Of
<1> QED
  BY <1>1, <1>2, <1>3, <1>4, <1>5 DEF t, n

LEMMA AttemptFollows ==
    ASSUME DetectorOK, DequesFollow, NEW p \in Candidate, Attempt(p)
    PROVE  DequesFollow'
<1> DEFINE n == Len(seen) + 1
<1>1. seen' = Append(seen, p) /\ detector' = Observed(detector, p)
  BY DEF Attempt
<1>2. /\ detector.history \in Seq(Candidate)
      /\ \A k \in Parameter : detector.param_history[k] \in Seq(Bucket)
      /\ seen \in Seq(Candidate)
  BY DEF DetectorOK, Detector
<1>3. /\ n \in Nat /\ seen'[n] = p
      /\ DOMAIN seen \in SUBSET Nat /\ DOMAIN seen' = DOMAIN seen \cup {n}
      /\ \A j \in DOMAIN seen : j < n /\ seen'[j] = seen[j]
      /\ \A k \in DOMAIN p :
             /\ Has(seen', k) = Has(seen, k) \cup {n}
             /\ \A j \in Has(seen, k) : Of(seen', k)[j] = Of(seen, k)[j]
             /\ Of(seen', k)[n] = p[k]
      /\ \A k \in Parameter \ DOMAIN p :
             Has(seen', k) = Has(seen, k) /\ Of(seen', k) = Of(seen, k)
  BY <1>1, <1>2, OneMore
<1> HIDE DEF n
<1>4. Follows(detector'.history, seen', DOMAIN seen')
  <2>1. detector'.history = Pushed(detector.history, p)
    BY <1>1 DEF Observed
  <2>2. Follows(detector.history, seen, DOMAIN seen)
    BY DEF DequesFollow, Tracks
  <2>3. Follows(Pushed(detector.history, p), seen', DOMAIN seen \cup {n})
    BY <1>2, <1>3, <2>2, PushedFollows
  <2> QED
    BY <1>3, <2>1, <2>3
<1>5. ASSUME NEW k \in Parameter
      PROVE  Follows(detector'.param_history[k], Of(seen', k), Has(seen', k))
  <2> DEFINE q == detector.param_history[k]
  <2>1. detector'.param_history[k] = IF k \in DOMAIN p THEN Pushed(q, p[k]) ELSE q
    BY <1>1 DEF Observed
  <2>2. Follows(q, Of(seen, k), Has(seen, k)) /\ q \in Seq(Bucket)
    BY <1>2 DEF DequesFollow, Tracks
  <2>3. CASE k \in DOMAIN p
    <3>1. p[k] \in Bucket
      <4>1. PICK K \in SUBSET Parameter : p \in [K -> Bucket]
        BY OscillationAssumption DEF OscillationAssumption
      <4> QED
        BY <2>3, <4>1
    <3>2. Has(seen, k) \in SUBSET Nat /\ \A j \in Has(seen, k) : j < n
      BY <1>3 DEF Has
    <3> HIDE DEF q
    <3>3. Follows(Pushed(q, p[k]), Of(seen', k), Has(seen, k) \cup {n})
      BY <1>3, <2>2, <2>3, <3>1, <3>2, PushedFollows
    <3> QED
      BY <1>3, <2>1, <2>3, <3>3
  <2>4. CASE k \notin DOMAIN p
    BY <1>3, <2>1, <2>2, <2>4
  <2> QED
    BY <2>3, <2>4
<1> QED
  BY <1>4, <1>5 DEF DequesFollow, Tracks

LEMMA FollowingIsEnough ==
    ASSUME NEW d \in Detector, NEW s \in Seq(Candidate), Tracks(d, s), NEW p \in Candidate,
           p = s[Len(s)],
           \A k \in DOMAIN p : LET q == d.param_history[k] IN q[Len(q)] = p[k]
    PROVE  Triggered(d, p) <=> Oscillates(s)
<1>1. /\ d.history \in Seq(Candidate)
      /\ \A k \in Parameter : d.param_history[k] \in Seq(Bucket)
      /\ s \in Seq(Candidate)
  BY DEF Detector
<1>2. DOMAIN s \in SUBSET Nat /\ IsFiniteSet(DOMAIN s)
  <2>1. DOMAIN s = 1 .. Len(s) /\ Len(s) \in Int /\ 1 \in Int
    BY <1>1, LenProperties
  <2>2. IsFiniteSet(1 .. Len(s))
    BY <2>1, FS_Interval
  <2> QED
    BY <2>1, <2>2
<1>3. Joint(d.history) <=> FewCandidates(s)
  <2> DEFINE h == d.history
  <2>1. Follows(h, s, DOMAIN s)
    BY DEF Tracks
  <2>2. /\ Cardinality(Latest(DOMAIN s)) = Window <=> Len(h) >= Window
        /\ Values(h) = {s[i] : i \in Latest(DOMAIN s)}
    BY <1>1, <1>2, <2>1, FollowsTheLatest
  <2> QED
    BY <2>2 DEF Joint, FewCandidates
<1>4. ASSUME NEW k \in DOMAIN p
      PROVE  PerParam(d.param_history[k]) <=> BackAndForth(s, k)
  <2> DEFINE q == d.param_history[k]
             W == Latest(Has(s, k))
  <2>1. k \in Parameter
    BY OscillationAssumption DEF OscillationAssumption
  <2>2. Has(s, k) \in SUBSET Nat /\ IsFiniteSet(Has(s, k))
    <3>1. Has(s, k) \in SUBSET DOMAIN s
      BY DEF Has
    <3> QED
      BY <1>2, <3>1, FS_Subset
  <2>3. Follows(q, Of(s, k), Has(s, k)) /\ q \in Seq(Bucket)
    BY <1>1, <2>1 DEF Tracks
  <2>4. /\ Cardinality(W) = Window <=> Len(q) >= Window
        /\ Values(q) = {Of(s, k)[i] : i \in W}
        /\ \A e : Times(q, e) = Cardinality({i \in W : Of(s, k)[i] = e})
    <3> HIDE DEF q
    <3> QED
      BY <2>2, <2>3, FollowsTheLatest
  <2>5. \A i \in W : Of(s, k)[i] = s[i][k]
    BY DEF Latest, Of
  <2>6. q[Len(q)] = s[Len(s)][k]
    OBVIOUS
  <2>7. Values(q) = {s[i][k] : i \in W}
    BY <2>4, <2>5
  <2>8. Times(q, q[Len(q)]) = Cardinality({i \in W : s[i][k] = s[Len(s)][k]})
    <3>1. {i \in W : Of(s, k)[i] = q[Len(q)]} = {i \in W : s[i][k] = s[Len(s)][k]}
      BY <2>5, <2>6
    <3> QED
      BY <2>4, <3>1
  <2>9. BackAndForth(s, k) <=>
            /\ Cardinality(W) = Window
            /\ Cardinality({s[i][k] : i \in W}) <= 2
            /\ Cardinality({i \in W : s[i][k] = s[Len(s)][k]}) >= PerParamThreshold
    BY DEF BackAndForth, Has
  <2> HIDE DEF q, W
  <2>10. PerParam(q) <=>
            /\ Len(q) >= Window
            /\ Cardinality(Values(q)) <= 2
            /\ Times(q, q[Len(q)]) >= PerParamThreshold
    BY DEF PerParam
  <2>11. PerParam(q) <=> BackAndForth(s, k)
    BY <2>4, <2>7, <2>8, <2>9, <2>10
  <2> QED
    BY <2>11 DEF q
<1> QED
  BY <1>3, <1>4 DEF Triggered, Oscillates

LEMMA AttemptFires ==
    ASSUME DetectorOK, DequesFollow, NEW p \in Candidate, Attempt(p)
    PROVE  fired' <=> Oscillates(seen')
<1>1. DetectorOK' /\ DequesFollow'
  <2>1. DetectorOK'
    BY DetectorStep DEF Conducts
  <2> QED
    BY <2>1, AttemptFollows
<1>2. seen' # <<>> /\ p = seen'[Len(seen')]
  BY AppendProperties DEF Attempt, DetectorOK
<1>3. \A k \in DOMAIN p :
          detector'.param_history[k][Len(detector'.param_history[k])] = p[k]
  <2> SUFFICES ASSUME NEW k \in DOMAIN p
               PROVE  detector'.param_history[k][Len(detector'.param_history[k])] = p[k]
    OBVIOUS
  <2>1. PICK K \in SUBSET Parameter : p \in [K -> Bucket]
    BY OscillationAssumption DEF OscillationAssumption
  <2>2. k \in Parameter /\ p[k] \in Bucket
    BY <2>1
  <2>3. detector'.param_history[k] = Pushed(detector.param_history[k], p[k])
    BY <2>2 DEF Attempt, Observed
  <2>4. detector.param_history[k] \in Seq(Bucket) /\ Len(detector.param_history[k]) <= Window
    BY <2>2 DEF DetectorOK, Detector
  <2> QED
    BY <2>2, <2>3, <2>4, PushedIsLast
<1>4. Triggered(detector', p) <=> Oscillates(seen')
  <2>1. detector' \in Detector /\ seen' \in Seq(Candidate) /\ Tracks(detector', seen')
    BY <1>1 DEF DetectorOK, DequesFollow
  <2> QED
    BY <2>1, <1>2, <1>3, FollowingIsEnough
<1> QED
  BY <1>4 DEF Attempt

\* Each deque of a conductor's detector holds the values of the latest of the
\* candidates shown to it that have the parameter, in their order.
THEOREM DequesFollowTheAttempts == Spec => []DequesFollow
<1>1. Init => DequesFollow
  BY StartFollows DEF Init, DequesFollow
<1>2. Inv /\ DequesFollow /\ [Next]_vars => DequesFollow'
  <2> SUFFICES ASSUME Inv, DequesFollow, [Next]_vars PROVE DequesFollow'
    OBVIOUS
  <2>1. Conducts \/ UNCHANGED guardVars
    BY DEF Next, vars, guardVars
  <2>2. ASSUME UNCHANGED <<detector, seen>> PROVE DequesFollow'
    BY <2>2 DEF DequesFollow
  <2>3. CASE Restart
    BY <2>3, StartFollows DEF Restart, DequesFollow
  <2>4. ASSUME NEW p \in Candidate, Attempt(p) PROVE DequesFollow'
    BY <2>4, AttemptFollows DEF Inv
  <2> QED
    BY <2>1, <2>2, <2>3, <2>4 DEF Conducts, Unreadable, ByPolicy, guardVars
<1> QED
  BY <1>1, <1>2, Invariance, PTL DEF Spec

\* Whatever the window, the thresholds and the parameters of the candidates, the
\* detector fires exactly on what oscillates among all it was shown.
THEOREM Detects == Spec => FiresIffOscillating
<1>1. Inv /\ DequesFollow /\ [Next]_vars =>
        [seen' # seen /\ seen' # <<>> => (fired' <=> Oscillates(seen'))]_vars
  <2> SUFFICES ASSUME Inv, DequesFollow, Next, seen' # seen, seen' # <<>>
               PROVE  fired' <=> Oscillates(seen')
    OBVIOUS
  <2>1. PICK p \in Candidate : Attempt(p)
    BY DEF Next, guardVars, Conducts, Unreadable, ByPolicy, Restart
  <2> QED
    BY <2>1, AttemptFires DEF Inv
<1> QED
  BY <1>1, Invariance, DequesFollowTheAttempts, PTL DEF Spec, FiresIffOscillating
=============================================================================
