-------------------------- MODULE CompilerPageProofs --------------------------
(***************************************************************************)
(* What CompilerPage keeps for any languages and any number of runs.       *)
(***************************************************************************)
EXTENDS CompilerPage, TLAPS

-----------------------------------------------------------------------------
(* The inductive invariant.                                                *)

\* The types alone.
Types ==
  /\ pressed \in Languages /\ activeLanguage \in Languages
  /\ text \in Codes /\ activeStarterCode \in Codes
  /\ loaded \in BOOLEAN /\ isStarterCode \in BOOLEAN
  /\ typed \in BOOLEAN /\ missed \in BOOLEAN
  /\ handlers \in [Runs -> {"none", "fetch", "body", "done"}]
  /\ sent \in [language : Languages, code : Codes, astray : BOOLEAN]
  /\ response \in [Runs -> Replies]
  /\ output.run \in 0..MaxRuns
  /\ card \in 0..MaxRuns /\ details \in 0..MaxRuns
  /\ isRequestInFlight \in BOOLEAN

\* What the editor believes of its own text: the code called a starter is
\* the one of the language it works in, and until somebody types it holds
\* what it was given.
EditorBelieves ==
  /\ isStarterCode => activeStarterCode = starterCode(activeLanguage)
  /\ ~isStarterCode /\ ~typed => activeStarterCode = File
  /\ loaded /\ ~typed => text = activeStarterCode
  /\ ~loaded => text = Empty /\ ~typed /\ ~missed
  /\ loaded /\ ~missed => activeLanguage = pressed

\* A request was made of what the user saw.
SentAsSeen ==
  ~sent.astray => sent.code \in {starterCode(sent.language), File, Empty}

Waiting(i) == handlers[i] \in {"fetch", "body"}

\* One handler at a time, that of the run the panes are of, and the flag is
\* up as long as it waits.
OneHandler ==
  /\ \A i \in Runs : handlers[i] # "none" <=> i <= output.run
  /\ \A i \in Runs : Waiting(i) => i = output.run
  /\ isRequestInFlight <=> \E i \in Runs : Waiting(i)
  /\ \A i \in Runs : handlers[i] \in {"none", "fetch"} => response[i] = NoReply

\* What the panes show while a handler waits and when it is done.
PanesOfLast ==
  /\ isRequestInFlight => card = 0 /\ details = 0
  /\ card \in {0, output.run} /\ details \in {0, output.run}
  /\ output.run > 0 =>
       /\ isRequestInFlight <=> output.says = "running"
       /\ ~isRequestInFlight =>
            /\ Failed(output.run) <=> card = output.run
            /\ output.says = "nothing" => card = output.run

\* What every step keeps.
IInv == Types /\ EditorBelieves /\ SentAsSeen /\ OneHandler /\ PanesOfLast

-----------------------------------------------------------------------------
\* The page opens with it.
LEMMA InitInvariant == Init => IInv
<1> SUFFICES ASSUME Init PROVE IInv
  OBVIOUS
<1>1. Types
  <2>1. /\ pressed \in Languages /\ activeLanguage \in Languages
        /\ text \in Codes /\ activeStarterCode \in Codes
    BY DEF Init, Codes
  <2>2. sent \in [language : Languages, code : Codes, astray : BOOLEAN]
    BY <2>1 DEF Init
  <2>3. NoReply \in Replies
    BY DEF NoReply, Replies
  <2>4. /\ response \in [Runs -> Replies]
        /\ handlers \in [Runs -> {"none", "fetch", "body", "done"}]
    BY <2>3 DEF Init
  <2>5. /\ output.run \in 0..MaxRuns
        /\ card \in 0..MaxRuns /\ details \in 0..MaxRuns
    BY RunsAssumption DEF Init, Nothing
  <2> QED BY <2>1, <2>2, <2>4, <2>5 DEF Init, Types
<1>2. EditorBelieves /\ SentAsSeen
  BY DEF Init, EditorBelieves, SentAsSeen
<1>3. OneHandler /\ PanesOfLast
  BY RunsAssumption DEF Init, OneHandler, PanesOfLast, Waiting, Runs, Nothing
<1> QED BY <1>1, <1>2, <1>3 DEF IInv

-----------------------------------------------------------------------------
(* Types.                                                                  *)

\* A handler that ends keeps the types, whatever it shows.
LEMMA EndTypes ==
  ASSUME Types, NEW i \in Runs, Finally(i),
         UNCHANGED <<pressed, editor, sent, response>>,
         output'.run = i, card' \in {0, i, card}, details' \in {0, i}
  PROVE  Types'
<1>1. i \in 0..MaxRuns /\ 0 \in 0..MaxRuns
  BY RunsAssumption DEF Runs
<1>2. /\ output'.run \in 0..MaxRuns /\ card' \in 0..MaxRuns
      /\ details' \in 0..MaxRuns
  BY <1>1 DEF Types
<1>3. /\ handlers' \in [Runs -> {"none", "fetch", "body", "done"}]
      /\ isRequestInFlight' \in BOOLEAN
  BY DEF Types, Finally
<1> QED BY <1>2, <1>3 DEF Types, editor

\* What a handler shows of a reply with status 200.
LEMMA StatusOkShows ==
  ASSUME NEW i \in Runs, StatusOk(i)
  PROVE  /\ output'.run = i /\ output'.says # "running"
         /\ details' \in {0, i}
         /\ IF response[i].json /\ response[i].error
            THEN card' = i
            ELSE card' = card /\ output'.says # "nothing"
<1> DEFINE payload == response[i].json
           error   == payload /\ response[i].error
<1>1. /\ \E some \in BOOLEAN :
            output' = [run |-> i, says |-> IF some THEN "output"
                                           ELSE IF error THEN "nothing"
                                           ELSE "No output."]
      /\ details' = IF payload THEN i ELSE 0
      /\ card' = IF error THEN i ELSE card
  BY DEF StatusOk
<1>2. PICK some \in BOOLEAN :
        output' = [run |-> i, says |-> IF some THEN "output"
                                       ELSE IF error THEN "nothing"
                                       ELSE "No output."]
  BY <1>1
<1>3. /\ output'.run = i
      /\ output'.says = IF some THEN "output"
                        ELSE IF error THEN "nothing" ELSE "No output."
  BY <1>2
<1>4. CASE error
  BY <1>1, <1>3, <1>4
<1>5. CASE ~error
  BY <1>1, <1>3, <1>5
<1> QED BY <1>4, <1>5

\* Every step keeps the types.
LEMMA NextTypes ==
  ASSUME Types, [Next]_vars
  PROVE  Types'
<1>1. CASE EditorLoads
  BY <1>1 DEF EditorLoads, Types, runs, panes
<1>2. CASE Type
  <2>1. text' \in Codes
    BY <1>2 DEF Type, Types, Codes
  <2> QED BY <1>2, <2>1 DEF Type, Types, runs, panes
<1>3. CASE \E l \in Languages : ClickLanguage(l)
  <2> PICK l \in Languages : ClickLanguage(l)
    BY <1>3
  <2>1. starterCode(l) \in Codes
    BY DEF Codes
  <2>2. /\ text' \in Codes /\ activeStarterCode' \in Codes
        /\ isStarterCode' \in BOOLEAN /\ missed' \in BOOLEAN
        /\ pressed' \in Languages /\ activeLanguage' \in Languages
    BY <2>1 DEF ClickLanguage, setEditorLanguage, ReplaceStarter, Types
  <2> QED BY <2>2 DEF ClickLanguage, Types, runs, panes
<1>4. CASE \E i \in Runs : ClickRun(i)
  BY <1>4, RunsAssumption DEF ClickRun, ClearPanes, Types, Runs, editor
<1>5. CASE \E i \in Runs : FetchAnswers(i)
  BY <1>5 DEF FetchAnswers, Types, editor, panes
<1>6. ASSUME NEW i \in Runs, FetchFails(i) \/ StatusNotOk(i)
      PROVE  Types'
  BY <1>6, EndTypes DEF FetchFails, StatusNotOk, Catch
<1>7. ASSUME NEW i \in Runs, StatusOk(i)
      PROVE  Types'
  <2>1. /\ output'.run = i /\ card' \in {0, i, card} /\ details' \in {0, i}
    BY <1>7, StatusOkShows
  <2> QED BY <1>7, <2>1, EndTypes DEF StatusOk
<1>8. CASE UNCHANGED vars
  BY <1>8 DEF Types, vars, editor, runs, panes
<1> QED
  BY <1>1, <1>2, <1>3, <1>4, <1>5, <1>6, <1>7, <1>8 DEF Next, Handler

-----------------------------------------------------------------------------
(* The editor.                                                             *)

\* Every step keeps what the editor believes.
LEMMA NextEditor ==
  ASSUME Types, EditorBelieves, [Next]_vars
  PROVE  EditorBelieves'
<1> USE DEF Types, EditorBelieves, editor, panes, runs, vars
<1>1. CASE EditorLoads
  BY <1>1 DEF EditorLoads
<1>2. CASE Type
  BY <1>2 DEF Type
<1>3. CASE \E l \in Languages : ClickLanguage(l)
  BY <1>3 DEF ClickLanguage, setEditorLanguage, ReplaceStarter
<1>4. CASE UNCHANGED <<pressed, editor>>
  BY <1>4
<1>5. \A i \in Runs : ClickRun(i) \/ Handler(i) => UNCHANGED <<pressed, editor>>
  BY DEF ClickRun, Handler, FetchAnswers, FetchFails, StatusNotOk, StatusOk,
         Catch
<1> QED BY <1>1, <1>2, <1>3, <1>4, <1>5 DEF Next

\* A request is made of what the editor holds and of the pressed button.
LEMMA NextSent ==
  ASSUME Types, EditorBelieves, SentAsSeen, [Next]_vars
  PROVE  SentAsSeen'
<1> USE DEF Types, EditorBelieves, SentAsSeen, editor, panes, runs, vars
<1>1. CASE \E i \in Runs : ClickRun(i)
  BY <1>1 DEF ClickRun
<1>2. CASE UNCHANGED sent
  BY <1>2
<1>3. (\E i \in Runs : ClickRun(i)) \/ UNCHANGED sent
  BY DEF Next, EditorLoads, Type, ClickLanguage, Handler, FetchAnswers,
         FetchFails, StatusNotOk, StatusOk, Catch
<1> QED BY <1>1, <1>2, <1>3

-----------------------------------------------------------------------------
(* The run button.                                                         *)

\* A run is the next one after the last.
LEMMA NextRun ==
  ASSUME Types, OneHandler, NEW i \in Runs, ClickRun(i)
  PROVE  i = output.run + 1
<1>1. i > output.run
  BY RunsAssumption DEF Types, OneHandler, ClickRun, Runs
<1>2. i - 1 <= output.run
  <2>1. CASE i = 1
    BY <2>1 DEF Types
  <2>2. CASE i # 1
    <3>1. i - 1 \in Runs /\ i - 1 \in 1..(i - 1)
      BY <2>2, RunsAssumption DEF Runs
    <3> QED BY <3>1 DEF OneHandler, ClickRun
  <2> QED BY <2>1, <2>2
<1> QED BY <1>1, <1>2, RunsAssumption DEF Types, Runs

\* Every step keeps one handler.
LEMMA NextHandler ==
  ASSUME Types, OneHandler, [Next]_vars
  PROVE  OneHandler'
<1> USE RunsAssumption
<1> USE DEF Types, OneHandler, Waiting, Runs, runs, panes, vars
<1>1. CASE \E i \in Runs : ClickRun(i)
  <2> PICK i \in Runs : ClickRun(i)
    BY <1>1
  <2>1. i = output.run + 1
    BY NextRun
  <2> QED BY <2>1 DEF ClickRun, MayRun, ClearPanes
<1>2. CASE \E i \in Runs : FetchAnswers(i)
  BY <1>2 DEF FetchAnswers
<1>3. CASE \E i \in Runs : FetchFails(i)
  BY <1>3 DEF FetchFails, Catch, Finally
<1>4. CASE \E i \in Runs : StatusNotOk(i)
  BY <1>4 DEF StatusNotOk, Catch, Finally
<1>5. CASE \E i \in Runs : StatusOk(i)
  <2> PICK i \in Runs : StatusOk(i)
    BY <1>5
  <2>1. output'.run = i
    BY StatusOkShows
  <2>2. Waiting(i) /\ Finally(i) /\ UNCHANGED response
    BY DEF StatusOk
  <2> QED BY <2>1, <2>2 DEF Finally
<1>6. CASE UNCHANGED <<runs, panes>>
  BY <1>6
<1> QED
  BY <1>1, <1>2, <1>3, <1>4, <1>5, <1>6
     DEF Next, Handler, EditorLoads, Type, ClickLanguage

\* Every step keeps the panes to the last run.
LEMMA NextPanes ==
  ASSUME Types, OneHandler, PanesOfLast, [Next]_vars
  PROVE  PanesOfLast'
<1> USE RunsAssumption
<1> USE DEF Types, OneHandler, PanesOfLast, Waiting, Failed, Runs, runs, panes,
            vars
<1>1. CASE \E i \in Runs : ClickRun(i)
  BY <1>1 DEF ClickRun, ClearPanes
<1>2. CASE \E i \in Runs : FetchAnswers(i)
  BY <1>2 DEF FetchAnswers
<1>3. CASE \E i \in Runs : FetchFails(i)
  BY <1>3 DEF FetchFails, Catch, Finally, NoReply
<1>4. CASE \E i \in Runs : StatusNotOk(i)
  BY <1>4 DEF StatusNotOk, Catch, Finally
<1>5. CASE \E i \in Runs : StatusOk(i)
  <2> PICK i \in Runs : StatusOk(i)
    BY <1>5
  <2>1. /\ output'.run = i /\ output'.says # "running"
        /\ details' \in {0, i}
        /\ IF response[i].json /\ response[i].error
           THEN card' = i
           ELSE card' = card /\ output'.says # "nothing"
    BY StatusOkShows
  <2>2. i > 0
    OBVIOUS
  <2>3. handlers[i] = "body" /\ response[i].ok
    BY Zenon DEF StatusOk
  <2>4. isRequestInFlight' = FALSE /\ response' = response
    BY DEF StatusOk, Finally
  <2>5. i = output.run /\ isRequestInFlight
    BY <2>3
  <2> QED BY <2>1, <2>2, <2>3, <2>4, <2>5
<1>6. CASE UNCHANGED <<runs, panes>>
  BY <1>6
<1> QED
  BY <1>1, <1>2, <1>3, <1>4, <1>5, <1>6
     DEF Next, Handler, EditorLoads, Type, ClickLanguage

-----------------------------------------------------------------------------
(* The theorems.                                                           *)

\* The invariant holds when the page opens, and every step keeps it.
LEMMA Inductive == Spec => []IInv
<1>1. IInv /\ [Next]_vars => IInv'
  BY NextTypes, NextEditor, NextSent, NextHandler, NextPanes DEF IInv
<1> QED BY <1>1, InitInvariant, PTL DEF Spec

\* The variables keep their types, and the flag is up exactly while a handler
\* waits (output-pane.astro).
THEOREM TypeCorrect == Spec => []TypeOK
<1>1. IInv => TypeOK
  BY DEF IInv, Types, OneHandler, Waiting, TypeOK
<1> QED BY <1>1, Inductive, PTL

\* However often the language changes, a starter is sent under its own
\* language, unless a choice came before the editor did (editor-pane.astro,
\* language-sidebar.astro).
THEOREM EditorFollows == Spec => []EditorFollowsLanguage
<1>1. IInv => EditorFollowsLanguage
  BY DEF IInv, EditorBelieves, SentAsSeen, EditorFollowsLanguage
<1> QED BY <1>1, Inductive, PTL

\* Whatever a reply says and however it fails, the panes are those of the
\* last run (output-pane.astro).
THEOREM ShownIsLast == Spec => []ShownIsLastReply
<1>1. IInv => ShownIsLastReply
  BY DEF IInv, Types, OneHandler, PanesOfLast, ShownIsLastReply
<1> QED BY <1>1, Inductive, PTL

\* A change of language replaces no code but the starter of the language
\* before, typed again or not (editor-pane.astro, setEditorLanguage).
THEOREM OwnCodeStays == Spec => OwnCodeKept
<1>1. IInv /\ [Next]_vars =>
        [\A l \in Languages : loaded /\ ClickLanguage(l) /\ text' # text =>
           text = starterCode(activeLanguage)]_vars
  BY DEF IInv, EditorBelieves, ClickLanguage, setEditorLanguage, ReplaceStarter
<1> QED BY <1>1, Inductive, PTL DEF Spec, OwnCodeKept
=============================================================================
