----------------------------- MODULE CompilerPage -----------------------------
(***************************************************************************)
(* The page of the compiler in one browser: the sidebar's language, the    *)
(* editor that loads late, and the run button with its handlers, which     *)
(* wait for the network while the user goes on.                            *)
(***************************************************************************)
EXTENDS Integers

CONSTANTS
  Languages,   \* the languages of the sidebar
  MaxRuns      \* bound: clicks on "run" that send a request

ASSUME RunsAssumption == MaxRuns \in Nat

VARIABLES
  pressed,             \* the language button that is pressed
  loaded,              \* whether monaco has loaded: editorRef is not null
  text,                \* what the editor holds
  activeLanguage,      \* the language the editor works in
  activeStarterCode,   \* the code it has, or will have when it loads
  isStarterCode,
  isRequestInFlight,
  handlers,            \* where the handler of each run is
  sent,                \* what the last request holds: [language, code], and
                       \* history: whether the user typed or was missed
  response,            \* what came back: [ok, json, error], as yet NoReply
  output,              \* the output pane: [run, says]
  card,                \* the run whose error the card shows, 0 when hidden
  details,             \* the run whose time and memory are shown, 0 for "-"
  typed,               \* history: whether the user has typed
  missed               \* history: whether a choice came before the editor did

editor == <<loaded, text, activeLanguage, activeStarterCode, isStarterCode,
            typed, missed>>
panes  == <<output, card, details>>
runs   == <<isRequestInFlight, handlers, sent, response>>
vars   == <<pressed, editor, runs, panes>>

Runs == 1..MaxRuns

\* Codes: the starter of each language, a file's, the user's, or none.
starterCode(l) == <<"starter", l>>
File  == <<"file", "of the address">>
Own   == <<"own", "of the user">>
Empty == <<"empty", "">>

Replies == [ok : BOOLEAN, json : BOOLEAN, error : BOOLEAN]
Nothing == [run |-> 0, says |-> "placeholder"]
NoReply == [ok |-> FALSE, json |-> FALSE, error |-> FALSE]

-----------------------------------------------------------------------------
\* The page of a file opens with its code in its language, the plain page
\* with the starter; the button of that language is pressed.
Init == /\ pressed \in Languages
        /\ activeLanguage = pressed
        /\ \/ activeStarterCode = starterCode(pressed) /\ isStarterCode = TRUE
           \/ activeStarterCode = File /\ isStarterCode = FALSE
        /\ loaded = FALSE /\ text = Empty
        /\ typed = FALSE /\ missed = FALSE
        /\ isRequestInFlight = FALSE
        /\ handlers = [i \in Runs |-> "none"]
        /\ sent = [language |-> pressed, code |-> Empty, astray |-> FALSE]
        /\ response = [i \in Runs |-> NoReply]
        /\ output = Nothing /\ card = 0 /\ details = 0

-----------------------------------------------------------------------------
(* The sidebar and the editor.                                             *)

EditorLoads == /\ ~loaded
               /\ loaded' = TRUE
               /\ text' = activeStarterCode
               /\ missed' = (pressed # activeLanguage)
               /\ UNCHANGED <<pressed, activeLanguage, activeStarterCode,
                              isStarterCode, typed, runs, panes>>

\* Mutant: the text is not compared with the starter.
MutReplaceStarter(l) ==
  IF isStarterCode
  THEN /\ text' = starterCode(l) /\ activeStarterCode' = starterCode(l)
       /\ UNCHANGED isStarterCode
  ELSE UNCHANGED <<text, activeStarterCode, isStarterCode>>

\* Mutant: the starter of before stays the one compared with.
MutKeepStarter(l) ==
  IF isStarterCode /\ text = activeStarterCode
  THEN /\ text' = starterCode(l)
       /\ UNCHANGED <<isStarterCode, activeStarterCode>>
  ELSE /\ isStarterCode' = FALSE
       /\ UNCHANGED <<text, activeStarterCode>>

\* The untouched starter is replaced by the next one; once it was found
\* changed, no code is replaced any more.
ReplaceStarter(l) ==
  IF isStarterCode /\ text = activeStarterCode
  THEN /\ text' = starterCode(l) /\ activeStarterCode' = starterCode(l)
       /\ UNCHANGED isStarterCode
  ELSE /\ isStarterCode' = FALSE
       /\ UNCHANGED <<text, activeStarterCode>>

setEditorLanguage(l) == /\ loaded
                        /\ ReplaceStarter(l)
                        /\ activeLanguage' = l
                        /\ missed' = FALSE

\* The button's handler tells the editor, which does not hear it while it
\* loads.
ClickLanguage(l) ==
  /\ pressed' = l
  /\ \/ setEditorLanguage(l)
     \/ ~loaded /\ UNCHANGED <<text, activeLanguage, activeStarterCode,
                               isStarterCode, missed>>
  /\ UNCHANGED <<loaded, typed, runs, panes>>

\* Code of the user's own, or a starter again, by undo for instance.
Type == /\ loaded
        /\ text' \in {Own, activeStarterCode} \ {text}
        /\ typed' = TRUE
        /\ UNCHANGED <<pressed, loaded, activeLanguage, activeStarterCode,
                       isStarterCode, missed, runs, panes>>

-----------------------------------------------------------------------------
(* The run button.                                                         *)

\* Mutant: the flag is not asked.
MutMayRun == TRUE

MayRun == ~isRequestInFlight

\* Mutant: the card of the run before stays.
MutClearPanes(i) == /\ output' = [run |-> i, says |-> "running"]
                    /\ details' = 0
                    /\ UNCHANGED card

ClearPanes(i) == /\ output' = [run |-> i, says |-> "running"]
                 /\ card' = 0 /\ details' = 0

\* Code and language are those of the click; getCode gives "" while the
\* editor is not there.
ClickRun(i) ==
  /\ MayRun
  /\ handlers[i] = "none" /\ \A j \in 1..(i - 1) : handlers[j] # "none"
  /\ sent' = [language |-> pressed, code |-> text, astray |-> typed \/ missed]
  /\ isRequestInFlight' = TRUE
  /\ handlers' = [handlers EXCEPT ![i] = "fetch"]
  /\ ClearPanes(i)
  /\ UNCHANGED <<pressed, editor, response>>

\* Headers first, then the body, which may not be JSON.
FetchAnswers(i) ==
  /\ handlers[i] = "fetch"
  /\ \E r \in Replies : response' = [response EXCEPT ![i] = r]
  /\ handlers' = [handlers EXCEPT ![i] = "body"]
  /\ UNCHANGED <<pressed, editor, isRequestInFlight, sent, panes>>

Finally(i) == /\ handlers' = [handlers EXCEPT ![i] = "done"]
              /\ isRequestInFlight' = FALSE

\* Mutant: the flag is reset behind a success only.
MutCatch(i) == /\ output' = [run |-> i, says |-> "nothing"]
               /\ card' = i /\ details' = 0
               /\ handlers' = [handlers EXCEPT ![i] = "done"]
               /\ UNCHANGED <<pressed, editor, isRequestInFlight, sent, response>>

Catch(i) == /\ output' = [run |-> i, says |-> "nothing"]
            /\ card' = i /\ details' = 0
            /\ Finally(i)
            /\ UNCHANGED <<pressed, editor, sent, response>>

FetchFails(i) == handlers[i] = "fetch" /\ Catch(i)

StatusNotOk(i) == handlers[i] = "body" /\ ~response[i].ok /\ Catch(i)

\* A body that is not JSON reads as an empty one.
StatusOk(i) ==
  /\ handlers[i] = "body" /\ response[i].ok
  /\ LET payload == response[i].json
         error   == payload /\ response[i].error
     IN /\ \E some \in IF payload THEN BOOLEAN ELSE {FALSE} :
             output' = [run |-> i, says |-> IF some THEN "output"
                                            ELSE IF error THEN "nothing"
                                            ELSE "No output."]
        /\ details' = IF payload THEN i ELSE 0
        /\ card' = IF error THEN i ELSE card
  /\ Finally(i)
  /\ UNCHANGED <<pressed, editor, sent, response>>

-----------------------------------------------------------------------------
Handler(i) == FetchAnswers(i) \/ FetchFails(i) \/ StatusNotOk(i) \/ StatusOk(i)

Next == \/ EditorLoads \/ Type
        \/ \E l \in Languages : ClickLanguage(l)
        \/ \E i \in Runs : ClickRun(i) \/ Handler(i)

Spec == Init /\ [][Next]_vars

\* A fetch settles in the end, if only by failing, and so does the reading
\* of a body.
FairSpec == Spec /\ \A i \in Runs : WF_vars(Handler(i))

-----------------------------------------------------------------------------
(* Properties.                                                             *)

Codes == {starterCode(l) : l \in Languages} \cup {File, Own, Empty}

\* Types of the variables; the flag tells whether a handler is under way.
TypeOK ==
  /\ {pressed, activeLanguage} \subseteq Languages
  /\ {text, activeStarterCode} \subseteq Codes
  /\ {loaded, isStarterCode, typed, missed} \subseteq BOOLEAN
  /\ handlers \in [Runs -> {"none", "fetch", "body", "done"}]
  /\ sent \in [language : Languages, code : Codes, astray : BOOLEAN]
  /\ response \in [Runs -> Replies]
  /\ output.run \in 0..MaxRuns /\ {card, details} \subseteq 0..MaxRuns
  /\ isRequestInFlight = (\E i \in Runs : handlers[i] \in {"fetch", "body"})

\* The editor works in the language of the pressed button, and an untouched
\* starter is the one of that language, in the editor and in every request;
\* only a choice made before the editor had loaded goes past it, until the
\* next one (editor-pane.astro, language-sidebar.astro, output-pane.astro).
EditorFollowsLanguage ==
  /\ loaded /\ ~missed =>
       /\ activeLanguage = pressed
       /\ ~typed => text \in {starterCode(pressed), File}
  /\ ~sent.astray =>
       sent.code \in {starterCode(sent.language), File, Empty}

\* A change of language never takes away code that the user wrote or a file
\* brought: it replaces nothing but the starter of the language before.
OwnCodeKept ==
  [][\A l \in Languages : loaded /\ ClickLanguage(l) /\ text' # text =>
       text = starterCode(activeLanguage)]_vars

Failed(i) == ~response[i].ok \/ (response[i].json /\ response[i].error)

\* What the three panes show is always of one run, the last: nothing of an
\* earlier one stays or comes back, an execution that failed has its card,
\* and no pane is left empty without one (output-pane.astro).
ShownIsLastReply ==
  LET last == output.run
      shown == IF isRequestInFlight THEN {0} ELSE {0, last}
  IN /\ \A i \in Runs : handlers[i] # "none" <=> i <= last
     /\ card \in shown /\ details \in shown
     /\ last > 0 =>
          /\ isRequestInFlight <=> output.says = "running"
          /\ ~isRequestInFlight =>
               /\ Failed(last) <=> card = last
               /\ output.says = "nothing" => card = last

\* The button comes back after every run, however it ends.
RunComesBack == isRequestInFlight ~> ~isRequestInFlight
=============================================================================
