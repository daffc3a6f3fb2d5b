------------------------------ MODULE AISessions ------------------------------
(***************************************************************************)
(* SessionManager of @mariachi/ai over DrizzleAISessionStore, for one       *)
(* session: open, send with its fallback models and its token budget, and   *)
(* save in its transaction.  Each await is a step.  The state object of a   *)
(* session is shared by the callers that found it live; a load makes a new  *)
(* one, named after its caller.  A stream is a send with one model.  Tool   *)
(* results, prompts and the telemetry are left out.                         *)
(***************************************************************************)
EXTENDS Naturals, Sequences, SequencesExt

CONSTANTS
  AiCallers,         \* each sends one message
  AiInstances,
  AiHomeOf(_),       \* the instance a caller runs in
  Created,           \* the state object createPersisted made
  NoState,
  AiModels,          \* number of models to try
  AiBudget           \* budget.maxTotalTokens; an answer costs one

ASSUME AIAssumption ==
  /\ \A c \in AiCallers : AiHomeOf(c) \in AiInstances
  /\ Created \notin AiCallers /\ NoState \notin AiCallers \cup {Created}
  /\ AiModels \in Nat \ {0} /\ AiBudget \in Nat

States == AiCallers \cup {Created}

VARIABLES
  aiLive,       \* [AiInstances -> the state in its sessions map, or NoState]
  aiMessages,   \* [States -> its messages]
  aiTotal,      \* [States -> its tokens]
  aiStored,     \* the message rows, by position
  aiStoredTotal,
  aiRow,        \* the caller whose transaction has the session row, or NoState
  aiOf,         \* [AiCallers -> the state its send works on, or NoState]
  aiModel,      \* [AiCallers -> model it tries]
  aiSaves,      \* [AiCallers -> total its save writes]
  aiFrom,       \* [AiCallers -> rows its save counted]
  aiStep,       \* [AiCallers -> step]
  aiForked      \* whether a state was opened while another one was live

aiVars == <<aiLive, aiMessages, aiTotal, aiStored, aiStoredTotal, aiRow, aiOf,
            aiModel, aiSaves, aiFrom, aiStep, aiForked>>
stateVars == <<aiLive, aiMessages, aiTotal, aiForked>>
storeVars == <<aiStored, aiStoredTotal, aiRow>>

AiInit ==
  /\ \E i \in AiInstances : aiLive = [j \in AiInstances |-> IF i = j THEN Created ELSE NoState]
  /\ aiMessages = [s \in States |-> <<>>]
  /\ aiTotal = [s \in States |-> 0]
  /\ aiStored = <<>> /\ aiStoredTotal = 0 /\ aiRow = NoState
  /\ aiOf = [c \in AiCallers |-> NoState]
  /\ aiModel = [c \in AiCallers |-> 1]
  /\ aiSaves = [c \in AiCallers |-> 0]
  /\ aiFrom = [c \in AiCallers |-> 0]
  /\ aiStep = [c \in AiCallers |-> "new"]
  /\ aiForked = FALSE

AiGo(c, step) == aiStep' = [aiStep EXCEPT ![c] = step]
LiveFor(c) == aiLive[AiHomeOf(c)]

\* open: a session in memory is used as it is; store.load is awaited otherwise.
OpenLive(c) ==
  /\ aiStep[c] = "new"
  /\ LiveFor(c) # NoState
  /\ AiGo(c, "opened")
  /\ UNCHANGED <<stateVars, storeVars, aiOf, aiModel, aiSaves, aiFrom>>

Load(c) ==
  /\ aiStep[c] = "new"
  /\ LiveFor(c) = NoState
  /\ aiMessages' = [aiMessages EXCEPT ![c] = aiStored]
  /\ aiTotal' = [aiTotal EXCEPT ![c] = aiStoredTotal]
  /\ AiGo(c, "loaded")
  /\ UNCHANGED <<aiLive, aiForked, storeVars, aiOf, aiModel, aiSaves, aiFrom>>

\* sessions.set, whatever is in the map by now.
SetLive(c) ==
  /\ aiStep[c] = "loaded"
  /\ aiLive' = [aiLive EXCEPT ![AiHomeOf(c)] = c]
  /\ aiForked' = (aiForked \/ aiStored # aiMessages[c] \/ \E i \in AiInstances : aiLive[i] # NoState)
  /\ AiGo(c, "opened")
  /\ UNCHANGED <<aiMessages, aiTotal, storeVars, aiOf, aiModel, aiSaves, aiFrom>>

\* doSend up to its await: the budget, then appendInput.
Send(c) ==
  /\ aiStep[c] = "opened"
  /\ LiveFor(c) # NoState
  /\ aiTotal[LiveFor(c)] < AiBudget
  /\ aiOf' = [aiOf EXCEPT ![c] = LiveFor(c)]
  /\ aiMessages' = [aiMessages EXCEPT ![LiveFor(c)] = Append(@, <<"user", c>>)]
  /\ AiGo(c, "generate")
  /\ UNCHANGED <<aiLive, aiForked, aiTotal, storeVars, aiModel, aiSaves, aiFrom>>

\* ai/session-not-found, ai/token-budget-exceeded.
SendRefused(c) ==
  /\ aiStep[c] = "opened"
  /\ LiveFor(c) = NoState \/ aiTotal[LiveFor(c)] >= AiBudget
  /\ AiGo(c, "failed")
  /\ UNCHANGED <<stateVars, storeVars, aiOf, aiModel, aiSaves, aiFrom>>

\* The model answers: record, then save is called with the totals of now.
Generated(c) ==
  LET s == aiOf[c] IN
  /\ aiStep[c] = "generate"
  /\ aiTotal' = [aiTotal EXCEPT ![s] = @ + 1]
  /\ aiMessages' = [aiMessages EXCEPT ![s] = Append(@, <<"assistant", c, aiModel[c]>>)]
  /\ aiSaves' = [aiSaves EXCEPT ![c] = aiTotal[s] + 1]
  /\ AiGo(c, "upsert")
  /\ UNCHANGED <<aiLive, aiForked, storeVars, aiOf, aiModel, aiFrom>>

\* The model throws, or the save after it: the next model is tried.
TryNext(c) ==
  /\ aiStep[c] \in {"generate", "upsert", "count", "insert"}
  /\ aiRow' = IF aiRow = c THEN NoState ELSE aiRow
  /\ IF aiModel[c] < AiModels
     THEN aiModel' = [aiModel EXCEPT ![c] = @ + 1] /\ AiGo(c, "generate")
     ELSE UNCHANGED aiModel /\ AiGo(c, "failed")
  /\ UNCHANGED <<stateVars, aiStored, aiStoredTotal, aiOf, aiSaves, aiFrom>>

\* Mutant: the transaction does not begin with the upsert.
CountUnlocked(c) ==
  /\ aiStep[c] = "upsert"
  /\ AiGo(c, "count")
  /\ UNCHANGED <<stateVars, storeVars, aiOf, aiModel, aiSaves, aiFrom>>

\* save: the upsert takes the row of the session,
Upsert(c) ==
  /\ aiStep[c] = "upsert"
  /\ aiRow = NoState
  /\ aiRow' = c
  /\ AiGo(c, "count")
  /\ UNCHANGED <<stateVars, aiStored, aiStoredTotal, aiOf, aiModel, aiSaves, aiFrom>>

\* the stored messages are counted,
CountStored(c) ==
  /\ aiStep[c] = "count"
  /\ aiFrom' = [aiFrom EXCEPT ![c] = Len(aiStored)]
  /\ AiGo(c, "insert")
  /\ UNCHANGED <<stateVars, storeVars, aiOf, aiModel, aiSaves>>

\* and those past the count are appended; a history shorter than what is stored
\* replaces it.  Committed with the totals of the upsert.
InsertFresh(c) ==
  LET messages == aiMessages[aiOf[c]]
      from == aiFrom[c]
  IN
  /\ aiStep[c] = "insert"
  /\ aiStored' = IF from > Len(messages) THEN messages
                 ELSE aiStored \o SubSeq(messages, from + 1, Len(messages))
  /\ aiStoredTotal' = aiSaves[c]
  /\ aiRow' = IF aiRow = c THEN NoState ELSE aiRow
  /\ AiGo(c, "answered")
  /\ UNCHANGED <<stateVars, aiOf, aiModel, aiSaves, aiFrom>>

\* An instance dies: its map, its calls and their transactions are gone.
AiCrash(i) ==
  /\ aiLive[i] # NoState
  /\ aiLive' = [aiLive EXCEPT ![i] = NoState]
  /\ aiStep' = [c \in AiCallers |->
                  IF AiHomeOf(c) = i /\ aiStep[c] \notin {"new", "answered"} THEN "failed" ELSE aiStep[c]]
  /\ aiRow' = IF aiRow # NoState /\ AiHomeOf(aiRow) = i THEN NoState ELSE aiRow
  /\ UNCHANGED <<aiMessages, aiTotal, aiForked, aiStored, aiStoredTotal, aiOf, aiModel, aiSaves, aiFrom>>

AiNext ==
  \/ \E c \in AiCallers :
       \/ OpenLive(c) \/ Load(c) \/ SetLive(c) \/ Send(c) \/ SendRefused(c) \/ Generated(c)
       \/ TryNext(c) \/ Upsert(c) \/ CountStored(c) \/ InsertFresh(c)
  \/ \E i \in AiInstances : AiCrash(i)

AiSpec == AiInit /\ [][AiNext]_aiVars

-----------------------------------------------------------------------------
AiMessages == {<<"user", c>> : c \in AiCallers}
              \cup {<<"assistant", c, m>> : c \in AiCallers, m \in 1..AiModels}

AiTypeOK ==
  /\ aiLive \in [AiInstances -> States \cup {NoState}]
  /\ \A s \in States : ToSet(aiMessages[s]) \subseteq AiMessages /\ aiTotal[s] \in Nat
  /\ ToSet(aiStored) \subseteq AiMessages /\ aiStoredTotal \in Nat
  /\ aiRow \in AiCallers \cup {NoState}
  /\ aiOf \in [AiCallers -> States \cup {NoState}]
  /\ aiModel \in [AiCallers -> 1..AiModels]
  /\ aiStep \in [AiCallers -> {"new", "loaded", "opened", "generate", "upsert", "count",
                              "insert", "answered", "failed"}]
  /\ aiForked \in BOOLEAN

\* "Appends messages it does not have yet ... concurrent saves of one session
\* run one after the other": concurrent sends on one state, with failing models,
\* failing saves and crashes, store its messages once and in order, and what was
\* answered is stored.
HistoryStored ==
  ~aiForked =>
    /\ \A i \in AiInstances : aiLive[i] # NoState => IsPrefix(aiStored, aiMessages[aiLive[i]])
    /\ \A c \in AiCallers : aiStep[c] = "answered" => <<"user", c>> \in ToSet(aiStored)

\* The same comment, whoever opened the session when: a send that answered has
\* saved its messages, and they stay.
AnswersAreStored ==
  \A c \in AiCallers : aiStep[c] = "answered" => <<"user", c>> \in ToSet(aiStored)
=============================================================================
