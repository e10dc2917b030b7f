------------------------------ MODULE Console ------------------------------
(***************************************************************************)
(* How commands enter the program, in simulator-main.cc.  Start() reads    *)
(* the scenario file before anything runs.  After that CommandHandler, a   *)
(* thread of its own, reads lines from the console into m_tokens and sets  *)
(* m_readyToRead; ReadCommandTokens, an event of the simulator's thread    *)
(* that reschedules itself, takes them out.  There is no lock: every       *)
(* access to the two shared variables is a step of its own here.           *)
(*                                                                         *)
(* Accesses to one bool, and the order of stores and of loads, are those   *)
(* of the debug build on x86, so the steps interleave.  A line is the      *)
(* sequence of its tokens, those that are compared in upper case; a line   *)
(* of blanks has none.  An empty line is skipped before anything is looked *)
(* at and is left out.  `script', `scheduled', `accepted', `executed' and  *)
(* `leftover' are history: what was read, what Start() scheduled and what  *)
(* ProcessCommandTokens was called with by the simulator's thread.         *)
(***************************************************************************)
EXTENDS Integers, Sequences

CONSTANTS
  Tokens,          \* the words of a line
  Value,           \* Value[t]: the number that the word t spells
  Garbage,         \* what an uninitialized number may hold when its word spells none
  Lines,           \* the lines of a scenario
  TypedLines,      \* the lines of a user
  TotalNodes,      \* m_totalNodes
  Installed,       \* names of the modules that the nodes have: APP, and LS or DV
  MAX_SCAN_DELAY,  \* ms, 256 in the code
  MaxScript,       \* bound: lines of the scenario
  MaxLines         \* bound: lines typed at the console

MIN_SCAN_DELAY == 1
MAX_NOT_READY == 3

ASSUME TokensAssumption ==
  /\ Lines \subseteq Seq(Tokens) /\ TypedLines \subseteq Seq(Tokens)
  /\ Value \in [DOMAIN Value -> Nat]
  /\ Garbage \subseteq Nat /\ Garbage # {}
ASSUME ConsoleBounds ==
  /\ TotalNodes \in Nat
  /\ MaxScript \in Nat /\ MaxLines \in Nat
  /\ MAX_SCAN_DELAY \in Nat /\ MAX_SCAN_DELAY >= MIN_SCAN_DELAY

VARIABLES
  started,         \* Start() has returned: both threads run
  time,            \* Start's pointer into simulated time
  m_tokens,
  m_readyToRead,
  m_scanDelay,
  m_notReadyCount,
  reader,          \* where CommandHandler is
  line,            \* its commandLine
  rest,            \* the part of it that Tokenize has not pushed yet
  typed,           \* lines typed so far
  sim,             \* where ReadCommandTokens is
  quitting,        \* Simulator::Stop has been called
  script,          \* history: the lines of the scenario
  scheduled,       \* history: commands of the scenario and their times
  leftover,        \* history: m_tokens when Start() returned
  accepted,        \* history: lines for which m_readyToRead was set
  executed         \* history: commands taken out by ReadCommandTokens

startVars == <<started, time, script, scheduled, leftover>>
readerVars == <<reader, line, rest, typed, accepted>>
simThreadVars == <<sim, quitting, m_scanDelay, m_notReadyCount, executed>>
shared == <<m_tokens, m_readyToRead>>
vars == <<startVars, readerVars, simThreadVars, shared>>

IsTime(tokens) == tokens[1] = "TIME"
IsQuit(tokens) == tokens[1] = "QUIT"

(* What `sin >> number' may leave in number.                               *)
NumberOf(word) == IF word \in DOMAIN Value THEN {Value[word]} ELSE Garbage

(* LINK with a link or with two nodes, NODELINKS with a node.  Any other   *)
(* operation, and any other number of words, is dropped.                   *)
IsLinkCommand(tokens) ==
  /\ tokens[2] \in {"UP", "DOWN"}
  /\ \/ tokens[1] = "LINK" /\ Len(tokens) \in {3, 4}
     \/ tokens[1] = "NODELINKS" /\ Len(tokens) = 3

(* The nodes that a command is for: all of them, or the one that it        *)
(* numbers, "Invalid node number!" aside.                                  *)
Targets(tokens, number) ==
  IF tokens[1] = "*" THEN 0 .. TotalNodes - 1 ELSE {number} \cap (0 .. TotalNodes - 1)

(* ProcessNodeCommandTokens: a module and a command, which goes to the     *)
(* module if the node has it; VERBOSE without a setting is dropped.        *)
IsModuleCommand(tokens) ==
  /\ tokens[2] \in Installed
  /\ tokens[3] \in {"VERBOSE", "VERBOSITY"} => Len(tokens) >= 4

NamesLinks(tokens) == tokens[1] \in {"LINK", "NODELINKS"}

(* ProcessCommandTokens: what does not return early schedules an operation *)
(* on links, or a command for a module of one node or of every node.  QUIT *)
(* and the TIME that only prints are not among them, and nothing of less   *)
(* than three words is.                                                    *)
Schedules(tokens, number) ==
  /\ Len(tokens) >= 3
  /\ tokens[1] \notin {"#", "QUIT", "TIME"}
  /\ IF NamesLinks(tokens)
     THEN IsLinkCommand(tokens)
     ELSE IsModuleCommand(tokens) /\ Targets(tokens, number) # {}

(* The events that the k-th line schedules, by the nodes they are for; the *)
(* events that open and close a dump only print and are left out.          *)
Event(k, tokens, number, at) ==
  [line |-> k, cmd |-> tokens, at |-> at,
   nodes |-> IF NamesLinks(tokens) THEN {} ELSE Targets(tokens, number)]

(***************************************************************************)
(* Start(): one step per line of the scenario.                             *)
(***************************************************************************)
SkipLine(tokens) ==
  /\ tokens = <<>>
  /\ UNCHANGED <<m_tokens, time, scheduled, quitting>>

(* The wrong number of arguments: the tokens stay in m_tokens, and the     *)
(* next line is appended to them.                                          *)
RejectTime(tokens) ==
  /\ tokens # <<>> /\ IsTime(tokens)
  /\ Len(tokens) # 2
  /\ m_tokens' = tokens
  /\ UNCHANGED <<time, scheduled, quitting>>

AdvanceTime(tokens) ==
  /\ tokens # <<>> /\ IsTime(tokens)
  /\ Len(tokens) = 2
  /\ \E delta \in NumberOf(tokens[2]) : time' = time + delta
  /\ m_tokens' = <<>>
  /\ UNCHANGED <<scheduled, quitting>>

(* Wrong variant: m_tokens is not cleared after a command.                 *)
AddCommandAndKeep(tokens) ==
  /\ tokens # <<>> /\ ~IsTime(tokens)
  /\ m_tokens' = tokens
  /\ \E number \in NumberOf(tokens[1]) :
       scheduled' = IF Schedules(tokens, number)
                    THEN Append(scheduled, Event(Len(script) + 1, tokens, number, time))
                    ELSE scheduled
  /\ quitting' = (quitting \/ IsQuit(tokens))
  /\ UNCHANGED time

AddCommand(tokens) ==
  /\ tokens # <<>> /\ ~IsTime(tokens)
  /\ m_tokens' = <<>>
  /\ \E number \in NumberOf(tokens[1]) :
       scheduled' = IF Schedules(tokens, number)
                    THEN Append(scheduled, Event(Len(script) + 1, tokens, number, time))
                    ELSE scheduled
  /\ quitting' = (quitting \/ IsQuit(tokens))
  /\ UNCHANGED time

ScriptLine(l) ==
  /\ ~started
  /\ Len(script) < MaxScript
  /\ script' = Append(script, l)
  /\ LET tokens == m_tokens \o l
     IN  SkipLine(tokens) \/ RejectTime(tokens) \/ AdvanceTime(tokens) \/ AddCommand(tokens)
  /\ UNCHANGED <<started, leftover, readerVars, sim, m_scanDelay, m_notReadyCount,
                 executed, m_readyToRead>>

StartThreads ==
  /\ ~started
  /\ started' = TRUE
  /\ leftover' = m_tokens
  /\ UNCHANGED <<time, script, scheduled, readerVars, simThreadVars, shared>>

(***************************************************************************)
(* CommandHandler, the console's thread.                                   *)
(***************************************************************************)
GetLine(l) ==
  /\ started
  /\ reader = "getline"
  /\ typed < MaxLines
  /\ typed' = typed + 1
  /\ line' = l /\ rest' = l
  /\ reader' = "check"
  /\ UNCHANGED <<startVars, simThreadVars, shared, accepted>>

(* Wrong variant: the test of m_readyToRead is dropped.                    *)
NeverBusy == reader' = "tokenize"

(* "Simulator busy, please try again..."                                   *)
TestBusy == reader' = IF m_readyToRead THEN "getline" ELSE "tokenize"

CheckBusy ==
  /\ reader = "check"
  /\ TestBusy
  /\ UNCHANGED <<startVars, simThreadVars, shared, line, rest, typed, accepted>>

Tokenize ==
  /\ reader = "tokenize"
  /\ rest # <<>>
  /\ m_tokens' = Append(m_tokens, Head(rest))
  /\ rest' = Tail(rest)
  /\ UNCHANGED <<startVars, simThreadVars, m_readyToRead, reader, line, typed, accepted>>

Tokenized ==
  /\ reader = "tokenize"
  /\ rest = <<>>
  /\ reader' = IF m_tokens = <<>> THEN "getline" ELSE "ready"
  /\ UNCHANGED <<startVars, simThreadVars, shared, line, rest, typed, accepted>>

SetReady ==
  /\ reader = "ready"
  /\ m_readyToRead' = TRUE
  /\ accepted' = Append(accepted, line)
  /\ reader' = "getline"
  /\ UNCHANGED <<startVars, simThreadVars, m_tokens, line, rest, typed>>

(***************************************************************************)
(* ReadCommandTokens, on the simulator's thread.  It reschedules itself,   *)
(* so "idle" is the time until its next event.                             *)
(***************************************************************************)
(* Wrong variant: no upper limit on the delay between two scans.           *)
Backoff(delay) == delay * 2

DoubledDelay(delay) ==
  IF delay * 2 > MAX_SCAN_DELAY THEN MAX_SCAN_DELAY ELSE delay * 2

ScanNothing ==
  /\ started
  /\ sim = "idle"
  /\ ~m_readyToRead
  /\ m_notReadyCount' = (m_notReadyCount + 1) % MAX_NOT_READY
  /\ m_scanDelay' = IF m_notReadyCount' = 0 THEN DoubledDelay(m_scanDelay) ELSE m_scanDelay
  /\ UNCHANGED <<startVars, readerVars, shared, sim, quitting, executed>>

ScanReady ==
  /\ started
  /\ sim = "idle"
  /\ m_readyToRead
  /\ m_scanDelay' = MIN_SCAN_DELAY
  /\ sim' = "process"
  /\ UNCHANGED <<startVars, readerVars, shared, quitting, m_notReadyCount, executed>>

ProcessTokens ==
  /\ sim = "process"
  /\ executed' = IF m_tokens # <<>> THEN Append(executed, m_tokens) ELSE executed
  /\ quitting' = (quitting \/ (m_tokens # <<>> /\ IsQuit(m_tokens)))
  /\ sim' = "clear"
  /\ UNCHANGED <<startVars, readerVars, shared, m_scanDelay, m_notReadyCount>>

(* Wrong variant: the tokens are left for the next command.                *)
KeepTokens ==
  /\ sim = "clear"
  /\ sim' = "reset"
  /\ UNCHANGED <<startVars, readerVars, quitting, m_scanDelay, m_notReadyCount,
                 executed, shared>>

ClearTokens ==
  /\ sim = "clear"
  /\ m_tokens' = <<>>
  /\ sim' = "reset"
  /\ UNCHANGED <<startVars, readerVars, quitting, m_scanDelay, m_notReadyCount,
                 executed, m_readyToRead>>

(* Wrong variant: ReadCommandTokens does not reschedule itself.            *)
ResetAndEnd ==
  /\ sim = "reset"
  /\ m_readyToRead' = FALSE
  /\ sim' = "ended"
  /\ UNCHANGED <<startVars, readerVars, quitting, m_scanDelay, m_notReadyCount,
                 executed, m_tokens>>

ResetReady ==
  /\ sim = "reset"
  /\ m_readyToRead' = FALSE
  /\ sim' = "idle"
  /\ UNCHANGED <<startVars, readerVars, quitting, m_scanDelay, m_notReadyCount,
                 executed, m_tokens>>

(* The stop that QUIT scheduled, now or at its time in the scenario.       *)
Stop ==
  /\ started
  /\ sim = "idle" /\ quitting
  /\ sim' = "stopped"
  /\ UNCHANGED <<startVars, readerVars, shared, quitting, m_scanDelay,
                 m_notReadyCount, executed>>

Init ==
  /\ started = FALSE
  /\ time = 0
  /\ m_tokens = <<>>
  /\ m_readyToRead = FALSE
  /\ m_scanDelay = MIN_SCAN_DELAY
  /\ m_notReadyCount = 0
  /\ reader = "getline"
  /\ line = <<>> /\ rest = <<>>
  /\ typed = 0
  /\ sim = "idle"
  /\ quitting = FALSE
  /\ script = <<>> /\ scheduled = <<>> /\ leftover = <<>>
  /\ accepted = <<>> /\ executed = <<>>

CommandHandler == CheckBusy \/ Tokenize \/ Tokenized \/ SetReady
ReadCommandTokens == ScanNothing \/ ScanReady \/ ProcessTokens \/ ClearTokens \/ ResetReady

Next ==
  \/ \E l \in Lines : ScriptLine(l)
  \/ StartThreads
  \/ \E l \in TypedLines : GetLine(l)
  \/ CommandHandler
  \/ ReadCommandTokens
  \/ Stop

(* The operating system runs both threads; whether anyone types, or how    *)
(* long the scenario is, is not assumed.                                   *)
Fairness == WF_vars(CommandHandler) /\ WF_vars(ReadCommandTokens)

Spec == Init /\ [][Next]_vars
FairSpec == Spec /\ Fairness

(***************************************************************************)
(* Properties.                                                             *)
(***************************************************************************)
Events == [line : Nat, cmd : Seq(Tokens), at : Nat, nodes : SUBSET (0 .. TotalNodes - 1)]

(* Every variable stays within its type; the delay between two calls of    *)
(* ReadCommandTokens, which doubles while the console is silent, never     *)
(* passes MAX_SCAN_DELAY.                                                  *)
TypeOK ==
  /\ started \in BOOLEAN
  /\ time \in Nat
  /\ m_tokens \in Seq(Tokens)
  /\ m_readyToRead \in BOOLEAN
  /\ m_scanDelay \in MIN_SCAN_DELAY .. MAX_SCAN_DELAY
  /\ m_notReadyCount \in 0 .. MAX_NOT_READY - 1
  /\ reader \in {"getline", "check", "tokenize", "ready"}
  /\ line \in Seq(Tokens) /\ rest \in Seq(Tokens)
  /\ typed \in 0 .. MaxLines
  /\ sim \in {"idle", "process", "clear", "reset", "stopped"}
  /\ quitting \in BOOLEAN
  /\ script \in Seq(Lines)
  /\ scheduled \in Seq(Events)
  /\ leftover \in Seq(Tokens)
  /\ accepted \in Seq(Seq(Tokens)) /\ executed \in Seq(Seq(Tokens))

(* The threads' sections that read or write m_tokens.                      *)
ReaderInTokens == reader \in {"tokenize", "ready"}
SimInTokens == sim \in {"process", "clear", "reset"}

(* The two threads are never inside m_tokens at the same time, though      *)
(* m_readyToRead, tested by one and reset by the other, is no lock.        *)
MutualExclusion == ~(ReaderInTokens /\ SimInTokens)

(* What a line typed at the console becomes: what Start() left in m_tokens *)
(* is in front of the first.                                               *)
Expected(i) == IF i = 1 THEN leftover \o accepted[i] ELSE accepted[i]

(* The console's commands are executed once each, in order, with exactly   *)
(* the tokens of their line, whatever was typed in the meantime: no token  *)
(* is lost, doubled or mixed up with those of another line.  All that can  *)
(* come in front is the TIME line that Start() did not clear.              *)
CommandsIntact ==
  /\ Len(executed) <= Len(accepted)
  /\ Len(accepted) <= Len(executed) + 1
  /\ \A i \in 1 .. Len(executed) : executed[i] = Expected(i)

GoodTime(l) == Len(l) = 2 /\ l[2] \in DOMAIN Value
BadTime(l) == l # <<>> /\ IsTime(l) /\ ~GoodTime(l)

(* The time that the first k lines of the scenario add up to.              *)
TimeAfter(k) ==
  LET after[j \in 0 .. k] ==
        IF j = 0 THEN 0
        ELSE IF script[j] # <<>> /\ IsTime(script[j])
             THEN after[j - 1] + Value[script[j][2]]
             ELSE after[j - 1]
  IN  after[k]

(* Start() schedules the commands of the scenario in the order of its      *)
(* lines.  Up to the first malformed TIME line it schedules exactly what   *)
(* each line asks for, at the time that the TIME lines add up to: a well   *)
(* formed command once, for its own nodes, and a line with an error        *)
(* nothing.                                                                *)
ScriptScheduled ==
  LET lines == 1 .. Len(script)
      events == 1 .. Len(scheduled)
  IN  /\ \A i, j \in events : i < j => scheduled[i].line < scheduled[j].line
      /\ \A k \in lines :
           (script[k] # <<>> /\ \A j \in 1 .. k : ~BadTime(script[j])) =>
             \E number \in NumberOf(script[k][1]) :
               /\ Schedules(script[k], number) <=> \E i \in events : scheduled[i].line = k
               /\ \A i \in events : scheduled[i].line = k =>
                    scheduled[i] = Event(k, script[k], number, TimeAfter(k))

(* Whatever stands in the scenario, nothing is scheduled that is not one   *)
(* of its lines, of three words at least: Start() never hands over the     *)
(* tokens of two lines, although it does not clear them after a bad TIME.  *)
ScheduledAreLines ==
  \A i \in 1 .. Len(scheduled) :
    LET e == scheduled[i]
    IN  e.line \in 1 .. Len(script) /\ e.cmd = script[e.line] /\ Len(e.cmd) >= 3

(* A line for which CommandHandler has set m_readyToRead is executed,      *)
(* unless the simulation stops first.                                      *)
AcceptedIsExecuted ==
  \A i \in 1 .. MaxLines :
    Len(accepted) >= i ~> Len(executed) >= i \/ sim = "stopped"
=============================================================================
