-------------------------- MODULE TicketValidation --------------------------
(***************************************************************************)
(* planfile ticket validate: are the tickets of a strategy still about     *)
(* code that exists (ticket_validation.py)?  A scanner ran at some time    *)
(* and left its issues in a file; the command reads that file and the      *)
(* strategy, and then, ticket by ticket, the files of the project, while   *)
(* people go on editing them.                                              *)
(*                                                                         *)
(* A ticket is anchored to a rule and files, to a line and files, or to    *)
(* files alone.  An issue is a rule, a file and a line.                    *)
(***************************************************************************)
EXTENDS Naturals, Sequences, FiniteSets

CONSTANTS
  Strategy,  \* the tickets of the strategy: [rule, files (a sequence), line]
  Code,      \* the project at first: file -> [lines, issues: line -> rules]
  MaxEdits   \* bound: edits of the project

NoRule == "none"
NoLine == 0
Gone == [lines |-> 0, issues |-> {}]  \* no such file

VARIABLES
  code,     \* the project: file -> [lines, issues: pairs of a line and a rule]
  edits,
  scan,     \* [told: is there a scan file, issues: the scanner's, as read]
  at,       \* "coding", "scanned", "validates", "looks", "told"
  next,     \* the ticket being validated
  seen,     \* files of it looked at: those that exist, with their lines
  verdicts, \* the report
  fresh,    \* history: no edit since the scan
  still,    \* history: files that existed ever since the ticket's first look
  garbled   \* history: was the scan file of a shape the command does not know

validationVars == <<code, edits, scan, at, next, seen, verdicts, fresh, still, garbled>>

NoScan == [told |-> FALSE, issues |-> {}]
NothingSeen == [looked |-> 0, lines |-> {}]

ValidationInit ==
  /\ code = Code
  /\ edits = 0
  /\ scan = NoScan
  /\ at = "coding" /\ next = 1 /\ seen = NothingSeen /\ verdicts = <<>>
  /\ fresh = TRUE /\ still = {} /\ garbled = FALSE

Exists(f) == code[f].lines > 0
Detected == UNION {{<<issue[2], f, issue[1]>> : issue \in code[f].issues} : f \in DOMAIN code}
Ticket == Strategy[next]

-----------------------------------------------------------------------------
(* The project goes on: an issue is fixed, a file loses its last line,     *)
(* leaves, or gets another's name.                                         *)
Edit(changed) ==
  /\ edits < MaxEdits /\ at # "told"
  /\ edits' = edits + 1
  /\ code' = changed
  /\ fresh' = (fresh /\ at = "coding")
  /\ still' = {f \in still : changed[f].lines > 0}
  /\ UNCHANGED <<scan, at, next, seen, verdicts, garbled>>

Fix == \E f \in DOMAIN code : \E issue \in code[f].issues :
         Edit([code EXCEPT ![f].issues = @ \ {issue}])
Shorten == \E f \in DOMAIN code :
  /\ code[f].lines > 1
  /\ Edit([code EXCEPT ![f] = [lines |-> @.lines - 1,
                               issues |-> {i \in @.issues : i[1] < @.lines}]])
Rename == \E f, g \in DOMAIN code :
  /\ Exists(f) /\ ~Exists(g)
  /\ Edit([code EXCEPT ![f] = Gone, ![g] = code[f]])

-----------------------------------------------------------------------------
(* The scanner, which is not this program.                                 *)
Scan ==
  /\ at = "coding"
  /\ \E told \in BOOLEAN :
       scan' = [told |-> told, issues |-> IF told THEN Detected ELSE {}]
  /\ at' = "scanned"
  /\ fresh' = TRUE
  /\ UNCHANGED <<code, edits, next, seen, verdicts, still, garbled>>

(* The command reads the issues: a list, or a mapping with a list under    *)
(* one of the names it knows; any other mapping is a scan without issues.  *)
ReadIssues ==
  /\ at = "scanned"
  /\ \E known \in BOOLEAN :
       /\ scan' = IF known THEN scan ELSE [scan EXCEPT !.issues = {}]
       /\ garbled' = (scan.told /\ ~known)
  /\ at' = IF Strategy = <<>> THEN "told" ELSE "validates"
  /\ UNCHANGED <<code, edits, next, seen, verdicts, fresh, still>>

(* _build_issue_indexes.                                                   *)
RuleFile == {<<i[1], i[2]>> : i \in scan.issues}
FileLine == {<<i[2], i[3]>> : i \in scan.issues}
Files(t) == {t.files[i] : i \in DOMAIN t.files}

Verdict(status, reason) == [status |-> status, reason |-> reason]
Concludes(verdict) ==
  /\ verdicts' = Append(verdicts, verdict)
  /\ next' = next + 1
  /\ seen' = NothingSeen
  /\ still' = {}
  /\ at' = IF next = Len(Strategy) THEN "told" ELSE "validates"

(* A mutant: no scan is a scan without issues.                             *)
ByRuleUntoldMutant(t) ==
  IF \E f \in Files(t) : <<t.rule, f>> \in RuleFile
    THEN Verdict("current", "rule_match_found")
    ELSE Verdict("stale", "rule_no_longer_detected")

(* A rule goes before a line, and is looked for in the scan alone.         *)
ByRule(t) ==
  IF ~scan.told THEN Verdict("unknown", "scan_unavailable")
  ELSE IF \E f \in Files(t) : <<t.rule, f>> \in RuleFile
    THEN Verdict("current", "rule_match_found")
    ELSE Verdict("stale", "rule_no_longer_detected")

RuleAnchor ==
  /\ at = "validates"
  /\ Ticket.rule # NoRule /\ Ticket.files # <<>>
  /\ Concludes(ByRule(Ticket))
  /\ UNCHANGED <<code, edits, scan, fresh, garbled>>

NoAnchor ==
  /\ at = "validates"
  /\ Ticket.files = <<>>
  /\ Concludes(Verdict("unknown", "insufficient_data"))
  /\ UNCHANGED <<code, edits, scan, fresh, garbled>>

(* The others look at their files one after the other.                     *)
LookFirst ==
  /\ at = "validates"
  /\ Ticket.rule = NoRule /\ Ticket.files # <<>>
  /\ at' = "looks"
  /\ still' = {f \in Files(Ticket) : Exists(f)}
  /\ UNCHANGED <<code, edits, scan, next, seen, verdicts, fresh, garbled>>

Looked == seen.looked = Len(Ticket.files)
(* A mutant: only the last file counts.                                    *)
LookLastMutant ==
  /\ at = "looks" /\ ~Looked
  /\ LET f == Ticket.files[seen.looked + 1]
     IN  seen' = [looked |-> seen.looked + 1,
                  lines |-> IF Exists(f) THEN {<<f, code[f].lines>>} ELSE {}]
  /\ UNCHANGED <<code, edits, scan, at, next, verdicts, fresh, still, garbled>>

Look ==
  /\ at = "looks" /\ ~Looked
  /\ LET f == Ticket.files[seen.looked + 1]
     IN  seen' = [looked |-> seen.looked + 1,
                  lines |-> seen.lines \cup IF Exists(f) THEN {<<f, code[f].lines>>} ELSE {}]
  /\ UNCHANGED <<code, edits, scan, at, next, verdicts, fresh, still, garbled>>

ByLine(t) ==
  IF seen.lines = {} THEN Verdict("stale", "files_missing")
  ELSE IF \A s \in seen.lines : t.line > s[2] THEN Verdict("stale", "line_out_of_range")
  ELSE IF scan.told /\ \E s \in seen.lines : <<s[1], t.line>> \in FileLine
    THEN Verdict("current", "line_match_found")
  ELSE Verdict("unknown", "line_exists_but_not_confirmed")

LineAnchor ==
  /\ at = "looks" /\ Looked
  /\ Ticket.line # NoLine
  /\ Concludes(ByLine(Ticket))
  /\ UNCHANGED <<code, edits, scan, fresh, garbled>>

ByFile ==
  IF seen.lines = {} THEN Verdict("stale", "files_missing")
  ELSE Verdict("unknown", "file_exists_but_no_rule_or_line")

FileAnchor ==
  /\ at = "looks" /\ Looked
  /\ Ticket.line = NoLine
  /\ Concludes(ByFile)
  /\ UNCHANGED <<code, edits, scan, fresh, garbled>>

(* Another run of the command, over what the last one left behind.         *)
Again ==
  /\ at = "told"
  /\ at' = "coding"
  /\ scan' = NoScan
  /\ next' = 1 /\ verdicts' = <<>> /\ garbled' = FALSE
  /\ UNCHANGED <<code, edits, seen, fresh, still>>

ValidationNext ==
  \/ Fix \/ Shorten \/ Rename
  \/ Scan \/ ReadIssues
  \/ RuleAnchor \/ NoAnchor \/ LookFirst \/ Look \/ LineAnchor \/ FileAnchor
  \/ Again

-----------------------------------------------------------------------------
(* What a ticket says is wrong in the project.                             *)
Wrong(t) ==
  IF t.rule # NoRule THEN \E d \in Detected : d[1] = t.rule /\ d[2] \in Files(t)
  ELSE \E d \in Detected : d[2] \in Files(t) /\ d[3] = t.line

(* A ticket told "current" is still about the code when nothing was edited *)
(* since the scan; one told "stale" is not, unless the scan was of a shape *)
(* the command takes for an empty one.  Without a scan nothing is          *)
(* "current".                                                              *)
VerdictsTrue ==
  \A i \in DOMAIN verdicts : LET t == Strategy[i] IN
    /\ verdicts[i].status = "current" => scan.told /\ (fresh => Wrong(t))
    /\ verdicts[i].status = "stale" /\ fresh /\ ~garbled => ~Wrong(t)

(* A file that is there all the while is seen: "files_missing" is said     *)
(* only when each file was away at some time during the look.              *)
MissingWasMissing == at = "looks" /\ Looked /\ seen.lines = {} => still = {}
=============================================================================
