-------------------------- MODULE EngineOutputParser --------------------------
(***************************************************************************)
(* parse_engine_output (engine/engine_output_parser.py): it finds error    *)
(* messages in what a tool of the engine prints, line by line.  A line is  *)
(* the set of the patterns it matches.                                     *)
(***************************************************************************)
EXTENDS Naturals, Sequences

CONSTANTS
    Line,           \* the lines that a tool can print
    NoMessage

(* "file": starts with `file:`; "error": has `ERROR: ` in any case; "upper": has
   `ERROR`; "id": ends with `Id: ` and an id; "string": has `STRING: `; "blank":
   nothing but spaces; "mark": starts with `[WARN]` or `[FAILED]`. *)
Pattern == {"file", "error", "upper", "id", "string", "blank", "mark"}

ASSUME LinesArePatterns ==
    /\ Line \subseteq SUBSET Pattern
    /\ \A l \in Line : "blank" \in l => l = {"blank"}

(* TemplateMessage: the lines its fields were taken from, 0 for the default. *)
Message == [error : Nat, id : Nat, near : Nat]

ASSUME MessageSentinel == NoMessage \notin Message

VARIABLES
    output,         \* the lines parsed so far
    inMessage,      \* state = IN_MESSAGE, for ever after the first file: line
    current,        \* current_message
    messages        \* as a set: the lines of their errors order them

parserVars == <<output, inMessage, current, messages>>

ParserInit ==
    /\ output    = << >>
    /\ inMessage = FALSE
    /\ current   = NoMessage
    /\ messages  = {}

-------------------------------------------------------------------------------
(* The text of a STRING, an empty line, or the next section. *)
Ends(line) == line \cap {"string", "blank", "mark"} # {}

(* Faulty variants of the definitions below: the properties fail on them. *)

FirstError(line, pos) ==            \* an error does not replace an open one
    IF "error" \in line /\ current = NoMessage
      THEN [error |-> pos, id |-> 0, near |-> 0] ELSE current
KeepsOpen(message, line) == message \* current_message is not reset to None
Unparenthesized(message, line) ==   \* `message and string or not cmd`
    (message # NoMessage /\ Ends(line)) \/ line = {"blank"}

-------------------------------------------------------------------------------
Opened(line, pos) ==
    IF "error" \in line THEN [error |-> pos, id |-> 0, near |-> 0] ELSE current

WithId(message, line, pos) ==
    IF "id" \in line /\ message # NoMessage THEN [message EXCEPT !.id = pos] ELSE message

WithNear(message, line, pos) ==
    IF "string" \in line THEN [message EXCEPT !.near = pos] ELSE message

Complete(message, line) == message # NoMessage /\ Ends(line)

AfterEnd(message, line) == NoMessage

(* The first file: line; what precedes it is not looked at. *)
Wait(line) ==
    /\ ~inMessage
    /\ inMessage' = ("file" \in line)
    /\ UNCHANGED <<current, messages>>

InMessage(line) ==
    LET pos     == Len(output) + 1
        message == WithId(Opened(line, pos), line, pos)
    IN  /\ inMessage
        /\ IF Complete(message, line)
             THEN /\ messages' = messages \cup {WithNear(message, line, pos)}
                  /\ current'  = AfterEnd(message, line)
             ELSE current' = message /\ UNCHANGED messages
        /\ UNCHANGED inMessage

ParseLine(line) ==
    /\ output' = Append(output, line)
    /\ Wait(line) \/ InMessage(line)

ParserSpec == ParserInit /\ [][\E line \in Line : ParseLine(line)]_parserVars

-------------------------------------------------------------------------------
(* The variables have their types. *)
ParserTypeOK ==
    /\ output \in Seq(Line)
    /\ inMessage \in BOOLEAN
    /\ current \in Message \cup {NoMessage}
    /\ messages \subseteq Message

Has(i, pattern) == pattern \in output[i]
Closing(i) == Has(i, "string") \/ Has(i, "blank") \/ Has(i, "mark")
InFile(i) == \E f \in 1 .. Len(output) : f < i /\ Has(f, "file")

(* The errors that a reader of the output would report: those of a file that end
   on their own line or a later one, with no other error in between. *)
Reported(i) ==
    /\ Has(i, "error") /\ InFile(i)
    /\ \E j \in i .. Len(output) :
          Closing(j) /\ \A k \in i + 1 .. j : ~Has(k, "error")

(* After every line, the messages are exactly the errors to report: none is lost
   at the border of two messages, reported twice or taken from outside a file
   (engine_output_parser.py, 86-115). *)
MessagesAreReported ==
    {m.error : m \in messages} = {i \in 1 .. Len(output) : Reported(i)}

(* The id and the text of a message are those of its own block: between the
   line of its error and theirs no block ends and no other error begins. *)
FieldsFromOwnBlock ==
    \A m \in messages : \A i \in {m.id, m.near} \ {0} :
        /\ m.error <= i
        /\ \A k \in m.error + 1 .. i : ~Has(k, "error")
        /\ \A k \in m.error .. i - 1 : ~Closing(k)

=============================================================================
