------------------------------ MODULE SuiteImport ------------------------------
(***************************************************************************)
(* The task script scripts/suite.py import_run: an archive's files are cut *)
(* into templates at double blank lines; a suite is created when a file    *)
(* begins and every template goes to the suite created last.               *)
(***************************************************************************)
EXTENDS GatewayList, Sequences

CONSTANTS
    Archives    \* what an archive can be: files, in the order of os.walk, each
                \* of them the sequence of its pieces, "text" or "blank"

ASSUME ArchivesHavePieces == Archives \subseteq Seq(Seq({"text", "blank"}) \ {<< >>})

VARIABLES
    state,      \* of the task: "waiting", "running", "ended", "failed"
    archive, file, piece,
    prev,       \* prev_template: "none", "blank" or "text"
    suite,      \* suite_id, 0 for None
    made,       \* of each file: the suites created while it was read
    placed,     \* <<file, piece, suite>> of the templates created
    refused     \* <<file, piece>> of the ones the gateway refused

importVars == <<state, archive, file, piece, prev, suite, made, placed, refused>>
placeVars  == <<archive, made, placed, refused>>

ImportInit ==
    /\ state = "waiting"
    /\ archive \in Archives
    /\ file = 1 /\ piece = 1
    /\ prev = "none"
    /\ suite = 0
    /\ made = [f \in DOMAIN archive |-> {}]
    /\ placed = {}
    /\ refused = {}

-------------------------------------------------------------------------------
(* Faulty variants of the definitions below: the properties fail on them. *)

NoSeparator == prev             \* no None between the files

-------------------------------------------------------------------------------
(* Where the generator stands: before a piece, or at the end of a file, where
   it yields None. *)
Reading   == state = "running" /\ file <= Len(archive)
Piece     == archive[file][piece]
AtPiece   == Reading /\ piece <= Len(archive[file])
OpensFile(p) == prev = "none" /\ p = "text"
Separator == "none"

StartImport ==
    /\ state = "waiting"
    /\ state' = "running"
    /\ UNCHANGED <<placeVars, file, piece, prev, suite, listVars>>

(* A new file: suite.create.  prev_template is set after it. *)
CreateSuite ==
    /\ AtPiece /\ OpensFile(Piece)
    /\ Create("suite", [key |-> NoKey])
    /\ suite' = NewId
    /\ made' = [made EXCEPT ![file] = @ \cup {NewId}]
    /\ prev' = Piece
    /\ UNCHANGED <<state, archive, file, piece, placed, refused>>

SkipBlank ==
    /\ AtPiece /\ Piece = "blank"
    /\ prev' = "blank"
    /\ piece' = piece + 1
    /\ UNCHANGED <<placeVars, state, file, suite, listVars>>

(* template.create, whose answer nobody looks at.  The gateway refuses it with
   suite_id None, or when somebody has removed the suite. *)
CreateTemplate ==
    /\ AtPiece /\ Piece = "text" /\ ~OpensFile(Piece)
    /\ prev' = Piece
    /\ piece' = piece + 1
    /\ \/ /\ suite \in Ids("suite")
          /\ Create("template", [key |-> NoKey, suite |-> suite, text |-> UserText])
          /\ placed' = placed \cup {<<file, piece, suite>>}
          /\ UNCHANGED refused
       \/ /\ refused' = refused \cup {<<file, piece>>}
          /\ UNCHANGED <<placed, listVars>>
    /\ UNCHANGED <<state, archive, file, suite, made>>

NextFile ==
    /\ Reading /\ ~AtPiece
    /\ prev' = Separator
    /\ file' = file + 1
    /\ piece' = 1
    /\ UNCHANGED <<placeVars, state, suite, listVars>>

(* import_run returns None, which the executor takes for no result: the task
   fails in any case.  "failed" here is an exception on the way: the archive or
   a file cannot be read, which is before the file's first piece, there is no
   connection, or the answer to suite.create has no id. *)
EndTask(how) ==
    /\ state' = how
    /\ file' = 1 /\ piece' = 1
    /\ prev' = "none" /\ suite' = 0
    /\ UNCHANGED <<placeVars, listVars>>

EndImport == state = "running" /\ ~Reading /\ EndTask("ended")

ImportFails ==
    /\ state = "running"
    /\ piece = 1 \/ (AtPiece /\ Piece = "text")
    /\ EndTask("failed")

ImportNext ==
    \/ StartImport \/ CreateSuite \/ SkipBlank \/ CreateTemplate
    \/ NextFile \/ EndImport \/ ImportFails

-------------------------------------------------------------------------------
ImportTypeOK ==
    /\ state \in {"waiting", "running", "ended", "failed"}
    /\ archive \in Archives
    /\ file \in 1 .. Len(archive) + 1 /\ piece \in Nat \ {0}
    /\ prev \in {"none", "blank", "text"}
    /\ suite \in 0 .. MaxId
    /\ made \in [DOMAIN archive -> SUBSET (1 .. MaxId)]
    /\ placed \subseteq (DOMAIN archive) \X (Nat \ {0}) \X (1 .. MaxId)
    /\ refused \subseteq (DOMAIN archive) \X (Nat \ {0})

Settled(f, p) == <<f, p>> \in refused \/ \E q \in placed : q[1] = f /\ q[2] = p

(* A template goes to the one suite of its own file, and at the end every
   template is placed or was refused.  A file that begins with a blank piece
   is the exception: it gets no suite, its templates go to the suite of the
   file before it (suite.py, 82-107). *)
OwnSuite ==
    /\ \A f \in DOMAIN archive : \A i, j \in made[f] : i = j
    /\ \A p \in placed : archive[p[1]][1] = "text" => p[3] \in made[p[1]]
    /\ state = "ended" =>
         \A f \in DOMAIN archive : \A p \in DOMAIN archive[f] :
            archive[f][p] = "text" => Settled(f, p)

================================================================================
