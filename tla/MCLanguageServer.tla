-------------------------- MODULE MCLanguageServer --------------------------
(***************************************************************************)
(* The language server for TLC.  Either a session with two files, a name x, *)
(* and texts that declare it, use it, or do not parse; or one request to    *)
(* find references or to rename, made while nothing else happens.           *)
(***************************************************************************)
EXTENDS LanguageServer

VARIABLES part, code, target, refs, tokens, context, kind, cursor, edits, topEdit
request == <<part, code, target, refs, tokens, context, kind, cursor, edits, topEdit>>

MCTexts == {"def", "use", "bad"}
MCDeclares == [t \in MCTexts |-> IF t = "def" THEN {"x"} ELSE {}]
MCMentions == [t \in MCTexts |-> IF t = "use" THEN {"x"} ELSE {}]
MCChanges == {<<>>, <<"def">>, <<"use", "bad">>}

(* No program is run.                                                      *)
NoResult(name, args) == <<>>

Navigation == INSTANCE MCNavigation
    WITH program <- code, Prime <- 7, External <- NoResult,
         Names <- {"n", "k"}, TopName <- "n", NewName <- "fresh",
         Kinds <- {"constant", "memory", "function", "alias"}, MaxTokens <- 5

(* A session that is set up, on an empty disk, in which nothing is edited.  *)
Idle ==
    /\ disk = NoFiles /\ editor = NoFiles /\ phase = "ready" /\ events = MaxEvents
    /\ inbox = <<>> /\ handlers = {}
    /\ view = NoFiles /\ program = NoFiles /\ errors = {} /\ dirty = {} /\ pending = {}
    /\ outbox = <<>> /\ shown = [f \in Files |-> {}] /\ answer = NoAnswer

MCInit ==
    \/ Init /\ Navigation!NoRequest
    \/ Idle /\ Navigation!Init

MCNext ==
    \/ Next /\ UNCHANGED request
    \/ Navigation!Next /\ UNCHANGED vars

(* The fairness of LanguageServer's Spec.                                  *)
MCSpec == MCInit /\ [][MCNext]_<<vars, request>>
                 /\ WF_vars(Setup) /\ WF_vars(Server) /\ WF_vars(Deliver)

(* What the server finds under the cursor is what the parser means by it    *)
(* (MCNavigation).                                                         *)
NavigationRight == Navigation!NavigationRight
=============================================================================
