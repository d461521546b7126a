--------------------------- MODULE LanguageServer ---------------------------
(***************************************************************************)
(* A session of the zkc language server.  The editor sends notifications and  *)
(* requests over an ordered stream; the server keeps the contents of every     *)
(* file in an IncrementalCompiler, recompiles all of them after each update     *)
(* and pushes the errors of each file back as diagnostics.  A handler applies   *)
(* an update in one critical section, decides in a second one which files to     *)
(* notify, and sends the notifications after it has let go of the lock.          *)
(*                                                                             *)
(* A text is abstracted to what can make another file wrong: whether it parses,  *)
(* the names it declares and the names it uses.                                   *)
(***************************************************************************)
EXTENDS Naturals, Sequences, FiniteSets, SequencesExt

CONSTANTS Files, Texts, Names,
          Broken,      \* the texts that do not parse
          Declares,    \* text -> the names it declares
          Mentions,    \* text -> the names it uses
          OnDisk,      \* the texts others keep on the disk
          Changes,     \* the lists of content changes an editor sends at once
          MaxEvents    \* what the editor, and others on the disk, do in a session

None == "none"

ASSUME SessionAssumption ==
  /\ Broken \subseteq Texts /\ None \notin Texts
  /\ Declares \in [Texts -> SUBSET Names] /\ Mentions \in [Texts -> SUBSET Names]
  /\ OnDisk \subseteq Texts
  /\ Changes \subseteq Seq(Texts)

VARIABLES disk,      \* file -> the text saved, or None
          editor,    \* file -> the text in the editor, None for a closed file
          phase,     \* "new", "waiting", "ready": how far the session is set up
          events,    \* what has happened so far, bounded by MaxEvents
          inbox,     \* messages to the server
          handlers,  \* the handlers that are running
          view,      \* compiler.files
          program,   \* what the stored program was compiled from
          errors,    \* the errors of the last compilation
          dirty,     \* dirtyDiagnostics
          pending,   \* pendingDiagnostics
          outbox,    \* notifications to the editor
          shown,     \* file -> the diagnostics the editor shows
          answer     \* the last answer to a request

client == <<disk, editor, phase, events>>
compiler == <<view, program, errors>>
vars == <<disk, editor, phase, events, inbox, handlers, view, program, errors,
          dirty, pending, outbox, shown, answer>>

NoFiles == [f \in Files |-> None]
NoAnswer == [file |-> None, asked |-> None, text |-> None, from |-> None]

-----------------------------------------------------------------------------
(* Compiling a set of files. *)

Present(fs) == {f \in Files : fs[f] # None}

\* The files are parsed in the order of a Go map, that is, in any order.
Orders(fs) == SetToSeqs(Present(fs))

ParseErrors(fs) == {[file |-> f, what |-> "syntax"] : f \in {g \in Present(fs) : fs[g] \in Broken}}

\* Of the files that declare a name, all but the first are blamed.
DuplicateErrors(fs, order) ==
  {[file |-> order[j], what |-> "duplicate"] :
     j \in {k \in DOMAIN order : \E i \in 1 .. k - 1 :
              Declares[fs[order[i]]] \cap Declares[fs[order[k]]] # {}}}

Declared(fs) == UNION {Declares[fs[f]] : f \in Present(fs)}

UnknownErrors(fs) ==
  {[file |-> f, what |-> "unknown"] :
     f \in {g \in Present(fs) : ~ (Mentions[fs[g]] \subseteq Declared(fs))}}

CompileErrors(fs, order) == ParseErrors(fs) \cup DuplicateErrors(fs, order) \cup UnknownErrors(fs)

\* A faulty Apply that keeps the old program when the new one has errors.
ApplyKeeping(fs, errs) ==
  /\ \E order \in Orders(fs) : errs = CompileErrors(fs, order)
  /\ view' = fs /\ errors' = errs
  /\ program' = IF errs = {} THEN fs ELSE program

\* Apply: the files are replaced, everything is compiled again, and the program
\* is replaced whether or not there were errors.
Apply(fs, errs) ==
  /\ \E order \in Orders(fs) : errs = CompileErrors(fs, order)
  /\ view' = fs /\ errors' = errs
  /\ program' = fs

Outcomes(fs) == {CompileErrors(fs, order) : order \in Orders(fs)}

-----------------------------------------------------------------------------
(* The editor, and the file system. *)

Init ==
  /\ disk \in [Files -> OnDisk \cup {None}]
  /\ editor = NoFiles
  /\ phase = "new"
  /\ events = 0
  /\ inbox = <<>>
  /\ handlers = {}
  /\ view = NoFiles /\ program = NoFiles /\ errors = {}
  /\ dirty = {} /\ pending = {}
  /\ outbox = <<>>
  /\ shown = [f \in Files |-> {}]
  /\ answer = NoAnswer

server == <<handlers, view, program, errors, dirty, pending, outbox, shown, answer>>

Message(kind, f, texts) == [kind |-> kind, file |-> f, texts |-> texts]

Send(msg) == inbox' = Append(inbox, msg)

Event == phase = "ready" /\ events < MaxEvents /\ events' = events + 1

\* The editor sends nothing else until the initialize request is answered.
SendInitialize ==
  /\ phase = "new" /\ phase' = "waiting"
  /\ Send(Message("initialize", None, <<>>))
  /\ UNCHANGED <<disk, editor, events, server>>

SendInitialized ==
  /\ phase = "waiting" /\ inbox = <<>> /\ handlers = {}
  /\ phase' = "ready"
  /\ Send(Message("initialized", None, <<>>))
  /\ UNCHANGED <<disk, editor, events, server>>

SendOpen(f, t) ==
  /\ Event /\ editor[f] = None
  /\ editor' = [editor EXCEPT ![f] = t]
  /\ Send(Message("open", f, <<t>>))
  /\ UNCHANGED <<disk, phase, server>>

SendChange(f, ts) ==
  /\ Event /\ editor[f] # None
  /\ editor' = [editor EXCEPT ![f] = IF ts = <<>> THEN @ ELSE Last(ts)]
  /\ Send(Message("change", f, ts))
  /\ UNCHANGED <<disk, phase, server>>

SendClose(f) ==
  /\ Event /\ editor[f] # None
  /\ editor' = [editor EXCEPT ![f] = None]
  /\ Send(Message("close", f, <<>>))
  /\ UNCHANGED <<disk, phase, server>>

Save(f) ==
  /\ Event /\ editor[f] # None
  /\ disk' = [disk EXCEPT ![f] = editor[f]]
  /\ Send(Message("saved", f, <<>>))
  /\ UNCHANGED <<editor, phase, server>>

\* Somebody else writes or removes a file that is not open, and the editor
\* passes that on.
DiskChange(f, t) ==
  /\ Event /\ editor[f] = None /\ disk[f] # t
  /\ disk' = [disk EXCEPT ![f] = t]
  /\ Send(Message("watched", f, <<>>))
  /\ UNCHANGED <<editor, phase, server>>

\* A request about an open document; what the user is looking at goes with it.
Ask(f) ==
  /\ Event /\ editor[f] # None
  /\ Send(Message("request", f, <<editor[f]>>))
  /\ UNCHANGED <<disk, editor, phase, server>>

\* The editor replaces the diagnostics of one file.
Deliver ==
  /\ outbox # <<>>
  /\ shown' = [shown EXCEPT ![Head(outbox).file] = Head(outbox).diags]
  /\ outbox' = Tail(outbox)
  /\ UNCHANGED <<client, inbox, handlers, compiler, dirty, pending, answer>>

-----------------------------------------------------------------------------
(* The server. *)

Handler(msg) == [msg |-> msg, stage |-> "begin", text |-> None, errs |-> {}, todo |-> <<>>]

\* The connection reads the next message when the handler of the last returned.
Receive ==
  /\ inbox # <<>> /\ handlers = {}
  /\ handlers' = {Handler(Head(inbox))}
  /\ inbox' = Tail(inbox)
  /\ UNCHANGED <<client, compiler, dirty, pending, outbox, shown, answer>>

Becomes(h, g) == handlers' = (handlers \ {h}) \cup {g}
Returns(h) == handlers' = handlers \ {h}

\* Initialize: all the files found on the disk; the errors have to wait.
Initialize(h) ==
  /\ h.msg.kind = "initialize"
  /\ \E errs \in Outcomes(disk) : Apply(disk, errs) /\ pending' = errs
  /\ dirty' = {}
  /\ Returns(h)
  /\ UNCHANGED <<client, inbox, outbox, shown, answer>>

Initialized(h) ==
  /\ h.msg.kind = "initialized" /\ h.stage = "begin"
  /\ Becomes(h, [h EXCEPT !.stage = "publish", !.errs = pending])
  /\ pending' = {}
  /\ UNCHANGED <<client, inbox, compiler, dirty, outbox, shown, answer>>

\* The text a document has after a notification: the last one it carries.
Edited(h) == Last(h.msg.texts)

ApplyText(h, t) ==
  LET fs == [view EXCEPT ![h.msg.file] = t]
  IN  \E errs \in Outcomes(fs) :
        /\ Apply(fs, errs)
        /\ Becomes(h, [h EXCEPT !.stage = "publish", !.errs = errs])

DidOpen(h) ==
  /\ h.msg.kind = "open" /\ h.stage = "begin"
  /\ ApplyText(h, Edited(h))
  /\ UNCHANGED <<client, inbox, dirty, pending, outbox, shown, answer>>

\* A change without content is dropped at once.
DidChange(h) ==
  /\ h.msg.kind = "change" /\ h.stage = "begin"
  /\ IF h.msg.texts = <<>>
     THEN Returns(h) /\ UNCHANGED compiler
     ELSE ApplyText(h, Edited(h))
  /\ UNCHANGED <<client, inbox, dirty, pending, outbox, shown, answer>>

\* DidClose goes back to the saved file, which it reads before it takes the lock;
\* a file that cannot be read is evicted.
CloseRead(h) ==
  /\ h.msg.kind = "close" /\ h.stage = "begin"
  /\ Becomes(h, [h EXCEPT !.stage = "apply", !.text = disk[h.msg.file]])
  /\ UNCHANGED <<client, inbox, compiler, dirty, pending, outbox, shown, answer>>

\* A faulty close that waits for a file that is not on the disk.
CloseApplyPresent(h) ==
  /\ h.msg.kind = "close" /\ h.stage = "apply" /\ h.text # None
  /\ ApplyText(h, h.text)
  /\ UNCHANGED <<client, inbox, dirty, pending, outbox, shown, answer>>

CloseApply(h) ==
  /\ h.msg.kind = "close" /\ h.stage = "apply"
  /\ ApplyText(h, h.text)
  /\ UNCHANGED <<client, inbox, dirty, pending, outbox, shown, answer>>

\* didSave and didChangeWatchedFiles are accepted silently.
Silent(h) ==
  /\ h.msg.kind \in {"saved", "watched"}
  /\ Returns(h)
  /\ UNCHANGED <<client, inbox, compiler, dirty, pending, outbox, shown, answer>>

\* Hover, definition, rename and the like take the text and the program in one
\* critical section and work on what they have taken.
Request(h) ==
  /\ h.msg.kind = "request"
  /\ answer' = [file |-> h.msg.file, asked |-> h.msg.texts[1],
                text |-> view[h.msg.file], from |-> program[h.msg.file]]
  /\ Returns(h)
  /\ UNCHANGED <<client, inbox, compiler, dirty, pending, outbox, shown>>

Diagnostics(errs, f) == {e.what : e \in {x \in errs : x.file = f}}
Affected(errs) == {e.file : e \in errs}

\* A faulty choice of files that forgets to clear those that are clean now.
ToNotifyWithoutClears(errs) == Affected(errs)

\* The files with errors, and those that had some when last told.
ToNotify(errs) == Affected(errs) \cup dirty

\* publishDiagnostics, under the lock: what to send, and what is dirty from now on.
Publish(h) ==
  /\ h.stage = "publish"
  /\ Becomes(h, [h EXCEPT !.stage = "notify",
                          !.todo = [f \in ToNotify(h.errs) |-> Diagnostics(h.errs, f)]])
  /\ dirty' = Affected(h.errs)
  /\ UNCHANGED <<client, inbox, compiler, pending, outbox, shown, answer>>

\* ... and after the lock was released, the notifications in any order.
Notify(h) ==
  /\ h.stage = "notify" /\ DOMAIN h.todo # {}
  /\ \E f \in DOMAIN h.todo :
       /\ outbox' = Append(outbox, [file |-> f, diags |-> h.todo[f]])
       /\ Becomes(h, [h EXCEPT !.todo = [g \in DOMAIN h.todo \ {f} |-> h.todo[g]]])
  /\ UNCHANGED <<client, inbox, compiler, dirty, pending, shown, answer>>

NotifyEnd(h) ==
  /\ h.stage = "notify" /\ DOMAIN h.todo = {}
  /\ Returns(h)
  /\ UNCHANGED <<client, inbox, compiler, dirty, pending, outbox, shown, answer>>

Handle(h) ==
  \/ Initialize(h) \/ Initialized(h)
  \/ DidOpen(h) \/ DidChange(h) \/ CloseRead(h) \/ CloseApply(h)
  \/ Silent(h) \/ Request(h)
  \/ Publish(h) \/ Notify(h) \/ NotifyEnd(h)

Setup == SendInitialize \/ SendInitialized

Edit ==
  \E f \in Files : \/ \E t \in Texts : SendOpen(f, t)
                   \/ \E ts \in Changes : SendChange(f, ts)
                   \/ SendClose(f) \/ Save(f) \/ Ask(f)
                   \/ \E t \in OnDisk \cup {None} : DiskChange(f, t)

Server == Receive \/ \E h \in handlers : Handle(h)

Next == Setup \/ Edit \/ Deliver \/ Server

\* The editor goes through with the handshake and reads its notifications; the
\* server keeps reading messages and its handlers run.
Spec == Init /\ [][Next]_vars
             /\ WF_vars(Setup) /\ WF_vars(Server) /\ WF_vars(Deliver)

-----------------------------------------------------------------------------

TypeOK ==
  /\ disk \in [Files -> Texts \cup {None}]
  /\ view \in [Files -> Texts \cup {None}]
  /\ dirty \subseteq Files
  /\ Cardinality(handlers) <= 1
  /\ \A f \in Files : shown[f] \subseteq {"syntax", "duplicate", "unknown"}

\* Nothing is under way between the editor and the server.
Quiet == phase = "ready" /\ inbox = <<>> /\ handlers = {} /\ outbox = <<>>

\* "To avoid stale squiggles": once nothing is under way the editor shows, for
\* every file, the errors of the last compilation, although a duplicate is blamed
\* on whichever file was parsed second and an edit of one file moves the errors
\* of another (publishDiagnostics, dirtyDiagnostics).
NoStaleSquiggles == Quiet => \A f \in Files : shown[f] = Diagnostics(errors, f)

\* What the server knows of an open document is current: a request is answered
\* from the text the user had when it was made and from a program compiled from
\* that very text, with or without errors in it; and once nothing is under way the
\* compiler holds the text the editor holds, whatever was opened, changed twice at
\* once, closed and opened again before (DidOpen, DidChange, DidClose, Rename).
AnswersCurrent ==
  /\ answer.text = answer.asked /\ answer.from = answer.asked
  /\ Quiet => \A f \in Files : editor[f] # None => view[f] = editor[f]

\* Whatever is edited, the editor ends up with the diagnostics of the files as
\* the server sees them, and keeps them.
Settles == <>[](Quiet /\ NoStaleSquiggles)
=============================================================================
