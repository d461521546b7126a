------------------------ MODULE LanguageServerProofs ------------------------
(***************************************************************************)
(* For any files, texts and length of the session: the editor is never     *)
(* left with stale diagnostics, and requests are answered from the text    *)
(* the user sees.                                                          *)
(***************************************************************************)
EXTENDS LanguageServer, TLAPS

Whats == {"syntax", "duplicate", "unknown"}
Kinds == {"initialize", "initialized", "open", "change", "close", "saved", "watched", "request"}
Contents == [Files -> Texts \cup {None}]
Errors == [file : Files, what : Whats]
Messages == [kind : Kinds, file : Files \cup {None}, texts : Seq(Texts)]
Notifications == [file : Files, diags : SUBSET Whats]
ToSend == UNION {[fs -> SUBSET Whats] : fs \in SUBSET Files}
HandlerType == [msg : Messages, stage : {"begin", "apply", "publish", "notify"},
                text : Texts \cup {None}, errs : SUBSET Errors, todo : ToSend]

(* The state of a session is well typed.                                   *)
SessionType ==
    /\ disk \in Contents /\ editor \in Contents /\ view \in Contents
    /\ phase \in {"new", "waiting", "ready"}
    /\ inbox \in Seq(Messages)
    /\ handlers \subseteq HandlerType
    /\ errors \subseteq Errors /\ pending \subseteq Errors /\ dirty \subseteq Files
    /\ outbox \in Seq(Notifications)
    /\ shown \in [Files -> SUBSET Whats]

(* The messages of the handshake come before all others, one at a time.    *)
HandshakeInv ==
    /\ \A h, g \in handlers : h = g
    /\ \A h \in handlers :
          /\ h.stage \in {"publish", "notify"} =>
                h.msg.kind \in {"initialized", "open", "change", "close"}
          /\ h.stage = "apply" => h.msg.kind = "close"
          /\ h.msg.kind = "initialize" => phase = "waiting" /\ inbox = <<>>
          /\ phase # "ready" => h.msg.kind = "initialize"
    /\ phase = "new" => inbox = <<>> /\ handlers = {}
    /\ phase # "ready" => editor = NoFiles
    /\ \A k \in 1..Len(inbox) :
          /\ inbox[k].kind \in {"open", "change", "close", "saved", "watched", "request"} =>
                inbox[k].file \in Files
          /\ inbox[k].kind = "initialize" =>
                phase = "waiting" /\ handlers = {} /\ Len(inbox) = 1
          /\ phase # "ready" => inbox[k].kind = "initialize"
          /\ inbox[k].kind = "initialized" => k = 1 /\ handlers = {}
          /\ inbox[k].kind \in {"open", "request"} => inbox[k].texts # <<>>
    /\ \A h \in handlers :
          /\ h.msg.kind \in {"open", "change", "close", "request"} => h.msg.file \in Files
          /\ h.msg.kind \in {"open", "request"} => h.msg.texts # <<>>

(* A message that sets the text of f, or closes it.                        *)
Sets(msg, f) ==
    /\ msg.file = f
    /\ \/ msg.kind \in {"open", "close"}
       \/ msg.kind = "change" /\ msg.texts # <<>>

(* After msg the document f has text t.                                    *)
Leaves(msg, t) == msg.kind # "close" /\ t = Last(msg.texts)

(* The handler has not applied its message yet.                            *)
Unapplied(h) == h.stage \in {"begin", "apply"}

(* Once the handlers hs are done a compiler with files v holds t for f.    *)
Holds(hs, v, f, t) ==
    /\ \A h \in hs : Unapplied(h) /\ Sets(h.msg, f) => Leaves(h.msg, t)
    /\ (\A h \in hs : ~(Unapplied(h) /\ Sets(h.msg, f))) => v[f] = t

(* ... and so it does when the first n messages of q are handled, too.     *)
WillHold(q, n, hs, v, f, t) ==
    /\ \A j \in 1..n :
          Sets(q[j], f) /\ (\A i \in j + 1..n : ~Sets(q[i], f)) => Leaves(q[j], t)
    /\ (\A j \in 1..n : ~Sets(q[j], f)) => Holds(hs, v, f, t)

(* Every request, and the editor, agree with what the compiler will hold.  *)
TextInv ==
    /\ program = view
    /\ answer.text = answer.asked /\ answer.from = answer.asked
    /\ \A k \in 1..Len(inbox) : inbox[k].kind = "request" =>
          WillHold(inbox, k - 1, handlers, view, inbox[k].file, inbox[k].texts[1])
    /\ \A h \in handlers :
          h.msg.kind = "request" => view[h.msg.file] = h.msg.texts[1]
    /\ \A f \in Files : editor[f] # None =>
          WillHold(inbox, Len(inbox), handlers, view, f, editor[f])

(* After the notifications o an editor that shows s shows d for f.         *)
WillShow(o, s, f, d) ==
    /\ \A j \in 1..Len(o) :
          o[j].file = f /\ (\A i \in j + 1..Len(o) : o[i].file # f) => o[j].diags = d
    /\ (\A j \in 1..Len(o) : o[j].file # f) => s[f] = d

(* The errors of the first compilation wait for the handshake to end.      *)
Unannounced ==
    \/ phase # "ready"
    \/ \E k \in 1..Len(inbox) : inbox[k].kind = "initialized"
    \/ \E h \in handlers : h.msg.kind = "initialized" /\ h.stage = "begin"

(* What the editor has been told, against the errors there are.            *)
DiagnosticsInv ==
    /\ Unannounced =>
          dirty = {} /\ pending = errors /\ \A f \in Files : WillShow(outbox, shown, f, {})
    /\ ~Unannounced /\ (\A h \in handlers : Unapplied(h)) =>
          /\ dirty = Affected(errors)
          /\ \A f \in Files : WillShow(outbox, shown, f, Diagnostics(errors, f))
    /\ \A h \in handlers :
          /\ h.stage = "publish" =>
                h.errs = errors /\ \A f \in Files \ dirty : WillShow(outbox, shown, f, {})
          /\ h.stage = "notify" =>
                /\ dirty = Affected(errors)
                /\ \A f \in DOMAIN h.todo : h.todo[f] = Diagnostics(errors, f)
                /\ \A f \in Files \ DOMAIN h.todo :
                      WillShow(outbox, shown, f, Diagnostics(errors, f))

SessionInv == SessionType /\ HandshakeInv /\ TextInv /\ DiagnosticsInv

-----------------------------------------------------------------------------
(* What the compiler will hold, when messages come and go.                 *)

(* The entries of a sequence and those after one was appended.             *)
LEMMA AppendEntries ==
  ASSUME NEW S, NEW s \in Seq(S), NEW x \in S
  PROVE  /\ Append(s, x) \in Seq(S) /\ Len(s) \in Nat
         /\ Len(Append(s, x)) = Len(s) + 1
         /\ \A i \in 1..Len(s) : Append(s, x)[i] = s[i]
         /\ Append(s, x)[Len(s) + 1] = x
  OBVIOUS

(* The entries of a sequence and those after the first was removed.        *)
LEMMA TailEntries ==
  ASSUME NEW S, NEW s \in Seq(S), s # <<>>
  PROVE  /\ Tail(s) \in Seq(S) /\ Len(s) \in Nat \ {0}
         /\ Len(Tail(s)) = Len(s) - 1
         /\ \A i \in 1..Len(s) - 1 : Tail(s)[i] = s[i + 1]
         /\ Head(s) = s[1] /\ s[1] \in S
  OBVIOUS

(* A message that is sent does not affect what the ones before it meet.    *)
LEMMA WillHoldBefore ==
  ASSUME NEW q \in Seq(Messages), NEW m \in Messages, NEW n \in 0..Len(q),
         NEW hs, NEW v, NEW f, NEW t, WillHold(q, n, hs, v, f, t)
  PROVE  WillHold(Append(q, m), n, hs, v, f, t)
  <1>1. \A i \in 1..n : Append(q, m)[i] = q[i]
    BY AppendEntries
  <1>2. n \in Nat
    BY AppendEntries
  <1> QED
    BY <1>1, <1>2 DEF WillHold

(* A message that is sent sets the text of its file, and of no other.      *)
LEMMA WillHoldAfter ==
  ASSUME NEW q \in Seq(Messages), NEW m \in Messages,
         NEW hs, NEW v, NEW f, NEW t,
         IF Sets(m, f) THEN Leaves(m, t) ELSE WillHold(q, Len(q), hs, v, f, t)
  PROVE  WillHold(Append(q, m), Len(Append(q, m)), hs, v, f, t)
  <1> DEFINE r == Append(q, m)
             n == Len(q)
  <1>1. /\ n \in Nat /\ Len(r) = n + 1 /\ r[n + 1] = m
        /\ \A i \in 1..n : r[i] = q[i]
    BY AppendEntries
  <1> HIDE DEF r, n
  <1>2. CASE Sets(m, f)
    <2>1. ASSUME NEW j \in 1..n + 1, \A i \in j + 1..n + 1 : ~Sets(r[i], f)
          PROVE  j = n + 1
      BY <1>1, <1>2, <2>1
    <2> QED BY <1>1, <1>2, <2>1 DEF WillHold, r
  <1>3. CASE ~Sets(m, f)
    <2>1. WillHold(q, n, hs, v, f, t)
      BY <1>3 DEF n
    <2>2. ASSUME NEW j \in 1..n + 1, Sets(r[j], f), \A i \in j + 1..n + 1 : ~Sets(r[i], f)
          PROVE  Leaves(r[j], t)
      <3>1. j \in 1..n
        BY <1>1, <1>3, <2>2
      <3>2. \A i \in j + 1..n : ~Sets(q[i], f)
        BY <1>1, <2>2, <3>1
      <3> QED BY <1>1, <2>1, <2>2, <3>1, <3>2 DEF WillHold
    <2>3. ASSUME \A j \in 1..n + 1 : ~Sets(r[j], f) PROVE Holds(hs, v, f, t)
      BY <1>1, <2>1, <2>3 DEF WillHold
    <2> QED BY <1>1, <2>2, <2>3 DEF WillHold, r
  <1> QED
    BY <1>2, <1>3

(* The message that is received goes from the inbox to its handler.        *)
LEMMA WillHoldReceive ==
  ASSUME NEW q \in Seq(Messages), q # <<>>, NEW n \in 1..Len(q),
         NEW v, NEW f, NEW t, WillHold(q, n, {}, v, f, t)
  PROVE  WillHold(Tail(q), n - 1, {Handler(Head(q))}, v, f, t)
  <1> DEFINE r == Tail(q)
             h == Handler(Head(q))
  <1>1. /\ Len(q) \in Nat \ {0} /\ n \in Nat \ {0}
        /\ \A i \in 1..n - 1 : r[i] = q[i + 1]
        /\ h.msg = q[1] /\ Unapplied(h)
    BY TailEntries DEF Handler, Unapplied
  <1> HIDE DEF r, h
  <1>2. ASSUME NEW j \in 1..n - 1, Sets(r[j], f), \A i \in j + 1..n - 1 : ~Sets(r[i], f)
        PROVE  Leaves(r[j], t)
    <2>1. j + 1 \in 1..n /\ r[j] = q[j + 1]
      BY <1>1
    <2>2. ASSUME NEW i \in j + 2..n PROVE ~Sets(q[i], f)
      <3>1. i - 1 \in j + 1..n - 1 /\ r[i - 1] = q[i]
        BY <1>1
      <3> QED BY <1>2, <3>1
    <2> QED BY <1>1, <1>2, <2>1, <2>2 DEF WillHold
  <1>3. ASSUME \A j \in 1..n - 1 : ~Sets(r[j], f) PROVE Holds({h}, v, f, t)
    <2>1. \A i \in 2..n : ~Sets(q[i], f)
      <3>1. \A i \in 2..n : i - 1 \in 1..n - 1 /\ r[i - 1] = q[i]
        BY <1>1
      <3> QED BY <1>3, <3>1
    <2>2. CASE Sets(q[1], f)
      BY <1>1, <2>1, <2>2 DEF WillHold, Holds
    <2>3. CASE ~Sets(q[1], f)
      <3>1. \A i \in 1..n : ~Sets(q[i], f)
        BY <1>1, <2>1, <2>3
      <3> QED BY <1>1, <2>3, <3>1 DEF WillHold, Holds
    <2> QED BY <2>2, <2>3
  <1> QED
    BY <1>2, <1>3 DEF WillHold, r, h

(* What the handlers leave is all that matters of them.                    *)
LEMMA WillHoldHandlers ==
  ASSUME NEW q, NEW n, NEW hs, NEW gs, NEW v, NEW w, NEW f, NEW t,
         WillHold(q, n, hs, v, f, t), Holds(hs, v, f, t) => Holds(gs, w, f, t)
  PROVE  WillHold(q, n, gs, w, f, t)
  BY DEF WillHold

-----------------------------------------------------------------------------
(* What the editor will show, when notifications come and go.              *)

(* A notification that is sent sets what its file will show, and no other. *)
LEMMA WillShowSent ==
  ASSUME NEW o \in Seq(Notifications), NEW x \in Notifications, NEW s, NEW f, NEW d,
         IF x.file = f THEN x.diags = d ELSE WillShow(o, s, f, d)
  PROVE  WillShow(Append(o, x), s, f, d)
  <1> DEFINE r == Append(o, x)
             n == Len(o)
  <1>1. /\ n \in Nat /\ Len(r) = n + 1 /\ r[n + 1] = x
        /\ \A i \in 1..n : r[i] = o[i]
    BY AppendEntries
  <1> HIDE DEF r, n
  <1>2. CASE x.file = f
    <2>1. ASSUME NEW j \in 1..n + 1, \A i \in j + 1..n + 1 : r[i].file # f
          PROVE  j = n + 1
      BY <1>1, <1>2, <2>1
    <2> QED BY <1>1, <1>2, <2>1 DEF WillShow, r
  <1>3. CASE x.file # f
    <2>1. WillShow(o, s, f, d)
      BY <1>3
    <2>2. ASSUME NEW j \in 1..n + 1, r[j].file = f, \A i \in j + 1..n + 1 : r[i].file # f
          PROVE  r[j].diags = d
      <3>1. j \in 1..n
        BY <1>1, <1>3, <2>2
      <3>2. \A i \in j + 1..n : o[i].file # f
        BY <1>1, <2>2, <3>1
      <3> QED BY <1>1, <2>1, <2>2, <3>1, <3>2 DEF WillShow, n
    <2>3. ASSUME \A j \in 1..n + 1 : r[j].file # f PROVE s[f] = d
      BY <1>1, <2>1, <2>3 DEF WillShow, n
    <2> QED BY <1>1, <2>2, <2>3 DEF WillShow, r
  <1> QED
    BY <1>2, <1>3

(* A notification that is read has been shown.                             *)
LEMMA WillShowRead ==
  ASSUME NEW o \in Seq(Notifications), o # <<>>, NEW s \in [Files -> SUBSET Whats],
         NEW f \in Files, NEW d, WillShow(o, s, f, d)
  PROVE  WillShow(Tail(o), [s EXCEPT ![Head(o).file] = Head(o).diags], f, d)
  <1> DEFINE r == Tail(o)
             n == Len(o)
             u == [s EXCEPT ![Head(o).file] = Head(o).diags]
  <1>1. /\ n \in Nat \ {0} /\ Len(r) = n - 1
        /\ \A i \in 1..n - 1 : r[i] = o[i + 1]
        /\ Head(o) = o[1] /\ o[1].file \in Files
    <2>1. o[1] \in Notifications
      BY TailEntries
    <2>2. o[1].file \in Files
      BY <2>1 DEF Notifications
    <2> QED BY <2>2, TailEntries
  <1>2. u[f] = IF o[1].file = f THEN o[1].diags ELSE s[f]
    BY <1>1
  <1> HIDE DEF r, n, u
  <1>3. ASSUME NEW j \in 1..n - 1, r[j].file = f, \A i \in j + 1..n - 1 : r[i].file # f
        PROVE  r[j].diags = d
    <2>1. j + 1 \in 1..n /\ r[j] = o[j + 1]
      BY <1>1
    <2>2. ASSUME NEW i \in j + 2..n PROVE o[i].file # f
      <3>1. i - 1 \in j + 1..n - 1 /\ r[i - 1] = o[i]
        BY <1>1
      <3> QED BY <1>3, <3>1
    <2> QED BY <1>1, <1>3, <2>1, <2>2 DEF WillShow, n
  <1>4. ASSUME \A j \in 1..n - 1 : r[j].file # f PROVE u[f] = d
    <2>1. \A i \in 2..n : o[i].file # f
      <3>1. \A i \in 2..n : i - 1 \in 1..n - 1 /\ r[i - 1] = o[i]
        BY <1>1
      <3> QED BY <1>4, <3>1
    <2>2. CASE o[1].file = f
      BY <1>1, <1>2, <2>1, <2>2 DEF WillShow, n
    <2>3. CASE o[1].file # f
      <3>1. \A i \in 1..n : o[i].file # f
        BY <1>1, <2>1, <2>3
      <3> QED BY <1>1, <1>2, <2>3, <3>1 DEF WillShow, n
    <2> QED BY <2>2, <2>3
  <1> QED
    BY <1>1, <1>3, <1>4 DEF WillShow, r, u

-----------------------------------------------------------------------------
(* The editor's steps.                                                     *)

(* A message about a document, sent together with what it says of it.      *)
LEMMA SendKeeps ==
  ASSUME SessionInv, phase = "ready", phase' = phase, UNCHANGED server,
         NEW m \in Messages, inbox' = Append(inbox, m), m.file \in Files,
         m.kind \in {"open", "change", "close", "saved", "watched", "request"},
         m.kind \in {"open", "request"} => m.texts # <<>>,
         disk' \in Contents, editor' \in Contents,
         m.kind = "request" => editor[m.file] # None /\ m.texts[1] = editor[m.file],
         \A f \in Files : editor'[f] # None =>
            IF Sets(m, f) THEN Leaves(m, editor'[f]) ELSE editor'[f] = editor[f]
  PROVE  SessionInv'
  <1> DEFINE n == Len(inbox)
  <1>0. inbox \in Seq(Messages)
    BY DEF SessionInv, SessionType
  <1>1. /\ inbox' \in Seq(Messages) /\ n \in Nat /\ Len(inbox') = n + 1
        /\ inbox'[n + 1] = m
        /\ \A i \in 1..n : inbox'[i] = inbox[i]
    BY <1>0, AppendEntries
  <1>u. UNCHANGED <<handlers, view, program, errors, dirty, pending, outbox, shown, answer>>
    BY DEF server
  <1>2. SessionType'
    BY <1>1, <1>u DEF SessionInv, SessionType
  <1> HIDE DEF n
  <1>3. \A k \in 1..n + 1 : k \in 1..n \/ k = n + 1
    BY <1>1
  <1>4. HandshakeInv'
    <2>1. \A k \in 1..n : inbox[k].kind # "initialize"
      BY DEF SessionInv, HandshakeInv, n
    <2>2. \A h \in handlers : h.msg.kind # "initialize"
      BY DEF SessionInv, HandshakeInv
    <2> QED BY <1>1, <1>3, <1>u, <2>1, <2>2 DEF SessionInv, HandshakeInv, n
  <1>5. TextInv'
    <2>1. ASSUME NEW k \in 1..n + 1, inbox'[k].kind = "request"
          PROVE  WillHold(inbox', k - 1, handlers, view, inbox'[k].file, inbox'[k].texts[1])
      <3>1. CASE k \in 1..n
        <4>1. k - 1 \in 0..Len(inbox)
          BY <3>1, <1>1 DEF n
        <4>2. WillHold(inbox, k - 1, handlers, view, inbox[k].file, inbox[k].texts[1])
          BY <3>1, <1>1, <2>1 DEF SessionInv, TextInv, n
        <4> QED BY <1>0, <1>1, <3>1, <4>1, <4>2, WillHoldBefore
      <3>2. CASE k = n + 1
        <4>1. inbox'[k] = m /\ k - 1 = n /\ n \in 0..Len(inbox)
          BY <3>2, <1>1 DEF n
        <4>2. WillHold(inbox, n, handlers, view, m.file, editor[m.file])
          BY <2>1, <4>1 DEF SessionInv, TextInv, n
        <4> QED BY <1>0, <2>1, <4>1, <4>2, WillHoldBefore
      <3> QED BY <1>3, <3>1, <3>2
    <2>2. ASSUME NEW f \in Files, editor'[f] # None
          PROVE  WillHold(inbox', Len(inbox'), handlers, view, f, editor'[f])
      <3>1. ~Sets(m, f) => WillHold(inbox, Len(inbox), handlers, view, f, editor'[f])
        BY <2>2 DEF SessionInv, TextInv
      <3> QED BY <1>0, <2>2, <3>1, WillHoldAfter
    <2> QED BY <1>1, <1>u, <2>1, <2>2 DEF SessionInv, TextInv
  <1>6. Unannounced' <=> Unannounced
    BY <1>1, <1>3, <1>u DEF Unannounced, n
  <1>7. DiagnosticsInv'
    BY <1>6, <1>u DEF SessionInv, DiagnosticsInv
  <1> QED
    BY <1>2, <1>4, <1>5, <1>7 DEF SessionInv

(* The messages of every editing step are of that form.                    *)
LEMMA EditKeeps ==
  ASSUME SessionInv, Edit
  PROVE  SessionInv'
  <1> USE DEF Message
  <1>0. PICK f \in Files : \/ \E t \in Texts : SendOpen(f, t)
                           \/ \E ts \in Changes : SendChange(f, ts)
                           \/ SendClose(f) \/ Save(f) \/ Ask(f)
                           \/ \E t \in OnDisk \cup {None} : DiskChange(f, t)
    BY DEF Edit
  <1>1. disk \in Contents /\ editor \in Contents /\ f \in Files
    BY DEF SessionInv, SessionType
  <1>2. ASSUME NEW t \in Texts, SendOpen(f, t) PROVE SessionInv'
    <2> DEFINE m == [kind |-> "open", file |-> f, texts |-> <<t>>]
    <2>1. /\ phase = "ready" /\ phase' = phase /\ UNCHANGED <<server, disk>>
          /\ inbox' = Append(inbox, m) /\ editor' = [editor EXCEPT ![f] = t]
      BY <1>2 DEF SendOpen, Event, Send
    <2>2. m \in Messages /\ m.texts # <<>> /\ Leaves(m, t)
      BY DEF Messages, Kinds, Leaves, Last
    <2>3. editor' \in Contents
      BY <1>1, <2>1 DEF Contents
    <2>4. \A g \in Files : IF Sets(m, g) THEN editor'[g] = t ELSE editor'[g] = editor[g]
      BY <1>1, <2>1 DEF Sets, Contents
    <2> HIDE DEF m
    <2>5. m.kind = "open" /\ m.file = f
      BY DEF m
    <2> QED BY <1>1, <2>1, <2>2, <2>3, <2>4, <2>5, SendKeeps
  <1>3. ASSUME NEW ts \in Changes, SendChange(f, ts) PROVE SessionInv'
    <2> DEFINE m == [kind |-> "change", file |-> f, texts |-> ts]
    <2>1. /\ phase = "ready" /\ phase' = phase /\ UNCHANGED <<server, disk>>
          /\ inbox' = Append(inbox, m)
          /\ editor' = [editor EXCEPT ![f] = IF ts = <<>> THEN editor[f] ELSE Last(ts)]
      BY <1>3 DEF SendChange, Event, Send
    <2>2. ts \in Seq(Texts) /\ (ts # <<>> => Last(ts) \in Texts)
      BY SessionAssumption DEF Last
    <2>3. m \in Messages
      BY <2>2 DEF Messages, Kinds
    <2>4. editor' \in Contents
      BY <1>1, <2>1, <2>2 DEF Contents
    <2>5. \A g \in Files : IF Sets(m, g) THEN Leaves(m, editor'[g]) ELSE editor'[g] = editor[g]
      BY <1>1, <2>1 DEF Sets, Leaves, Contents
    <2> HIDE DEF m
    <2>6. m.kind = "change" /\ m.file = f
      BY DEF m
    <2> QED BY <1>1, <2>1, <2>3, <2>4, <2>5, <2>6, SendKeeps
  <1>4. CASE SendClose(f)
    <2> DEFINE m == [kind |-> "close", file |-> f, texts |-> <<>>]
    <2>1. /\ phase = "ready" /\ phase' = phase /\ UNCHANGED <<server, disk>>
          /\ inbox' = Append(inbox, m) /\ editor' = [editor EXCEPT ![f] = None]
      BY <1>4 DEF SendClose, Event, Send
    <2>3. m \in Messages
      BY DEF Messages, Kinds
    <2>4. editor' \in Contents
      BY <1>1, <2>1 DEF Contents
    <2>5. \A g \in Files : IF Sets(m, g) THEN editor'[g] = None ELSE editor'[g] = editor[g]
      BY <1>1, <2>1 DEF Sets, Contents
    <2> HIDE DEF m
    <2>6. m.kind = "close" /\ m.file = f
      BY DEF m
    <2> QED BY <1>1, <2>1, <2>3, <2>4, <2>5, <2>6, SendKeeps
  <1>5. CASE Save(f)
    <2> DEFINE m == [kind |-> "saved", file |-> f, texts |-> <<>>]
    <2>1. /\ phase = "ready" /\ phase' = phase /\ UNCHANGED <<server, editor>>
          /\ inbox' = Append(inbox, m) /\ disk' = [disk EXCEPT ![f] = editor[f]]
      BY <1>5 DEF Save, Event, Send
    <2>3. m \in Messages /\ \A g \in Files : ~Sets(m, g)
      BY DEF Messages, Kinds, Sets
    <2>4. disk' \in Contents
      BY <1>1, <2>1 DEF Contents
    <2> HIDE DEF m
    <2>6. m.kind = "saved" /\ m.file = f
      BY DEF m
    <2> QED BY <1>1, <2>1, <2>3, <2>4, <2>6, SendKeeps
  <1>6. CASE Ask(f)
    <2> DEFINE m == [kind |-> "request", file |-> f, texts |-> <<editor[f]>>]
    <2>1. /\ phase = "ready" /\ phase' = phase /\ UNCHANGED <<server, editor, disk>>
          /\ inbox' = Append(inbox, m) /\ editor[f] # None
      BY <1>6 DEF Ask, Event, Send
    <2>2. editor[f] \in Texts
      BY <1>1, <2>1 DEF Contents
    <2>3. m \in Messages /\ \A g \in Files : ~Sets(m, g)
      BY <2>2 DEF Messages, Kinds, Sets
    <2>4. m.texts # <<>> /\ m.texts[1] = editor[f]
      OBVIOUS
    <2> HIDE DEF m
    <2>6. m.kind = "request" /\ m.file = f
      BY DEF m
    <2> QED BY <1>1, <2>1, <2>3, <2>4, <2>6, SendKeeps
  <1>7. ASSUME NEW t \in OnDisk \cup {None}, DiskChange(f, t) PROVE SessionInv'
    <2> DEFINE m == [kind |-> "watched", file |-> f, texts |-> <<>>]
    <2>1. /\ phase = "ready" /\ phase' = phase /\ UNCHANGED <<server, editor>>
          /\ inbox' = Append(inbox, m) /\ disk' = [disk EXCEPT ![f] = t]
      BY <1>7 DEF DiskChange, Event, Send
    <2>3. m \in Messages /\ \A g \in Files : ~Sets(m, g)
      BY DEF Messages, Kinds, Sets
    <2>4. disk' \in Contents
      BY <1>1, <2>1, SessionAssumption DEF Contents
    <2> HIDE DEF m
    <2>6. m.kind = "watched" /\ m.file = f
      BY DEF m
    <2> QED BY <1>1, <2>1, <2>3, <2>4, <2>6, SendKeeps
  <1> QED
    BY <1>0, <1>2, <1>3, <1>4, <1>5, <1>6, <1>7

-----------------------------------------------------------------------------
(* The handshake, the stream of notifications, and the next message.       *)

(* What the handshake sends comes alone.                                   *)
LEMMA SetupKeeps ==
  ASSUME SessionInv, Setup
  PROVE  SessionInv'
  <1> DEFINE m(kind) == [kind |-> kind, file |-> None, texts |-> <<>>]
  <1>0. /\ \A kind \in Kinds : m(kind) \in Messages
        /\ \A kind \in Kinds : m(kind).kind = kind
    BY DEF Messages
  <1>1. PICK kind \in {"initialize", "initialized"} :
             /\ phase = (IF kind = "initialize" THEN "new" ELSE "waiting")
             /\ phase' = (IF kind = "initialize" THEN "waiting" ELSE "ready")
             /\ inbox = <<>> /\ handlers = {} /\ inbox' = Append(inbox, m(kind))
             /\ UNCHANGED <<disk, editor, server>>
    BY DEF Setup, SendInitialize, SendInitialized, Send, Message, SessionInv, HandshakeInv
  <1>2. m(kind) \in Messages /\ m(kind).kind = kind
    BY <1>0 DEF Kinds
  <1> HIDE DEF m
  <1>u. UNCHANGED <<handlers, view, program, errors, dirty, pending, outbox, shown, answer, editor, disk>>
    BY <1>1 DEF server
  <1>3. inbox' = <<m(kind)>> /\ inbox' \in Seq(Messages) /\ Len(inbox') = 1 /\ inbox'[1] = m(kind)
    BY <1>1, <1>2
  <1>4. \A k \in 1..1 : k = 1
    OBVIOUS
  <1>5. SessionType'
    BY <1>1, <1>3, <1>u DEF SessionInv, SessionType
  <1>6. HandshakeInv'
    BY <1>1, <1>2, <1>3, <1>4, <1>u DEF SessionInv, HandshakeInv
  <1>7. TextInv'
    <2>1. \A f \in Files : editor[f] = None
      BY <1>1 DEF SessionInv, HandshakeInv, NoFiles
    <2> QED BY <1>1, <1>2, <1>3, <1>4, <1>u, <2>1 DEF SessionInv, TextInv
  <1>8. Unannounced /\ Unannounced'
    BY <1>1, <1>2, <1>3 DEF Unannounced
  <1>9. DiagnosticsInv'
    BY <1>1, <1>8, <1>u DEF SessionInv, DiagnosticsInv
  <1> QED
    BY <1>5, <1>6, <1>7, <1>9 DEF SessionInv

(* The editor reads its notifications in order.                            *)
LEMMA DeliverKeeps ==
  ASSUME SessionInv, Deliver
  PROVE  SessionInv'
  <1>0. outbox \in Seq(Notifications) /\ shown \in [Files -> SUBSET Whats] /\ outbox # <<>>
    BY DEF SessionInv, SessionType, Deliver
  <1>u. /\ UNCHANGED <<disk, editor, phase, inbox, handlers, view, program, errors, dirty, pending, answer>>
        /\ outbox' = Tail(outbox)
        /\ shown' = [shown EXCEPT ![Head(outbox).file] = Head(outbox).diags]
    BY DEF Deliver, client, compiler
  <1>1. outbox' \in Seq(Notifications) /\ Head(outbox) \in Notifications
    BY <1>0, <1>u, TailEntries
  <1>2. shown' \in [Files -> SUBSET Whats]
    BY <1>0, <1>1, <1>u DEF Notifications
  <1>3. \A f \in Files : \A d : WillShow(outbox, shown, f, d) => WillShow(outbox', shown', f, d)
    BY <1>0, <1>u, WillShowRead
  <1>4. SessionType' /\ HandshakeInv' /\ TextInv'
    BY <1>1, <1>2, <1>u DEF SessionInv, SessionType, HandshakeInv, TextInv
  <1>5. Unannounced' <=> Unannounced
    BY <1>u DEF Unannounced
  <1>6. DiagnosticsInv'
    BY <1>3, <1>5, <1>u DEF SessionInv, DiagnosticsInv
  <1> QED
    BY <1>4, <1>6 DEF SessionInv

(* A message is received when no handler is running.                       *)
LEMMA ReceiveKeeps ==
  ASSUME SessionInv, Receive
  PROVE  SessionInv'
  <1> DEFINE n == Len(inbox)
             h == Handler(Head(inbox))
  <1>0. inbox \in Seq(Messages) /\ inbox # <<>>
    BY DEF SessionInv, SessionType, Receive
  <1>u. /\ UNCHANGED <<disk, editor, phase, view, program, errors, dirty, pending, outbox, shown, answer>>
        /\ handlers = {} /\ handlers' = {h} /\ inbox' = Tail(inbox)
    BY DEF Receive, client, compiler
  <1>1. /\ inbox' \in Seq(Messages) /\ n \in Nat \ {0} /\ Len(inbox') = n - 1
        /\ \A i \in 1..n - 1 : inbox'[i] = inbox[i + 1]
        /\ Head(inbox) = inbox[1] /\ inbox[1] \in Messages
    BY <1>0, <1>u, TailEntries
  <1>2. /\ h \in HandlerType /\ h.msg = inbox[1] /\ h.stage = "begin"
    <2>1. <<>> \in ToSend
      BY DEF ToSend
    <2> QED BY <1>1, <2>1 DEF Handler, HandlerType
  <1>3. 1 \in 1..n /\ \A k \in 1..n - 1 : k \in 1..n /\ k + 1 \in 1..n /\ k + 1 # 1 /\ n # 1
    BY <1>1
  <1>w. \A k \in 1..n : \A f, t : WillHold(inbox, k, {}, view, f, t) => WillHold(inbox', k - 1, {h}, view, f, t)
    BY <1>0, <1>u, WillHoldReceive DEF n, h
  <1> HIDE DEF n, h
  <1>4. SessionType'
    BY <1>1, <1>2, <1>u DEF SessionInv, SessionType
  <1>5. /\ phase # "new"
        /\ \A k \in 1..n : inbox[k].kind = "initialize" => phase = "waiting" /\ n = 1
        /\ \A k \in 1..n : inbox[k].kind = "initialized" => k = 1
        /\ \A k \in 1..n : phase # "ready" => inbox[k].kind = "initialize"
        /\ \A k \in 1..n : inbox[k].kind \in {"open", "change", "close", "saved", "watched", "request"} =>
                              inbox[k].file \in Files
        /\ \A k \in 1..n : inbox[k].kind \in {"open", "request"} => inbox[k].texts # <<>>
    BY <1>0, <1>u DEF SessionInv, HandshakeInv, n
  <1>6. n = 1 => inbox' = <<>>
    BY <1>1
  <1>7. HandshakeInv'
    <2>1. \A g \in handlers' : g = h
      BY <1>u
    <2>2. h.msg.kind = "initialize" => phase = "waiting" /\ inbox' = <<>>
      BY <1>2, <1>3, <1>5, <1>6
    <2>3. /\ phase # "ready" => h.msg.kind = "initialize"
          /\ h.msg.kind \in {"open", "change", "close", "request"} => h.msg.file \in Files
          /\ h.msg.kind \in {"open", "request"} => h.msg.texts # <<>>
      BY <1>2, <1>3, <1>5
    <2>4. \A k \in 1..n - 1 :
             /\ inbox'[k].kind \in {"open", "change", "close", "saved", "watched", "request"} => inbox'[k].file \in Files
             /\ inbox'[k].kind # "initialize" /\ inbox'[k].kind # "initialized"
             /\ phase = "ready"
             /\ inbox'[k].kind \in {"open", "request"} => inbox'[k].texts # <<>>
      BY <1>1, <1>3, <1>5
    <2>5. phase # "ready" => editor = NoFiles
      BY DEF SessionInv, HandshakeInv
    <2> QED BY <1>1, <1>2, <1>5, <1>u, <2>1, <2>2, <2>3, <2>4, <2>5 DEF HandshakeInv
  <1>8. TextInv'
    <2>1. ASSUME NEW k \in 1..n - 1, inbox'[k].kind = "request"
          PROVE  WillHold(inbox', k - 1, handlers', view, inbox'[k].file, inbox'[k].texts[1])
      <3>1. inbox'[k] = inbox[k + 1] /\ k + 1 \in 1..n /\ k \in 1..n /\ (k + 1) - 1 = k
        BY <1>1, <1>3
      <3>2. WillHold(inbox, k, {}, view, inbox[k + 1].file, inbox[k + 1].texts[1])
        BY <1>u, <2>1, <3>1 DEF SessionInv, TextInv, n
      <3> QED BY <1>u, <1>w, <3>1, <3>2
    <2>2. h.msg.kind = "request" => view[h.msg.file] = h.msg.texts[1]
      <3> SUFFICES ASSUME inbox[1].kind = "request" PROVE view[inbox[1].file] = inbox[1].texts[1]
        BY <1>2
      <3>1. WillHold(inbox, 0, {}, view, inbox[1].file, inbox[1].texts[1])
        BY <1>3, <1>u DEF SessionInv, TextInv, n
      <3> QED BY <3>1 DEF WillHold, Holds
    <2>3. ASSUME NEW f \in Files, editor[f] # None
          PROVE  WillHold(inbox', Len(inbox'), handlers', view, f, editor[f])
      <3>1. WillHold(inbox, n, {}, view, f, editor[f])
        BY <1>u, <2>3 DEF SessionInv, TextInv, n
      <3>2. n \in 1..n
        BY <1>1
      <3> QED BY <1>1, <1>u, <1>w, <3>1, <3>2
    <2> QED BY <1>1, <1>u, <2>1, <2>2, <2>3 DEF SessionInv, TextInv
  <1>9. Unannounced' <=> Unannounced
    <2>1. (\E k \in 1..n : inbox[k].kind = "initialized") <=> h.msg.kind = "initialized"
      BY <1>2, <1>3, <1>5
    <2>2. \A k \in 1..n - 1 : inbox'[k].kind # "initialized"
      BY <1>1, <1>3, <1>5
    <2> QED BY <1>1, <1>2, <1>u, <2>1, <2>2 DEF Unannounced, n
  <1>10. DiagnosticsInv'
    BY <1>2, <1>9, <1>u DEF SessionInv, DiagnosticsInv, Unapplied
  <1> QED
    BY <1>4, <1>7, <1>8, <1>10 DEF SessionInv

-----------------------------------------------------------------------------
(* The steps of a handler.  It is the only one, and becomes g or returns.  *)

(* What a running handler says about the session.                          *)
LEMMA HandlerFacts ==
  ASSUME SessionInv, NEW h \in handlers
  PROVE  /\ handlers = {h} /\ h \in HandlerType
         /\ h.msg.kind # "initialize" => phase = "ready"
         /\ \A k \in 1..Len(inbox) : inbox[k].kind # "initialized" /\ inbox[k].kind # "initialize"
  BY DEF SessionInv, SessionType, HandshakeInv

(* A handler keeps its message and its place in the protocol.              *)
LEMMA HandshakeStep ==
  ASSUME SessionInv, NEW h \in handlers, UNCHANGED <<phase, editor, inbox>>,
         \/ handlers' = {}
         \/ \E g : /\ handlers' = {g} /\ g.msg = h.msg
                   /\ g.stage \in {"publish", "notify"} =>
                         h.msg.kind \in {"initialized", "open", "change", "close"}
                   /\ g.stage = "apply" => h.msg.kind = "close"
  PROVE  HandshakeInv'
  <1>1. /\ \A k \in 1..Len(inbox) : inbox[k].kind # "initialized" /\ inbox[k].kind # "initialize"
        /\ handlers = {h}
    BY HandlerFacts
  <1>2. CASE handlers' = {}
    BY <1>1, <1>2 DEF SessionInv, HandshakeInv
  <1>3. CASE handlers' # {}
    <2>1. PICK g : /\ handlers' = {g} /\ g.msg = h.msg
                   /\ g.stage \in {"publish", "notify"} =>
                         h.msg.kind \in {"initialized", "open", "change", "close"}
                   /\ g.stage = "apply" => h.msg.kind = "close"
      BY <1>3
    <2> QED BY <1>1, <2>1 DEF SessionInv, HandshakeInv
  <1> QED
    BY <1>2, <1>3

(* Texts stay right when the handler leaves what it was going to leave.    *)
LEMMA TextStep ==
  ASSUME SessionInv, NEW h \in handlers, UNCHANGED <<editor, inbox>>,
         program' = view', answer'.text = answer'.asked, answer'.from = answer'.asked,
         \A g \in handlers' : g.msg.kind = "request" => view'[g.msg.file] = g.msg.texts[1],
         \A f \in Files : \A t : Holds(handlers, view, f, t) => Holds(handlers', view', f, t)
  PROVE  TextInv'
  <1>1. ASSUME NEW k \in 1..Len(inbox), inbox[k].kind = "request"
        PROVE  WillHold(inbox, k - 1, handlers', view', inbox[k].file, inbox[k].texts[1])
    <2>1. inbox[k].file \in Files
      BY <1>1 DEF SessionInv, HandshakeInv
    <2>2. WillHold(inbox, k - 1, handlers, view, inbox[k].file, inbox[k].texts[1])
      BY <1>1 DEF SessionInv, TextInv
    <2> QED BY <2>1, <2>2, WillHoldHandlers
  <1>2. ASSUME NEW f \in Files, editor[f] # None
        PROVE  WillHold(inbox, Len(inbox), handlers', view', f, editor[f])
    <2>1. WillHold(inbox, Len(inbox), handlers, view, f, editor[f])
      BY <1>2 DEF SessionInv, TextInv
    <2> QED BY <2>1, WillHoldHandlers
  <1> QED
    BY <1>1, <1>2 DEF TextInv

(* After the handshake, nothing is unannounced.                            *)
LEMMA Announced ==
  ASSUME SessionInv, NEW h \in handlers, UNCHANGED <<phase, inbox>>,
         h.msg.kind # "initialize", h.msg.kind # "initialized" \/ h.stage # "begin",
         \A g \in handlers' : g.msg.kind # "initialized" \/ g.stage # "begin"
  PROVE  ~Unannounced /\ ~Unannounced'
  <1>1. /\ handlers = {h} /\ phase = "ready"
        /\ \A k \in 1..Len(inbox) : inbox[k].kind # "initialized"
    BY HandlerFacts
  <1> QED
    BY <1>1 DEF Unannounced

(* A file that is not affected has no diagnostics.                         *)
LEMMA NoDiagnostics ==
  ASSUME NEW E, NEW f, f \notin Affected(E)
  PROVE  Diagnostics(E, f) = {}
  BY DEF Affected, Diagnostics

(* What the compiler reports is an error of a file.                        *)
LEMMA ErrorsTyped ==
  ASSUME NEW fs \in Contents, NEW order \in Orders(fs)
  PROVE  CompileErrors(fs, order) \subseteq Errors
  <1>1. \A j \in DOMAIN order : order[j] \in Files
    BY DEF Orders, SetToSeqs, Present
  <1>2. ParseErrors(fs) \subseteq Errors
    BY DEF ParseErrors, Present, Errors, Whats
  <1>3. DuplicateErrors(fs, order) \subseteq Errors
    BY <1>1 DEF DuplicateErrors, Errors, Whats
  <1>4. UnknownErrors(fs) \subseteq Errors
    BY DEF UnknownErrors, Present, Errors, Whats
  <1> QED
    BY <1>2, <1>3, <1>4 DEF CompileErrors

(* The diagnostics of a file, from errors.                                 *)
LEMMA DiagnosticsTyped ==
  ASSUME NEW E \in SUBSET Errors
  PROVE  Affected(E) \subseteq Files /\ \A f : Diagnostics(E, f) \in SUBSET Whats
  BY DEF Affected, Diagnostics, Errors

(* Handlers that do nothing but return, or read the disk, without a text.  *)
LEMMA QuietStep ==
  ASSUME SessionInv, NEW h \in handlers,
         UNCHANGED <<disk, editor, phase, inbox, view, program, errors, dirty, pending, outbox, shown>>,
         answer'.text = answer'.asked, answer'.from = answer'.asked,
         h.stage \in {"begin", "apply"}, h.msg.kind \notin {"initialize", "initialized"},
         \/ handlers' = {} /\ \A f : ~Sets(h.msg, f)
         \/ \E g \in HandlerType :
               /\ handlers' = {g} /\ g.msg = h.msg /\ g.stage = "apply" /\ h.msg.kind = "close"
  PROVE  SessionInv'
  <1>1. handlers = {h} /\ Unapplied(h)
    BY HandlerFacts DEF Unapplied
  <1>2. SessionType'
    BY DEF SessionInv, SessionType
  <1>3. HandshakeInv'
    BY HandshakeStep
  <1>4. \A g \in handlers' : g.msg = h.msg /\ Unapplied(g) /\ h.msg.kind = "close"
    BY DEF Unapplied
  <1>5. \A f \in Files : \A t : Holds(handlers, view, f, t) => Holds(handlers', view', f, t)
    BY <1>1, <1>4 DEF Holds
  <1>6. program' = view'
    BY DEF SessionInv, TextInv
  <1>7. TextInv'
    BY <1>4, <1>5, <1>6, TextStep
  <1>8. ~Unannounced /\ ~Unannounced'
    BY <1>4, Announced
  <1>9. \A g \in handlers' : g.stage # "publish" /\ g.stage # "notify"
    BY <1>4 DEF Unapplied
  <1>10. DiagnosticsInv'
    BY <1>1, <1>4, <1>8, <1>9 DEF SessionInv, DiagnosticsInv
  <1> QED
    BY <1>2, <1>3, <1>7, <1>10 DEF SessionInv

(* An update: the text is replaced and everything compiled again.          *)
LEMMA ApplyTextKeeps ==
  ASSUME SessionInv, NEW h \in handlers, NEW t \in Texts \cup {None}, ApplyText(h, t),
         UNCHANGED <<disk, editor, phase, inbox, dirty, pending, outbox, shown, answer>>,
         h.stage \in {"begin", "apply"}, h.msg.kind \in {"open", "change", "close"},
         Sets(h.msg, h.msg.file), h.msg.kind # "close" => t = Last(h.msg.texts)
  PROVE  SessionInv'
  <1> DEFINE file == h.msg.file
             fs == [view EXCEPT ![file] = t]
  <1>1. handlers = {h} /\ h \in HandlerType
    BY HandlerFacts
  <1>2. file \in Files
    BY DEF SessionInv, HandshakeInv
  <1>3. view \in Contents /\ fs \in Contents
    BY <1>2 DEF SessionInv, SessionType, Contents
  <1>4. PICK errs : /\ errs \in Outcomes(fs) /\ view' = fs /\ errors' = errs /\ program' = fs
                    /\ Becomes(h, [h EXCEPT !.stage = "publish", !.errs = errs])
    BY DEF ApplyText, Apply
  <1>5. errs \in SUBSET Errors
    BY <1>3, <1>4, ErrorsTyped DEF Outcomes
  <1> DEFINE g == [h EXCEPT !.stage = "publish", !.errs = errs]
  <1>6. g \in HandlerType /\ g.msg = h.msg /\ g.stage = "publish" /\ g.errs = errs
    BY <1>1, <1>5 DEF HandlerType
  <1>7. handlers' = {g}
    BY <1>1, <1>4 DEF Becomes
  <1>8. \A f \in Files : view'[f] = IF f = file THEN t ELSE view[f]
    BY <1>2, <1>3, <1>4 DEF Contents
  <1>9. view' \in Contents
    BY <1>3, <1>4
  <1> HIDE DEF g, fs
  <1>10. SessionType'
    BY <1>4, <1>5, <1>6, <1>7, <1>9 DEF SessionInv, SessionType
  <1>11. HandshakeInv'
    BY <1>6, <1>7, HandshakeStep
  <1>12. Unapplied(h) /\ ~Unapplied(g)
    BY <1>6 DEF Unapplied
  <1>13. ASSUME NEW f \in Files, NEW u, Holds(handlers, view, f, u)
         PROVE  Holds(handlers', view', f, u)
    <2>1. CASE f = file
      <3>1. Leaves(h.msg, u)
        BY <1>12, <1>13, <2>1 DEF Holds
      <3>2. u = t
        BY <3>1 DEF Leaves
      <3> QED BY <1>7, <1>8, <1>12, <2>1, <3>2 DEF Holds
    <2>2. CASE f # file
      <3>1. ~Sets(h.msg, f)
        BY <2>2 DEF Sets
      <3> QED BY <1>1, <1>7, <1>8, <1>12, <1>13, <2>2, <3>1 DEF Holds
    <2> QED BY <2>1, <2>2
  <1>14. TextInv'
    <2>1. program' = view' /\ answer'.text = answer'.asked /\ answer'.from = answer'.asked
      BY <1>4 DEF SessionInv, TextInv
    <2>2. \A x \in handlers' : x.msg.kind # "request"
      BY <1>6, <1>7
    <2> QED BY <1>13, <2>1, <2>2, TextStep
  <1>15. ~Unannounced /\ ~Unannounced'
    BY <1>6, <1>7, Announced
  <1>16. \A f \in Files \ dirty : WillShow(outbox, shown, f, {})
    <2>1. /\ dirty = Affected(errors)
          /\ \A f \in Files : WillShow(outbox, shown, f, Diagnostics(errors, f))
      BY <1>1, <1>12, <1>15 DEF SessionInv, DiagnosticsInv
    <2> QED BY <2>1, NoDiagnostics
  <1>17. DiagnosticsInv'
    BY <1>4, <1>6, <1>7, <1>12, <1>15, <1>16 DEF DiagnosticsInv
  <1> QED
    BY <1>10, <1>11, <1>14, <1>17 DEF SessionInv

(* Initialize: no document is open yet, and the errors wait.               *)
LEMMA InitializeKeeps ==
  ASSUME SessionInv, NEW h \in handlers, Initialize(h)
  PROVE  SessionInv'
  <1>1. handlers = {h} /\ handlers' = {}
    BY HandlerFacts DEF Initialize, Returns
  <1>2. /\ UNCHANGED <<disk, editor, phase, inbox, outbox, shown, answer>>
        /\ dirty' = {} /\ view' = disk /\ program' = disk /\ pending' = errors'
        /\ \E errs \in Outcomes(disk) : errors' = errs
    BY DEF Initialize, Apply, client
  <1>3. phase = "waiting" /\ inbox = <<>> /\ \A f \in Files : editor[f] = None
    BY DEF SessionInv, HandshakeInv, Initialize, NoFiles
  <1>4. disk \in Contents
    BY DEF SessionInv, SessionType
  <1>5. errors' \in SUBSET Errors
    BY <1>2, <1>4, ErrorsTyped DEF Outcomes
  <1>6. SessionType'
    BY <1>1, <1>2, <1>4, <1>5 DEF SessionInv, SessionType
  <1>7. HandshakeInv'
    BY <1>1, <1>2, HandshakeStep
  <1>8. TextInv'
    <2>1. Len(inbox') = 0
      BY <1>2, <1>3
    <2> QED BY <1>1, <1>2, <1>3, <2>1 DEF SessionInv, TextInv
  <1>9. Unannounced /\ Unannounced'
    BY <1>2, <1>3 DEF Unannounced
  <1>10. DiagnosticsInv'
    BY <1>1, <1>2, <1>9 DEF SessionInv, DiagnosticsInv
  <1> QED
    BY <1>6, <1>7, <1>8, <1>10 DEF SessionInv

(* A handler that has no text to apply any more, and what it turns into.   *)
LEMMA AppliedText ==
  ASSUME SessionInv, NEW h \in handlers, UNCHANGED <<editor, inbox, view, program, answer>>,
         \A f : ~(Unapplied(h) /\ Sets(h.msg, f)), h.msg.kind # "request",
         \A g \in handlers' : g.msg = h.msg /\ ~Unapplied(g)
  PROVE  TextInv'
  <1>1. handlers = {h}
    BY HandlerFacts
  <1>2. \A f \in Files : \A t : Holds(handlers, view, f, t) => Holds(handlers', view', f, t)
    BY <1>1 DEF Holds
  <1>3. program' = view' /\ answer'.text = answer'.asked /\ answer'.from = answer'.asked
    BY DEF SessionInv, TextInv
  <1>4. \A g \in handlers' : g.msg.kind # "request"
    OBVIOUS
  <1> QED
    BY <1>2, <1>3, <1>4, TextStep

(* Initialized: the errors of the first compilation are to be published.   *)
LEMMA InitializedKeeps ==
  ASSUME SessionInv, NEW h \in handlers, Initialized(h)
  PROVE  SessionInv'
  <1> DEFINE g == [h EXCEPT !.stage = "publish", !.errs = pending]
  <1>1. /\ handlers = {h} /\ h \in HandlerType /\ phase = "ready"
        /\ \A k \in 1..Len(inbox) : inbox[k].kind # "initialized"
    BY HandlerFacts DEF Initialized
  <1>2. /\ UNCHANGED <<disk, editor, phase, inbox, view, program, errors, dirty, outbox, shown, answer>>
        /\ pending' = {} /\ h.msg.kind = "initialized" /\ h.stage = "begin"
    BY DEF Initialized, client, compiler
  <1>3. handlers' = {g}
    BY <1>1 DEF Initialized, Becomes
  <1>4. g \in HandlerType /\ g.msg = h.msg /\ g.stage = "publish" /\ g.errs = pending
    BY <1>1 DEF SessionInv, SessionType, HandlerType
  <1> HIDE DEF g
  <1>5. SessionType'
    BY <1>2, <1>3, <1>4 DEF SessionInv, SessionType
  <1>6. HandshakeInv'
    BY <1>2, <1>3, <1>4, HandshakeStep
  <1>7. ~Unapplied(g)
    BY <1>4 DEF Unapplied
  <1>8. TextInv'
    BY <1>2, <1>3, <1>4, <1>7, AppliedText DEF Sets
  <1>9. Unannounced /\ ~Unannounced'
    BY <1>1, <1>2, <1>3, <1>4 DEF Unannounced
  <1>10. pending = errors /\ \A f \in Files : WillShow(outbox, shown, f, {})
    BY <1>9 DEF SessionInv, DiagnosticsInv
  <1>11. DiagnosticsInv'
    BY <1>2, <1>3, <1>4, <1>7, <1>9, <1>10 DEF DiagnosticsInv
  <1> QED
    BY <1>5, <1>6, <1>8, <1>11 DEF SessionInv

(* What is true of a handler that publishes or notifies.                   *)
LEMMA PublisherFacts ==
  ASSUME SessionInv, NEW h \in handlers, h.stage \in {"publish", "notify"},
         UNCHANGED <<phase, inbox>>,
         \A g \in handlers' : g.msg = h.msg /\ g.stage = "notify"
  PROVE  /\ h.msg.kind \in {"initialized", "open", "change", "close"}
         /\ h.msg.kind # "request" /\ ~Unapplied(h)
         /\ \A g \in handlers' : ~Unapplied(g)
         /\ ~Unannounced /\ ~Unannounced'
  <1>1. h.msg.kind \in {"initialized", "open", "change", "close"}
    BY DEF SessionInv, HandshakeInv
  <1>2. ~Unapplied(h) /\ \A g \in handlers' : ~Unapplied(g)
    BY DEF Unapplied
  <1>3. ~Unannounced /\ ~Unannounced'
    BY <1>1, Announced
  <1> QED
    BY <1>1, <1>2, <1>3

(* publishDiagnostics: the files that are wrong, and those that were.      *)
LEMMA PublishKeeps ==
  ASSUME SessionInv, NEW h \in handlers, Publish(h)
  PROVE  SessionInv'
  <1> DEFINE todo == [f \in ToNotify(h.errs) |-> Diagnostics(h.errs, f)]
             g == [h EXCEPT !.stage = "notify", !.todo = todo]
  <1>1. handlers = {h} /\ h \in HandlerType
    BY HandlerFacts
  <1>2. /\ UNCHANGED <<disk, editor, phase, inbox, view, program, errors, pending, outbox, shown, answer>>
        /\ dirty' = Affected(h.errs) /\ h.stage = "publish"
    BY DEF Publish, client, compiler
  <1>3. handlers' = {g}
    BY <1>1 DEF Publish, Becomes
  <1>4. h.errs = errors /\ \A f \in Files \ dirty : WillShow(outbox, shown, f, {})
    BY <1>2 DEF SessionInv, DiagnosticsInv
  <1>5. errors \in SUBSET Errors /\ dirty \subseteq Files
    BY DEF SessionInv, SessionType
  <1>6. Affected(errors) \subseteq Files /\ \A f : Diagnostics(errors, f) \in SUBSET Whats
    BY <1>5, DiagnosticsTyped
  <1>7. todo \in ToSend
    <2>1. ToNotify(h.errs) \in SUBSET Files
      BY <1>4, <1>5, <1>6 DEF ToNotify
    <2>2. todo \in [ToNotify(h.errs) -> SUBSET Whats]
      BY <1>4, <1>6
    <2> QED BY <2>1, <2>2 DEF ToSend
  <1>8. /\ DOMAIN todo = Affected(errors) \cup dirty
        /\ \A f \in DOMAIN todo : todo[f] = Diagnostics(errors, f)
    BY <1>4 DEF ToNotify
  <1> HIDE DEF todo
  <1>9. g \in HandlerType /\ g.msg = h.msg /\ g.stage = "notify" /\ g.todo = todo
    BY <1>1, <1>7 DEF HandlerType
  <1> HIDE DEF g
  <1>10. /\ h.msg.kind \in {"initialized", "open", "change", "close"}
         /\ h.msg.kind # "request" /\ ~Unapplied(h)
         /\ \A x \in handlers' : ~Unapplied(x)
         /\ ~Unannounced /\ ~Unannounced'
    BY <1>2, <1>3, <1>9, PublisherFacts
  <1>11. SessionType'
    BY <1>2, <1>3, <1>4, <1>6, <1>9 DEF SessionInv, SessionType
  <1>12. HandshakeInv'
    BY <1>2, <1>3, <1>9, <1>10, HandshakeStep
  <1>13. TextInv'
    BY <1>2, <1>3, <1>9, <1>10, AppliedText
  <1>14. \A f \in Files \ DOMAIN todo : WillShow(outbox, shown, f, Diagnostics(errors, f))
    BY <1>4, <1>8, NoDiagnostics
  <1>15. DiagnosticsInv'
    BY <1>2, <1>3, <1>4, <1>8, <1>9, <1>10, <1>14 DEF DiagnosticsInv
  <1> QED
    BY <1>11, <1>12, <1>13, <1>15 DEF SessionInv

(* One notification goes out, after the lock has been released.            *)
LEMMA NotifyKeeps ==
  ASSUME SessionInv, NEW h \in handlers, Notify(h)
  PROVE  SessionInv'
  <1>1. handlers = {h} /\ h \in HandlerType
    BY HandlerFacts
  <1>2. /\ UNCHANGED <<disk, editor, phase, inbox, view, program, errors, dirty, pending, shown, answer>>
        /\ h.stage = "notify"
    BY DEF Notify, client, compiler
  <1>3. PICK f \in DOMAIN h.todo :
           /\ outbox' = Append(outbox, [file |-> f, diags |-> h.todo[f]])
           /\ Becomes(h, [h EXCEPT !.todo = [e \in DOMAIN h.todo \ {f} |-> h.todo[e]]])
    BY DEF Notify
  <1> DEFINE todo == h.todo
             rest == [e \in DOMAIN todo \ {f} |-> todo[e]]
             x == [file |-> f, diags |-> todo[f]]
             g == [h EXCEPT !.todo = rest]
  <1>4. handlers' = {g}
    BY <1>1, <1>3 DEF Becomes
  <1>5. /\ dirty = Affected(errors)
        /\ \A e \in DOMAIN todo : todo[e] = Diagnostics(errors, e)
        /\ \A e \in Files \ DOMAIN todo : WillShow(outbox, shown, e, Diagnostics(errors, e))
    BY <1>2 DEF SessionInv, DiagnosticsInv
  <1>6. todo \in ToSend
    BY <1>1 DEF HandlerType
  <1>7. DOMAIN todo \subseteq Files /\ \A e \in DOMAIN todo : todo[e] \in SUBSET Whats
    BY <1>6 DEF ToSend
  <1>8. rest \in ToSend
    <2>1. DOMAIN todo \ {f} \in SUBSET Files
      BY <1>7
    <2>2. rest \in [DOMAIN todo \ {f} -> SUBSET Whats]
      BY <1>7
    <2> QED BY <2>1, <2>2 DEF ToSend
  <1>9. DOMAIN rest = DOMAIN todo \ {f} /\ \A e \in DOMAIN rest : rest[e] = todo[e]
    OBVIOUS
  <1>10. x \in Notifications /\ x.file = f /\ x.diags = Diagnostics(errors, f)
    BY <1>3, <1>5, <1>7 DEF Notifications
  <1> HIDE DEF rest, x
  <1>11. g \in HandlerType /\ g.msg = h.msg /\ g.stage = "notify" /\ g.todo = rest
    BY <1>1, <1>2, <1>8 DEF HandlerType
  <1> HIDE DEF g
  <1>12. outbox \in Seq(Notifications) /\ outbox' = Append(outbox, x)
    BY <1>3 DEF SessionInv, SessionType, x
  <1>13. /\ h.msg.kind \in {"initialized", "open", "change", "close"}
         /\ h.msg.kind # "request" /\ ~Unapplied(h)
         /\ \A y \in handlers' : ~Unapplied(y)
         /\ ~Unannounced /\ ~Unannounced'
    BY <1>2, <1>4, <1>11, PublisherFacts
  <1>14. SessionType'
    <2>1. outbox' \in Seq(Notifications)
      BY <1>10, <1>12, AppendEntries
    <2> QED BY <1>2, <1>4, <1>11, <2>1 DEF SessionInv, SessionType
  <1>15. HandshakeInv'
    BY <1>2, <1>4, <1>11, <1>13, HandshakeStep
  <1>16. TextInv'
    BY <1>2, <1>4, <1>11, <1>13, AppliedText
  <1>17. ASSUME NEW e \in Files \ DOMAIN rest
         PROVE  WillShow(outbox', shown, e, Diagnostics(errors, e))
    <2>1. e # f => WillShow(outbox, shown, e, Diagnostics(errors, e))
      BY <1>5, <1>9
    <2> QED BY <1>10, <1>12, <2>1, WillShowSent
  <1>18. DiagnosticsInv'
    BY <1>2, <1>4, <1>5, <1>9, <1>11, <1>13, <1>17 DEF DiagnosticsInv
  <1> QED
    BY <1>14, <1>15, <1>16, <1>18 DEF SessionInv

(* When all of them are out, the handler returns.                          *)
LEMMA NotifyEndKeeps ==
  ASSUME SessionInv, NEW h \in handlers, NotifyEnd(h)
  PROVE  SessionInv'
  <1>1. handlers = {h} /\ handlers' = {}
    BY HandlerFacts DEF NotifyEnd, Returns
  <1>2. /\ UNCHANGED <<disk, editor, phase, inbox, view, program, errors, dirty, pending, outbox, shown, answer>>
        /\ h.stage = "notify" /\ DOMAIN h.todo = {}
    BY DEF NotifyEnd, client, compiler
  <1>3. /\ h.msg.kind \in {"initialized", "open", "change", "close"}
        /\ h.msg.kind # "request" /\ ~Unapplied(h)
        /\ ~Unannounced /\ ~Unannounced'
    BY <1>1, <1>2, PublisherFacts
  <1>4. SessionType'
    BY <1>1, <1>2 DEF SessionInv, SessionType
  <1>5. HandshakeInv'
    BY <1>1, <1>2, HandshakeStep
  <1>6. TextInv'
    BY <1>1, <1>2, <1>3, AppliedText
  <1>7. /\ dirty = Affected(errors)
        /\ \A f \in Files : WillShow(outbox, shown, f, Diagnostics(errors, f))
    BY <1>2 DEF SessionInv, DiagnosticsInv
  <1>8. DiagnosticsInv'
    BY <1>1, <1>2, <1>3, <1>7 DEF DiagnosticsInv
  <1> QED
    BY <1>4, <1>5, <1>6, <1>8 DEF SessionInv

(* Every step of a handler keeps the invariant.                            *)
LEMMA HandleKeeps ==
  ASSUME SessionInv, NEW h \in handlers, Handle(h)
  PROVE  SessionInv'
  <1>1. /\ handlers = {h} /\ h \in HandlerType
    BY HandlerFacts
  <1>2. /\ h.msg.texts \in Seq(Texts) /\ h.text \in Texts \cup {None}
        /\ answer.text = answer.asked /\ answer.from = answer.asked
    BY <1>1 DEF HandlerType, Messages, SessionInv, TextInv
  <1>3. h.msg.texts # <<>> => Last(h.msg.texts) \in Texts
    BY <1>2 DEF Last
  <1>4. CASE DidOpen(h)
    <2>1. h.msg.texts # <<>>
      BY <1>4 DEF DidOpen, SessionInv, HandshakeInv
    <2>2. Sets(h.msg, h.msg.file)
      BY <1>4 DEF DidOpen, Sets
    <2>3. ApplyText(h, Last(h.msg.texts))
      BY <1>4 DEF DidOpen, Edited
    <2> QED BY <1>3, <1>4, <2>1, <2>2, <2>3, ApplyTextKeeps DEF DidOpen, client
  <1>5. CASE DidChange(h)
    <2>1. CASE h.msg.texts = <<>>
      <3>1. handlers' = {} /\ UNCHANGED <<view, program, errors>>
        BY <1>1, <1>5, <2>1 DEF DidChange, Returns, compiler
      <3>2. \A f : ~Sets(h.msg, f)
        BY <1>5, <2>1 DEF DidChange, Sets
      <3> QED BY <1>2, <1>5, <3>1, <3>2, QuietStep DEF DidChange, client
    <2>2. CASE h.msg.texts # <<>>
      <3>1. Sets(h.msg, h.msg.file)
        BY <1>5, <2>2 DEF DidChange, Sets
      <3>2. ApplyText(h, Last(h.msg.texts))
        BY <1>5, <2>2 DEF DidChange, Edited
      <3> QED BY <1>3, <1>5, <2>2, <3>1, <3>2, ApplyTextKeeps DEF DidChange, client
    <2> QED BY <2>1, <2>2
  <1>6. CASE CloseRead(h)
    <2> DEFINE g == [h EXCEPT !.stage = "apply", !.text = disk[h.msg.file]]
    <2>1. handlers' = {g}
      BY <1>1, <1>6 DEF CloseRead, Becomes
    <2>2. h.msg.file \in Files
      BY <1>6 DEF CloseRead, SessionInv, HandshakeInv
    <2>3. disk[h.msg.file] \in Texts \cup {None}
      BY <2>2 DEF SessionInv, SessionType, Contents
    <2>4. g \in HandlerType /\ g.msg = h.msg /\ g.stage = "apply"
      BY <1>1, <2>3 DEF HandlerType
    <2> HIDE DEF g
    <2> QED BY <1>2, <1>6, <2>1, <2>4, QuietStep DEF CloseRead, client, compiler
  <1>7. CASE CloseApply(h)
    <2>1. Sets(h.msg, h.msg.file)
      BY <1>7 DEF CloseApply, Sets
    <2> QED BY <1>2, <1>7, <2>1, ApplyTextKeeps DEF CloseApply, client
  <1>8. CASE Silent(h)
    <2>1. handlers' = {} /\ \A f : ~Sets(h.msg, f)
      BY <1>1, <1>8 DEF Silent, Returns, Sets
    <2>2. h.stage \in {"begin", "apply"}
      BY <1>1, <1>8 DEF Silent, SessionInv, HandshakeInv, HandlerType
    <2> QED BY <1>2, <1>8, <2>1, <2>2, QuietStep DEF Silent, client, compiler
  <1>9. CASE Request(h)
    <2>1. handlers' = {} /\ \A f : ~Sets(h.msg, f)
      BY <1>1, <1>9 DEF Request, Returns, Sets
    <2>2. h.stage \in {"begin", "apply"}
      BY <1>1, <1>9 DEF Request, SessionInv, HandshakeInv, HandlerType
    <2>3. view[h.msg.file] = h.msg.texts[1] /\ program = view
      BY <1>9 DEF Request, SessionInv, TextInv
    <2>4. answer'.text = answer'.asked /\ answer'.from = answer'.asked
      BY <1>9, <2>3 DEF Request
    <2> QED BY <1>9, <2>1, <2>2, <2>4, QuietStep DEF Request, client, compiler
  <1> QED
    BY <1>4, <1>5, <1>6, <1>7, <1>8, <1>9, InitializeKeeps, InitializedKeeps,
       PublishKeeps, NotifyKeeps, NotifyEndKeeps DEF Handle

-----------------------------------------------------------------------------
(* The invariant, and what it says of a session.                           *)

(* A session starts with nothing known and nothing shown.                  *)
LEMMA SessionInit ==
  ASSUME Init
  PROVE  SessionInv
  <1>1. NoFiles \in Contents
    BY DEF NoFiles, Contents
  <1>2. disk \in Contents
    BY SessionAssumption DEF Init, Contents
  <1>3. shown \in [Files -> SUBSET Whats] /\ \A f \in Files : shown[f] = {}
    BY DEF Init
  <1>4. Len(inbox) = 0 /\ Len(outbox) = 0
    BY DEF Init
  <1>5. SessionType
    BY <1>1, <1>2, <1>3 DEF Init, SessionType
  <1>6. HandshakeInv
    BY <1>4 DEF Init, HandshakeInv
  <1>7. TextInv
    BY <1>4 DEF Init, TextInv, NoFiles, NoAnswer
  <1>8. DiagnosticsInv
    BY <1>3, <1>4 DEF Init, DiagnosticsInv, WillShow, Unannounced
  <1> QED
    BY <1>5, <1>6, <1>7, <1>8 DEF SessionInv

(* Every step keeps the invariant.                                         *)
LEMMA SessionNext ==
  ASSUME SessionInv, [Next]_vars
  PROVE  SessionInv'
  <1>1. CASE UNCHANGED vars
    <2>1. UNCHANGED <<disk, editor, phase, inbox, handlers, view, program, errors,
                      dirty, pending, outbox, shown, answer>>
      BY <1>1 DEF vars
    <2>2. SessionType' /\ HandshakeInv' /\ TextInv'
      BY <2>1 DEF SessionInv, SessionType, HandshakeInv, TextInv
    <2>3. DiagnosticsInv'
      BY <2>1 DEF SessionInv, DiagnosticsInv, Unannounced
    <2> QED BY <2>2, <2>3 DEF SessionInv
  <1>2. CASE Next
    BY <1>2, SetupKeeps, EditKeeps, DeliverKeeps, ReceiveKeeps, HandleKeeps DEF Next, Server
  <1> QED
    BY <1>1, <1>2

(* The invariant holds throughout every session.                           *)
LEMMA SessionHolds == Spec => []SessionInv
  <1>1. Init => SessionInv
    BY SessionInit
  <1>2. SessionInv /\ [Next]_vars => SessionInv'
    BY SessionNext
  <1> QED
    BY <1>1, <1>2, PTL DEF Spec

(* Whatever files are opened, changed, closed and saved, and in whatever   *)
(* order they were parsed, once nothing is under way the editor shows the  *)
(* errors of the last compilation (publishDiagnostics, dirtyDiagnostics).  *)
THEOREM SquigglesAreCurrent == Spec => []NoStaleSquiggles
  <1>1. SessionInv => NoStaleSquiggles
    <2> SUFFICES ASSUME SessionInv, Quiet, NEW f \in Files
                 PROVE  shown[f] = Diagnostics(errors, f)
      BY DEF NoStaleSquiggles
    <2>1. ~Unannounced
      <3>1. Len(inbox) = 0
        BY DEF Quiet
      <3> QED BY <3>1 DEF Quiet, Unannounced
    <2>2. WillShow(outbox, shown, f, Diagnostics(errors, f))
      BY <2>1 DEF SessionInv, DiagnosticsInv, Quiet
    <2>3. Len(outbox) = 0
      BY DEF Quiet
    <2> QED BY <2>2, <2>3 DEF WillShow
  <1> QED
    BY <1>1, SessionHolds, PTL

(* A request is answered from the text the user had when it was made and   *)
(* from a program compiled from that text, and a quiet session holds the   *)
(* text of every open document (DidOpen, DidChange, DidClose, Rename).     *)
THEOREM AnswersAreCurrent == Spec => []AnswersCurrent
  <1>1. SessionInv => AnswersCurrent
    <2> SUFFICES ASSUME SessionInv PROVE AnswersCurrent
      OBVIOUS
    <2>1. answer.text = answer.asked /\ answer.from = answer.asked
      BY DEF SessionInv, TextInv
    <2>2. ASSUME Quiet, NEW f \in Files, editor[f] # None
          PROVE  view[f] = editor[f]
      <3>1. Len(inbox) = 0 /\ handlers = {}
        BY <2>2 DEF Quiet
      <3>2. WillHold(inbox, Len(inbox), handlers, view, f, editor[f])
        BY <2>2 DEF SessionInv, TextInv
      <3> QED BY <3>1, <3>2 DEF WillHold, Holds
    <2> QED BY <2>1, <2>2 DEF AnswersCurrent
  <1> QED
    BY <1>1, SessionHolds, PTL

=============================================================================
