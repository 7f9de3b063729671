------------------------- MODULE RelayFanout_proofs -------------------------
(***************************************************************************)
(* The promises of RelayFanout for any number of sockets and rooms and any *)
(* limits: the rooms match the connections, each disconnect is recorded    *)
(* once, views converge, no scene frame is skipped silently, and a drain   *)
(* is what its disconnects are attributed to.  The argument is about the   *)
(* stack of loops: what each unfinished loop still owes to whom.           *)
(***************************************************************************)
EXTENDS RelayFanout, TLAPS, SequenceTheorems, FiniteSetTheorems

USE LimitAssumption, NoRoomAssumption, ConnsAssumption

-----------------------------------------------------------------------------
(* The inductive invariant.                                                *)

Frames(st) == {st[i] : i \in DOMAIN st}

\* A join ends the handler it is in, and no other handler closes anything in it.
JoinLast(st) ==
  /\ \A i \in DOMAIN st : st[i].op = "joined" => i = Len(st)
  /\ \A f, g \in Frames(st) : f.op = "joined" => g.op \in {"peers", "close", "joined"}

\* c is a member of r already, and its membership is still to be noted.
Joining(c, r, st) == \E f \in Frames(st) : f.op = "joined" /\ f.room = r /\ c \in f.to

\* What holds of every unfinished loop; the handler is busy with the sockets of X.
LoopInv(f, X) ==
  /\ f.op = "joined" => \E c \in Conns :
       f.to = {c} /\ Live(c) /\ membership[c] = NoRoom /\ f.room \in Channels
  /\ f.op = "peers" => /\ f.room \in Channels
                       /\ ~f.stale => f.list = members[f.room] /\ f.to \subseteq f.list
  /\ f.op = "scene" =>
       /\ f.room \in Channels /\ f.to \subseteq f.list
       /\ \A c \in f.list : Writable(c) => c \in members[f.room]
       /\ \A c \in f.list \ (f.sent \cup f.to) : Writable(c) => c \in X
  /\ f.op = "close" => \A c \in f.to : sock[c] # "closed"
  /\ draining => f.op \in {"peers", "close", "drain"}

\* The loop that will still bring c the list of its room.
Informs(f, c) == f.op = "peers" /\ f.room = membership[c] /\ ~f.stale /\ c \in f.to

StackInv(st, X) ==
  /\ st \in Seq(Frame) /\ JoinLast(st)
  /\ \A f \in Frames(st) : LoopInv(f, X)
  /\ \A c \in Conns, r \in Channels :
       c \in members[r] <=> Live(c) /\ (membership[c] = r \/ Joining(c, r, st))
  /\ \A c \in Conns \ X :
       Writable(c) /\ membership[c] # NoRoom /\ view[c] # members[membership[c]]
         => \E f \in Frames(st) : Informs(f, c)
  /\ draining => \A c \in Conns \ X :
       Live(c) => \E f \in Frames(st) : f.op = "drain" /\ c \in f.to

ConnInv ==
  /\ \A c \in Conns : Live(c) => sock[c] # "closed"
  /\ \A c \in Conns : membership[c] # NoRoom => Live(c)
  /\ draining => \A c \in Conns : sock[c] # "open"

IInv == TypeOK /\ ConnInv /\ StackInv(stack, {}) /\ ClosedOnce /\ WithinLimits

-----------------------------------------------------------------------------
(* The stack: pushing, popping and marking loops.                          *)

LEMMA FramesType ==
  ASSUME NEW st \in Seq(Frame), NEW f \in Frames(st)
  PROVE  f \in Frame
BY DEF Frames

LEMMA Empty ==
  /\ <<>> \in Seq(Frame) /\ Frames(<<>>) = {} /\ JoinLast(<<>>)
  /\ \A st : st \in Seq(Frame) /\ Len(st) = 0 => st = <<>>
BY DEF Frames, JoinLast

LEMMA PushAt ==
  ASSUME NEW st \in Seq(Frame), NEW f \in Frame
  PROVE  /\ <<f>> \o st \in Seq(Frame) /\ Len(<<f>> \o st) = Len(st) + 1
         /\ DOMAIN (<<f>> \o st) = 1..(Len(st) + 1) /\ Len(st) \in Nat
         /\ (<<f>> \o st)[1] = f
         /\ \A i \in 1..Len(st) : (<<f>> \o st)[i + 1] = st[i] /\ i + 1 \in 1..(Len(st) + 1)
         /\ \A i \in 1..(Len(st) + 1) :
              i = 1 \/ (i - 1 \in 1..Len(st) /\ (<<f>> \o st)[i] = st[i - 1])
OBVIOUS

LEMMA Push ==
  ASSUME NEW st \in Seq(Frame), NEW f \in Frame
  PROVE  /\ <<f>> \o st \in Seq(Frame)
         /\ <<f>> \o st # <<>>
         /\ Head(<<f>> \o st) = f
         /\ Frames(<<f>> \o st) = {f} \cup Frames(st)
<1>1. \A g \in Frames(<<f>> \o st) : g = f \/ g \in Frames(st)
  BY PushAt DEF Frames
<1>2. f \in Frames(<<f>> \o st)
  BY PushAt DEF Frames
<1>3. \A g \in Frames(st) : g \in Frames(<<f>> \o st)
  <2>. SUFFICES ASSUME NEW i \in 1..Len(st) PROVE st[i] \in Frames(<<f>> \o st)
    BY DEF Frames
  <2>1. i + 1 \in DOMAIN (<<f>> \o st) /\ (<<f>> \o st)[i + 1] = st[i]
    BY PushAt
  <2>. QED
    BY <2>1 DEF Frames
<1>4. Head(<<f>> \o st) = f /\ <<f>> \o st # <<>>
  OBVIOUS
<1>. QED
  BY <1>1, <1>2, <1>3, <1>4, PushAt

\* A loop above a join is a broadcast or a close.
LEMMA PushJoinLast ==
  ASSUME NEW st \in Seq(Frame), NEW f \in Frame, JoinLast(st), f.op # "joined",
         (\E g \in Frames(st) : g.op = "joined") => f.op \in {"peers", "close"}
  PROVE  JoinLast(<<f>> \o st)
<1>2. \A i \in DOMAIN (<<f>> \o st) :
        (<<f>> \o st)[i].op = "joined" => i = Len(<<f>> \o st)
  <2>. SUFFICES ASSUME NEW i \in DOMAIN (<<f>> \o st), (<<f>> \o st)[i].op = "joined"
                PROVE  i = Len(<<f>> \o st)
    OBVIOUS
  <2>1. i \in 1..(Len(st) + 1) /\ i # 1 /\ i - 1 \in 1..Len(st) /\ st[i - 1].op = "joined"
    BY PushAt
  <2>2. i - 1 = Len(st)
    BY <2>1 DEF JoinLast
  <2>. QED
    BY PushAt, <2>1, <2>2
<1>3. \A g, h \in Frames(<<f>> \o st) :
        g.op = "joined" => h.op \in {"peers", "close", "joined"}
  BY Push DEF JoinLast
<1>. QED
  BY <1>2, <1>3 DEF JoinLast

LEMMA Pop ==
  ASSUME NEW st \in Seq(Frame), st # <<>>
  PROVE  /\ Head(st) \in Frame /\ Tail(st) \in Seq(Frame)
         /\ Frames(st) = {Head(st)} \cup Frames(Tail(st))
         /\ JoinLast(st) => JoinLast(Tail(st))
         /\ JoinLast(st) /\ Head(st).op = "joined" => Tail(st) = <<>>
<1>1. /\ Len(st) \in Nat \ {0} /\ Head(st) = st[1] /\ Tail(st) \in Seq(Frame)
      /\ Len(Tail(st)) = Len(st) - 1
      /\ \A i \in 1..(Len(st) - 1) : Tail(st)[i] = st[i + 1]
      /\ \A i \in 1..Len(st) : i = 1 \/ i - 1 \in 1..(Len(st) - 1)
  OBVIOUS
<1>2. Frames(Tail(st)) \subseteq Frames(st)
  BY <1>1 DEF Frames
<1>3. Frames(st) \subseteq {Head(st)} \cup Frames(Tail(st))
  <2>. SUFFICES ASSUME NEW i \in DOMAIN st PROVE st[i] = Head(st) \/ st[i] \in Frames(Tail(st))
    BY DEF Frames
  <2>1. i = 1 \/ (i - 1 \in DOMAIN Tail(st) /\ Tail(st)[i - 1] = st[i])
    BY <1>1
  <2>. QED
    BY <1>1, <2>1 DEF Frames
<1>4. Head(st) \in Frames(st)
  BY <1>1 DEF Frames
<1>5. ASSUME JoinLast(st)
      PROVE  JoinLast(Tail(st))
  <2>1. \A i \in DOMAIN Tail(st) : Tail(st)[i].op = "joined" => i = Len(Tail(st))
    BY <1>1, <1>5 DEF JoinLast
  <2>. QED
    BY <1>2, <1>5, <2>1 DEF JoinLast
<1>6. ASSUME JoinLast(st), Head(st).op = "joined"
      PROVE  Tail(st) = <<>>
  <2>1. Len(st) = 1
    BY <1>1, <1>6 DEF JoinLast
  <2>2. Len(Tail(st)) = 0 /\ Tail(st) \in Seq(Frame)
    BY <1>1, <2>1
  <2>. QED
    BY <2>2, Empty
<1>. QED
  BY <1>1, <1>2, <1>3, <1>4, <1>5, <1>6

\* What MarkStale makes of a loop.
Marked(r, f) == IF f.op = "peers" /\ f.room = r THEN [f EXCEPT !.stale = TRUE] ELSE f

LEMMA MarkedFields ==
  ASSUME NEW f \in Frame, NEW r
  PROVE  /\ Marked(r, f) \in Frame
         /\ Marked(r, f).op = f.op /\ Marked(r, f).room = f.room /\ Marked(r, f).to = f.to
         /\ Marked(r, f).list = f.list /\ Marked(r, f).sent = f.sent
         /\ f.op = "peers" /\ f.room = r => Marked(r, f).stale
         /\ ~(f.op = "peers" /\ f.room = r) => Marked(r, f) = f
BY DEF Marked, Frame

LEMMA Mark ==
  ASSUME NEW st \in Seq(Frame), NEW r
  PROVE  /\ MarkStale(r, st) \in Seq(Frame)
         /\ Frames(MarkStale(r, st)) = {Marked(r, f) : f \in Frames(st)}
         /\ JoinLast(st) => JoinLast(MarkStale(r, st))
<1>. DEFINE mk == MarkStale(r, st)
<1>1. mk = [i \in 1..Len(st) |-> Marked(r, st[i])] /\ Len(st) \in Nat
  BY DEF MarkStale, Marked
<1>2. \A i \in 1..Len(st) : mk[i] \in Frame /\ mk[i].op = st[i].op
  BY <1>1, MarkedFields
<1>3. mk \in Seq(Frame) /\ Len(mk) = Len(st) /\ DOMAIN mk = DOMAIN st
  BY <1>1, <1>2
<1>4. Frames(mk) = {Marked(r, f) : f \in Frames(st)}
  BY <1>1, <1>3 DEF Frames
<1>5. ASSUME JoinLast(st)
      PROVE  JoinLast(mk)
  <2>1. \A i \in DOMAIN mk : mk[i].op = "joined" => i = Len(mk)
    BY <1>2, <1>3, <1>5 DEF JoinLast
  <2>2. \A f, g \in Frames(mk) : f.op = "joined" => g.op \in {"peers", "close", "joined"}
    BY <1>2, <1>3, <1>5 DEF JoinLast, Frames
  <2>. QED
    BY <2>1, <2>2 DEF JoinLast
<1>. QED
  BY <1>3, <1>4, <1>5

-----------------------------------------------------------------------------
(* The loops, as the innermost one is worked off.                          *)

\* What a step leaves of the stack when it changes nothing else.
LEMMA StackFrame ==
  ASSUME UNCHANGED <<sock, conn, membership, members, view, draining>>
  PROVE  \A st, X : StackInv(st, X) => StackInv(st, X)'
<1>1. \A c : /\ Live(c)' = Live(c) /\ Writable(c)' = Writable(c)
  BY DEF Live, Writable
<1>2. \A f, X : LoopInv(f, X) => LoopInv(f, X)'
  BY <1>1 DEF LoopInv
<1>3. \A f, c : Informs(f, c) => Informs(f, c)'
  BY DEF Informs
<1>. QED
  BY <1>1, <1>2, <1>3 DEF StackInv

LEMMA LoopInvMore ==
  ASSUME NEW f, NEW X, NEW Y, LoopInv(f, X), X \subseteq Y
  PROVE  LoopInv(f, Y)
BY DEF LoopInv

\* The loop has dealt with c, which is owed nothing, or which the handler is busy with.
LEMMA TopInv ==
  ASSUME NEW st \in Seq(Frame), st # <<>>, StackInv(st, {}), NEW c, NEW X, NEW f \in Frame,
         Head(st).op \notin {"joined", "close"},
         f.op = Head(st).op, f.room = Head(st).room, f.list = Head(st).list,
         f.stale = Head(st).stale, f.to = Head(st).to \ {c}, Head(st).sent \subseteq f.sent,
         X = {c} \/ (/\ f.op = "scene" => c \in f.sent \/ ~Writable(c)
                     /\ f.op = "peers" => ~Writable(c) \/ view[c] = members[membership[c]]
                     /\ f.op = "drain" => ~Live(c))
  PROVE  StackInv(<<f>> \o Tail(st), X)
<1>. DEFINE top == Head(st)  rest == Tail(st)  new == <<f>> \o rest
<1>1. /\ top \in Frame /\ rest \in Seq(Frame) /\ Frames(st) = {top} \cup Frames(rest)
      /\ JoinLast(rest) /\ JoinLast(st)
  BY Pop DEF StackInv
<1>2. new \in Seq(Frame) /\ Frames(new) = {f} \cup Frames(rest)
  BY <1>1, Push
<1>3. JoinLast(new)
  BY <1>1, PushJoinLast DEF JoinLast
<1>4. \A g \in Frames(rest) : LoopInv(g, X)
  BY <1>1, LoopInvMore DEF StackInv
<1>5. LoopInv(f, X)
  <2>1. LoopInv(top, {})
    BY <1>1 DEF StackInv
  <2>. QED
    BY <2>1 DEF LoopInv
<1>6. \A d, r : Joining(d, r, new) <=> Joining(d, r, st)
  BY <1>1, <1>2 DEF Joining
<1>7. \A d \in Conns \ X :
        Writable(d) /\ membership[d] # NoRoom /\ view[d] # members[membership[d]]
          => \E g \in Frames(new) : Informs(g, d)
  <2>. SUFFICES ASSUME NEW d \in Conns \ X, Writable(d), membership[d] # NoRoom,
                       view[d] # members[membership[d]]
                PROVE  \E g \in Frames(new) : Informs(g, d)
    OBVIOUS
  <2>1. PICK g \in Frames(st) : Informs(g, d)
    BY DEF StackInv
  <2>2. CASE g \in Frames(rest)
    BY <1>2, <2>1, <2>2
  <2>3. CASE g = top
    BY <1>2, <2>1, <2>3 DEF Informs
  <2>. QED
    BY <1>1, <2>2, <2>3
<1>8. draining => \A d \in Conns \ X :
        Live(d) => \E g \in Frames(new) : g.op = "drain" /\ d \in g.to
  <2>. SUFFICES ASSUME draining, NEW d \in Conns \ X, Live(d)
                PROVE  \E g \in Frames(new) : g.op = "drain" /\ d \in g.to
    OBVIOUS
  <2>1. PICK g \in Frames(st) : g.op = "drain" /\ d \in g.to
    BY DEF StackInv
  <2>2. CASE g \in Frames(rest)
    BY <1>2, <2>1, <2>2
  <2>3. CASE g = top
    BY <1>2, <2>1, <2>3
  <2>. QED
    BY <1>1, <2>2, <2>3
<1>9. \A d \in Conns, r \in Channels :
        d \in members[r] <=> Live(d) /\ (membership[d] = r \/ Joining(d, r, new))
  BY <1>6 DEF StackInv
<1>10. \A g \in Frames(new) : LoopInv(g, X)
  BY <1>2, <1>4, <1>5
<1>. HIDE DEF new
<1>11. StackInv(new, X)
  BY <1>2, <1>3, <1>7, <1>8, <1>9, <1>10 DEF StackInv
<1>. QED
  BY <1>11 DEF new

\* A loop that owes nobody anything ends.
LEMMA PopInv ==
  ASSUME NEW st \in Seq(Frame), st # <<>>, StackInv(st, {}), Head(st).op # "joined",
         Head(st).op = "peers" => Head(st).stale \/ Head(st).to = {},
         Head(st).op = "drain" => Head(st).to = {}
  PROVE  StackInv(Tail(st), {})
<1>1. /\ Tail(st) \in Seq(Frame) /\ Frames(st) = {Head(st)} \cup Frames(Tail(st))
      /\ JoinLast(Tail(st))
  BY Pop DEF StackInv
<1>2. \A d, r : Joining(d, r, Tail(st)) <=> Joining(d, r, st)
  BY <1>1 DEF Joining
<1>3. \A d : ~Informs(Head(st), d)
  BY DEF Informs
<1>. QED
  BY <1>1, <1>2, <1>3 DEF StackInv

\* The socket of an ended connection will be closed.
LEMMA PushClose ==
  ASSUME NEW st \in Seq(Frame), NEW X, StackInv(st, X), NEW c \in Conns, sock[c] # "closed"
  PROVE  /\ StackInv(<<Loop("close", NoRoom, {c}, {})>> \o st, X)
         /\ \A r : Joining(c, r, <<Loop("close", NoRoom, {c}, {})>> \o st) => Joining(c, r, st)
<1>. DEFINE f == Loop("close", NoRoom, {c}, {})  new == <<f>> \o st
<1>1. f \in Frame /\ f.op = "close" /\ f.to = {c}
  BY DEF Loop, Frame
<1>. HIDE DEF f
<1>2. new \in Seq(Frame) /\ Frames(new) = {f} \cup Frames(st)
  BY <1>1, Push
<1>3. JoinLast(new)
  BY <1>1, PushJoinLast DEF StackInv
<1>4. \A d, r : Joining(d, r, new) <=> Joining(d, r, st)
  BY <1>1, <1>2 DEF Joining
<1>5. LoopInv(f, X)
  BY <1>1 DEF LoopInv
<1>. HIDE DEF new
<1>6. StackInv(new, X)
  BY <1>2, <1>3, <1>4, <1>5 DEF StackInv
<1>. QED
  BY <1>4, <1>6 DEF f, new

-----------------------------------------------------------------------------
(* A connection is released.                                               *)

\* What release does to each connection and loop.
LEMMA ReleaseEffect ==
  ASSUME TypeOK, NEW c \in Conns, Live(c), NEW st, Release(c, st),
         \/ UNCHANGED sock
         \/ sock' = [sock EXCEPT ![c] = "closed"]
  PROVE  /\ \A d \in Conns : Live(d)' <=> Live(d) /\ d # c
         /\ \A d \in Conns : Writable(d)' => Writable(d) /\ d # c
         /\ \A d \in Conns \ {c} :
              /\ membership'[d] = membership[d] /\ view'[d] = view[d]
              /\ sock'[d] = sock[d]
         /\ membership'[c] = NoRoom
BY DEF TypeOK, Release, Live, Writable

LEMMA LoopRelease ==
  ASSUME TypeOK, NEW c \in Conns, Live(c), NEW st, Release(c, st), UNCHANGED draining,
         \/ UNCHANGED sock
         \/ st = <<>> /\ sock' = [sock EXCEPT ![c] = "closed"],
         NEW f \in Frame, LoopInv(f, {c}), f.op = "joined" => c \notin f.to,
         f.op = "close" => UNCHANGED sock,
         f.op = "peers" => f.stale \/ members'[f.room] = members[f.room]
  PROVE  LoopInv(f, {})'
<1>1. /\ \A d \in Conns : Live(d)' <=> Live(d) /\ d # c
      /\ \A d \in Conns : Writable(d)' => Writable(d) /\ d # c
      /\ \A d \in Conns \ {c} : membership'[d] = membership[d]
  BY ReleaseEffect
<1>2. \A r \in Channels : members[r] \ {c} \subseteq members'[r]
  BY DEF Release, TypeOK
<1>3. f.op = "joined" => \E d \in Conns :
        f.to = {d} /\ Live(d)' /\ membership'[d] = NoRoom /\ f.room \in Channels
  BY <1>1 DEF LoopInv
<1>4. f.op = "scene" =>
        /\ f.room \in Channels /\ f.to \subseteq f.list
        /\ \A d \in f.list : Writable(d)' => d \in members'[f.room]
        /\ \A d \in f.list \ (f.sent \cup f.to) : ~Writable(d)'
  <2>1. f.list \subseteq Conns
    BY DEF Frame
  <2>. QED
    BY <1>1, <1>2, <2>1 DEF LoopInv
<1>5. f.op = "close" => \A d \in f.to : sock'[d] # "closed"
  BY DEF LoopInv
<1>6. draining' => f.op \in {"peers", "close", "drain"}
  BY DEF LoopInv
<1>7. f.op = "peers" => /\ f.room \in Channels
                        /\ ~f.stale => f.list = members'[f.room] /\ f.to \subseteq f.list
  BY DEF LoopInv
<1>. QED
  BY <1>3, <1>4, <1>5, <1>6, <1>7 DEF LoopInv

LEMMA ReleaseInv ==
  ASSUME TypeOK, ConnInv, NEW c \in Conns, Live(c), NEW st, StackInv(st, {c}),
         \A r : ~Joining(c, r, st), Release(c, st), UNCHANGED draining,
         \/ UNCHANGED sock
         \/ st = <<>> /\ sock' = [sock EXCEPT ![c] = "closed"]
  PROVE  StackInv(stack, {})'
<1>0. PICK room : room = membership[c]
  OBVIOUS
<1>1. /\ \A d \in Conns : Live(d)' <=> Live(d) /\ d # c
      /\ \A d \in Conns : Writable(d)' => Writable(d) /\ d # c
      /\ \A d \in Conns \ {c} : membership'[d] = membership[d] /\ view'[d] = view[d]
      /\ membership'[c] = NoRoom
  BY ReleaseEffect
<1>2. st \in Seq(Frame) /\ JoinLast(st) /\ \A f \in Frames(st) : f \in Frame /\ LoopInv(f, {c})
  BY FramesType DEF StackInv
<1>3. \A f \in Frames(st) : f.op = "joined" => c \notin f.to
  BY DEF Joining
<1>4. \A f \in Frames(st) : f.op = "close" => UNCHANGED sock
  BY Empty
<1>5. draining => \A d \in Conns \ {c} :
        Live(d)' => \E f \in Frames(st) : f.op = "drain" /\ d \in f.to
  BY <1>1 DEF StackInv
<1>6. CASE room = NoRoom
  <2>1. members' = members /\ stack' = st
    BY <1>0, <1>6 DEF Release
  <2>2. \A f \in Frames(st) : LoopInv(f, {})'
    BY <1>2, <1>3, <1>4, <2>1, LoopRelease
  <2>3. \A d \in Conns, r \in Channels :
          d \in members[r] <=> Live(d)' /\ (membership'[d] = r \/ Joining(d, r, st))
    <3>1. \A d \in Conns, r \in Channels :
            d \in members[r] <=> Live(d) /\ (membership[d] = r \/ Joining(d, r, st))
      BY DEF StackInv
    <3>2. \A r \in Channels : c \notin members[r]
      BY <1>0, <1>6, <3>1
    <3>. QED
      BY <1>1, <3>1, <3>2
  <2>4. \A d \in Conns : Writable(d)' /\ membership'[d] # NoRoom
          /\ view'[d] # members[membership'[d]] => \E f \in Frames(st) : Informs(f, d)'
    BY <1>1 DEF StackInv, Informs
  <2>5. draining' => \A d \in Conns :
          Live(d)' => \E f \in Frames(st) : f.op = "drain" /\ d \in f.to
    BY <1>1, <1>5
  <2>6. \A d, r : Joining(d, r, st)' = Joining(d, r, st)
    BY DEF Joining
  <2>. QED
    BY <1>2, <2>1, <2>2, <2>3, <2>4, <2>5, <2>6 DEF StackInv
<1>7. CASE room # NoRoom
  <2>a. PICK left, marked, tell : /\ left = members[room] \ {c}
                                 /\ marked = MarkStale(room, st)
                                 /\ tell = Loop("peers", room, left, left)
    OBVIOUS
  <2>1. /\ members' = [members EXCEPT ![room] = left] /\ room \in Channels
        /\ stack' = (IF left = {} THEN <<>> ELSE <<tell>>) \o marked
    BY <1>0, <1>7, <2>a DEF Release, TypeOK
  <2>2. /\ marked \in Seq(Frame) /\ JoinLast(marked)
        /\ Frames(marked) = {Marked(room, f) : f \in Frames(st)}
    BY <1>2, <2>a, Mark
  <2>3. left \subseteq Conns /\ members'[room] = left
        /\ \A r \in Channels : r # room => members'[r] = members[r]
    BY <2>1, <2>a DEF TypeOK
  <2>4. /\ tell \in Frame /\ tell.op = "peers" /\ tell.room = room /\ tell.to = left
        /\ tell.list = left /\ tell.stale = FALSE
    BY <2>1, <2>3, <2>a DEF Loop, Frame
  <2>5. /\ stack' \in Seq(Frame) /\ JoinLast(stack')
        /\ Frames(stack') = Frames(marked) \cup (IF left = {} THEN {} ELSE {tell})
    <3>1. CASE left = {}
      BY <2>1, <2>2, <3>1
    <3>2. CASE left # {}
      BY <2>1, <2>2, <2>4, <3>2, Push, PushJoinLast
    <3>. QED
      BY <3>1, <3>2
  <2>6. ASSUME NEW f \in Frames(st)
        PROVE  LoopInv(Marked(room, f), {})'
    <3>0. PICK g : g = Marked(room, f)
      OBVIOUS
    <3>1. /\ g \in Frame /\ g.op = f.op /\ g.room = f.room /\ g.to = f.to /\ g.list = f.list
          /\ g.sent = f.sent /\ (f.op = "peers" /\ f.room = room => g.stale)
          /\ (~(f.op = "peers" /\ f.room = room) => g = f)
      BY <1>2, <3>0, MarkedFields
    <3>2. LoopInv(g, {c})
      BY <1>2, <3>1 DEF LoopInv
    <3>3. g.op = "peers" => g.stale \/ members'[g.room] = members[g.room]
      BY <1>2, <2>3, <3>1 DEF LoopInv
    <3>4. LoopInv(g, {})'
      BY <1>3, <1>4, <3>1, <3>2, <3>3, LoopRelease
    <3>. QED
      BY <3>0, <3>4
  <2>7. LoopInv(tell, {})'
    <3>1. draining' => tell.op \in {"peers", "close", "drain"}
      BY <2>4
    <3>. QED
      BY <2>1, <2>3, <2>4 DEF LoopInv
  <2>8. \A f \in Frames(stack') : LoopInv(f, {})'
    BY <2>2, <2>5, <2>6, <2>7
  <2>9. \A d, r : Joining(d, r, stack') <=> Joining(d, r, st)
    <3>1. \A f \in Frames(st) : /\ Marked(room, f).op = f.op /\ Marked(room, f).room = f.room
                                /\ Marked(room, f).to = f.to
      BY <1>2, MarkedFields
    <3>2. \A d, r : Joining(d, r, marked) <=> Joining(d, r, st)
      BY <2>2, <3>1 DEF Joining
    <3>. QED
      BY <2>4, <2>5, <3>2 DEF Joining
  <2>10. \A d \in Conns, r \in Channels :
           d \in members'[r] <=> Live(d)' /\ (membership'[d] = r \/ Joining(d, r, stack'))
    <3>1. \A d \in Conns, r \in Channels :
            d \in members[r] <=> Live(d) /\ (membership[d] = r \/ Joining(d, r, st))
      BY DEF StackInv
    <3>2. ASSUME NEW r \in Channels
          PROVE  c \notin members'[r]
      BY <1>0, <1>7, <2>3, <2>a, <3>1
    <3>3. ASSUME NEW r \in Channels, NEW d \in Conns \ {c}
          PROVE  d \in members'[r] <=> d \in members[r]
      BY <2>3, <2>a
    <3>. QED
      BY <1>1, <2>9, <3>1, <3>2, <3>3
  <2>11. \A d \in Conns : Writable(d)' /\ membership'[d] # NoRoom
           /\ view'[d] # members'[membership'[d]] => \E f \in Frames(stack') : Informs(f, d)'
    <3>. SUFFICES ASSUME NEW d \in Conns, Writable(d)', membership'[d] # NoRoom,
                         view'[d] # members'[membership'[d]]
                  PROVE  \E f \in Frames(stack') : Informs(f, d)'
      OBVIOUS
    <3>1. d # c /\ Writable(d) /\ membership'[d] = membership[d] /\ view'[d] = view[d]
          /\ membership[d] \in Channels
      BY <1>1 DEF TypeOK
    <3>2. CASE membership[d] = room
      <4>1. d \in left
        BY <2>1, <2>a, <3>1, <3>2 DEF StackInv, Writable
      <4>2. tell \in Frames(stack') /\ Informs(tell, d)'
        BY <2>4, <2>5, <3>1, <3>2, <4>1 DEF Informs
      <4>. QED
        BY <4>2
    <3>3. CASE membership[d] # room
      <4>1. view[d] # members[membership[d]]
        BY <2>3, <3>1, <3>3
      <4>2. PICK f \in Frames(st) : Informs(f, d)
        BY <1>1, <3>1, <4>1 DEF StackInv
      <4>3. Marked(room, f) = f
        BY <1>2, <3>3, <4>2, MarkedFields DEF Informs
      <4>4. f \in Frames(stack') /\ Informs(f, d)'
        BY <2>2, <2>5, <3>1, <4>2, <4>3 DEF Informs
      <4>. QED
        BY <4>4
    <3>. QED
      BY <3>2, <3>3
  <2>12. draining' => \A d \in Conns :
           Live(d)' => \E f \in Frames(stack') : f.op = "drain" /\ d \in f.to
    <3>1. \A f \in Frames(st) : /\ Marked(room, f) \in Frames(stack')
                                /\ Marked(room, f).op = f.op /\ Marked(room, f).to = f.to
      BY <1>2, <2>2, <2>5, MarkedFields
    <3>. QED
      BY <1>1, <1>5, <3>1
  <2>. QED
    BY <2>5, <2>8, <2>10, <2>11, <2>12 DEF StackInv
<1>. QED
  BY <1>6, <1>7

-----------------------------------------------------------------------------
(* The limits.                                                             *)

LEMMA Fewer ==
  ASSUME NEW S, IsFiniteSet(S), NEW T, T \subseteq S
  PROVE  /\ IsFiniteSet(T) /\ Cardinality(S) \in Nat /\ Cardinality(T) \in Nat
         /\ Cardinality(T) <= Cardinality(S)
<1>1. IsFiniteSet(T) /\ Cardinality(T) <= Cardinality(S)
  BY FS_Subset
<1>. QED
  BY <1>1, FS_CardinalityType

LEMMA OneMore ==
  ASSUME NEW S, IsFiniteSet(S), NEW x
  PROVE  /\ IsFiniteSet(S \cup {x}) /\ Cardinality(S) \in Nat
         /\ Cardinality(S \cup {x}) \in Nat
         /\ Cardinality(S \cup {x}) <= Cardinality(S) + 1
<1>1. /\ IsFiniteSet(S \cup {x})
      /\ Cardinality(S \cup {x}) = IF x \in S THEN Cardinality(S) ELSE Cardinality(S)+1
  BY FS_AddElement
<1>2. Cardinality(S) \in Nat
  BY FS_CardinalityType
<1>. QED
  BY <1>1, <1>2

LEMMA LimitsShrink ==
  ASSUME TypeOK, WithinLimits, \A r \in Channels : members'[r] \subseteq members[r],
         Served' \subseteq Served
  PROVE  WithinLimits'
<1>1. ASSUME NEW r \in Channels
      PROVE  Cardinality(members'[r]) <= MaxPerRoom
  <2>1. IsFiniteSet(members[r])
    BY Fewer DEF TypeOK
  <2>2. /\ Cardinality(members'[r]) \in Nat /\ Cardinality(members[r]) \in Nat
        /\ Cardinality(members'[r]) <= Cardinality(members[r])
    BY <2>1, Fewer
  <2>3. Cardinality(members[r]) <= MaxPerRoom
    BY DEF WithinLimits
  <2>. QED
    BY <2>2, <2>3
<1>2. Cardinality(OpenRooms') <= MaxRooms
  <2>1. OpenRooms' \subseteq OpenRooms /\ IsFiniteSet(OpenRooms)
    BY Fewer DEF OpenRooms
  <2>2. /\ Cardinality(OpenRooms') \in Nat /\ Cardinality(OpenRooms) \in Nat
        /\ Cardinality(OpenRooms') <= Cardinality(OpenRooms)
    BY <2>1, Fewer
  <2>3. Cardinality(OpenRooms) <= MaxRooms
    BY DEF WithinLimits
  <2>. QED
    BY <2>2, <2>3
<1>3. Cardinality(Served') <= MaxConnections
  <2>1. IsFiniteSet(Served)
    BY Fewer DEF Served, Tracked
  <2>2. /\ Cardinality(Served') \in Nat /\ Cardinality(Served) \in Nat
        /\ Cardinality(Served') <= Cardinality(Served)
    BY <2>1, Fewer
  <2>3. Cardinality(Served) <= MaxConnections
    BY DEF WithinLimits
  <2>. QED
    BY <2>2, <2>3
<1>. QED
  BY <1>1, <1>2, <1>3 DEF WithinLimits

\* A join that is accepted: the room was not full, and a new one is not one too many.
LEMMA LimitsJoin ==
  ASSUME TypeOK, WithinLimits, NEW c \in Conns, NEW room \in Channels,
         ~RoomFull(room), ~RelayFull(room),
         members' = [members EXCEPT ![room] = @ \cup {c}], UNCHANGED <<sock, conn>>
  PROVE  WithinLimits'
<1>1. ASSUME NEW r \in Channels
      PROVE  Cardinality(members'[r]) <= MaxPerRoom
  <2>1. IsFiniteSet(members[r])
    BY Fewer DEF TypeOK
  <2>2. Cardinality(members[r] \cup {c}) <= Cardinality(members[r]) + 1
        /\ Cardinality(members[r] \cup {c}) \in Nat /\ Cardinality(members[r]) \in Nat
    BY <2>1, OneMore
  <2>3. Cardinality(members[r]) <= MaxPerRoom
    BY DEF WithinLimits
  <2>4. r = room => Cardinality(members[r]) < MaxPerRoom
    BY <2>2 DEF RoomFull
  <2>5. members'[r] = IF r = room THEN members[r] \cup {c} ELSE members[r]
    BY DEF TypeOK
  <2>. QED
    BY <2>2, <2>3, <2>4, <2>5
<1>2. Cardinality(OpenRooms') <= MaxRooms
  <2>1. OpenRooms' = OpenRooms \cup {room} /\ IsFiniteSet(OpenRooms)
    BY Fewer DEF OpenRooms, TypeOK
  <2>2. Cardinality(OpenRooms) <= MaxRooms /\ Cardinality(OpenRooms) \in Nat
    BY <2>1, FS_CardinalityType DEF WithinLimits
  <2>3. CASE room \in OpenRooms
    BY <2>1, <2>2, <2>3, OpenRooms \cup {room} = OpenRooms
  <2>4. CASE room \notin OpenRooms
    <3>1. Cardinality(OpenRooms) < MaxRooms
      BY <2>2, <2>4 DEF RelayFull, OpenRooms
    <3>2. Cardinality(OpenRooms \cup {room}) <= Cardinality(OpenRooms) + 1
          /\ Cardinality(OpenRooms \cup {room}) \in Nat
      BY <2>1, OneMore
    <3>. QED
      BY <2>1, <2>2, <3>1, <3>2
  <2>. QED
    BY <2>3, <2>4
<1>3. Cardinality(Served') <= MaxConnections
  BY DEF WithinLimits, Served, Tracked
<1>. QED
  BY <1>1, <1>2, <1>3 DEF WithinLimits

\* A connection that is accepted: the server was not at its capacity.
LEMMA LimitsConnect ==
  ASSUME TypeOK, WithinLimits, NEW c \in Conns, ~AtCapacity, sock[c] = "closed",
         UNCHANGED members,
         Served' \subseteq Served \cup {c}
  PROVE  WithinLimits'
<1>1. IsFiniteSet(Tracked) /\ Served \subseteq Tracked
  BY Fewer DEF Tracked, Served
<1>2. /\ Cardinality(Served) \in Nat /\ Cardinality(Tracked) \in Nat /\ IsFiniteSet(Served)
      /\ Cardinality(Served) <= Cardinality(Tracked)
  BY <1>1, Fewer
<1>3. Cardinality(Served) < MaxConnections
  BY <1>2 DEF AtCapacity
<1>4. /\ Cardinality(Served \cup {c}) <= Cardinality(Served) + 1 /\ IsFiniteSet(Served \cup {c})
      /\ Cardinality(Served \cup {c}) \in Nat
  BY <1>2, OneMore
<1>5. Cardinality(Served') <= Cardinality(Served \cup {c}) /\ Cardinality(Served') \in Nat
  BY <1>4, Fewer
<1>6. Cardinality(Served') <= MaxConnections
  BY <1>2, <1>3, <1>4, <1>5
<1>. QED
  BY <1>6 DEF WithinLimits, OpenRooms

-----------------------------------------------------------------------------
(* The steps.                                                              *)

Reasons == {"ended", "slowConsumer", "heartbeatTimeout", "relayRestarting"}

\* A step that only works the stack off.
LEMMA QuietInv ==
  ASSUME IInv, UNCHANGED <<sock, ping, gone, draining>>, Undisturbed, StackInv(stack', {})
  PROVE  IInv'
<1>1. UNCHANGED <<sock, conn, membership, members, view, draining>> /\ UNCHANGED records
  BY DEF Undisturbed, rooms
<1>2. StackInv(stack, {})'
  BY <1>1, StackFrame
<1>3. TypeOK'
  BY <1>1 DEF IInv, TypeOK, StackInv
<1>4. ConnInv' /\ ClosedOnce' /\ WithinLimits'
  BY <1>1 DEF IInv, ConnInv, Live, ClosedOnce, WithinLimits, OpenRooms, Served, Tracked
<1>. QED
  BY <1>2, <1>3, <1>4 DEF IInv

LEMMA ReleasedRooms ==
  ASSUME TypeOK, NEW c \in Conns, NEW st, Release(c, st)
  PROVE  /\ members' \in [Channels -> SUBSET Conns]
         /\ \A r \in Channels : members'[r] \subseteq members[r]
<1>1. CASE membership[c] = NoRoom
  BY <1>1 DEF Release, TypeOK
<1>2. CASE membership[c] # NoRoom
  <2>1. PICK room \in Channels : room = membership[c]
    BY <1>2 DEF TypeOK
  <2>2. members' = [members EXCEPT ![room] = members[room] \ {c}]
    BY <2>1 DEF Release
  <2>. QED
    BY <2>1, <2>2 DEF TypeOK
<1>. QED
  BY <1>1, <1>2

\* record and release together, with or without the socket.
LEMMA ReleasedInv ==
  ASSUME IInv, NEW c \in Conns, Live(c), NEW why \in Reasons, NEW st, StackInv(st, {c}),
         \A r : ~Joining(c, r, st), Record(c, why), Release(c, st),
         UNCHANGED <<ping, gone, draining>>,
         \/ UNCHANGED sock
         \/ st = <<>> /\ sock' = [sock EXCEPT ![c] = "closed"]
  PROVE  IInv'
<1>0. TypeOK /\ ConnInv /\ ClosedOnce /\ WithinLimits
  BY DEF IInv
<1>1. StackInv(stack, {})'
  BY <1>0, ReleaseInv
<1>2. TypeOK'
  <2>1. stack' \in Seq(Frame)
    BY <1>1 DEF StackInv
  <2>2. records' \in [Conns -> Seq(Reasons)]
    BY <1>0 DEF Record, TypeOK, Reasons
  <2>3. members' \in [Channels -> SUBSET Conns]
    BY <1>0, ReleasedRooms
  <2>4. /\ conn' \in [Conns -> ConnStates] /\ view' \in [Conns -> SUBSET Conns]
        /\ membership' \in [Conns -> Channels \cup {NoRoom}]
    BY <1>0 DEF Release, TypeOK, ConnStates
  <2>5. sock' \in [Conns -> {"closed", "open", "closing"}]
    BY <1>0 DEF TypeOK
  <2>. QED
    BY <1>0, <2>1, <2>2, <2>3, <2>4, <2>5 DEF TypeOK, Reasons
<1>3. ConnInv'
  <2>1. /\ \A d \in Conns : Live(d)' <=> Live(d) /\ d # c
        /\ \A d \in Conns \ {c} : membership'[d] = membership[d] /\ sock'[d] = sock[d]
        /\ membership'[c] = NoRoom
    BY <1>0, ReleaseEffect
  <2>2. sock'[c] # "open" \/ sock'[c] = sock[c]
    BY <1>0 DEF TypeOK
  <2>. QED
    BY <1>0, <2>1, <2>2 DEF ConnInv
<1>4. ClosedOnce'
  <2>1. /\ \A d \in Conns \ {c} : records'[d] = records[d] /\ conn'[d] = conn[d]
        /\ conn[c] = "open" /\ conn'[c] = "ended" /\ records'[c] = Append(records[c], why)
        /\ records[c] \in Seq(Reasons)
    BY <1>0 DEF Record, Release, Live, TypeOK, Reasons
  <2>2. Len(records[c]) = 0
    BY <1>0, <2>1 DEF ClosedOnce
  <2>3. Len(records'[c]) = 1
    BY <2>1, <2>2
  <2>. QED
    BY <1>0, <2>1, <2>3 DEF ClosedOnce
<1>5. WithinLimits'
  <2>1. \A r \in Channels : members'[r] \subseteq members[r]
    BY <1>0, ReleasedRooms
  <2>2. \A d \in Conns : /\ conn[d] = "refused" => conn'[d] = "refused"
                         /\ sock[d] = "closed" => sock'[d] = "closed"
    BY <1>0 DEF Release, Live, TypeOK
  <2>3. Served' \subseteq Served
    BY <2>2 DEF Served, Tracked
  <2>. QED
    BY <1>0, <2>1, <2>3, LimitsShrink
<1>. QED
  BY <1>1, <1>2, <1>3, <1>4, <1>5 DEF IInv

LEMMA EndInv ==
  ASSUME IInv, NEW c \in Conns, Live(c), NEW why \in Reasons, NEW st, StackInv(st, {c}),
         \A r : ~Joining(c, r, st), End(c, why, st), UNCHANGED <<sock, ping, gone, draining>>
  PROVE  IInv'
<1>1. PICK pushed : pushed = <<Loop("close", NoRoom, {c}, {})>> \o st
  OBVIOUS
<1>2. sock[c] # "closed" /\ st \in Seq(Frame)
  BY DEF IInv, ConnInv, StackInv
<1>3. StackInv(pushed, {c}) /\ \A r : ~Joining(c, r, pushed)
  BY <1>1, <1>2, PushClose
<1>4. Record(c, why) /\ Release(c, pushed)
  BY <1>1 DEF End
<1>. QED
  BY <1>3, <1>4, ReleasedInv

\* The loop that is worked off, without c.
LEMMA AfterFacts ==
  ASSUME IInv, ~Idle, NEW c
  PROVE  LET f == [Top EXCEPT !.to = @ \ {c}] IN
         /\ stack \in Seq(Frame) /\ Top \in Frame /\ Top \in Frames(stack) /\ StackInv(stack, {})
         /\ After(c) = <<f>> \o Tail(stack)
         /\ After(c)[1] = f
         /\ f \in Frame /\ f.op = Top.op /\ f.room = Top.room /\ f.list = Top.list
         /\ f.stale = Top.stale /\ f.sent = Top.sent /\ f.to = Top.to \ {c}
<1>1. stack \in Seq(Frame) /\ stack # <<>> /\ StackInv(stack, {})
  BY DEF IInv, StackInv, Idle
<1>2. Top \in Frame /\ Top \in Frames(stack) /\ Tail(stack) \in Seq(Frame)
  BY <1>1, Pop DEF Top
<1>3. PICK f : f = [Top EXCEPT !.to = @ \ {c}]
  OBVIOUS
<1>4. /\ f \in Frame /\ f.op = Top.op /\ f.room = Top.room /\ f.list = Top.list
      /\ f.stale = Top.stale /\ f.sent = Top.sent /\ f.to = Top.to \ {c}
  BY <1>2, <1>3 DEF Frame
<1>5. After(c) = <<f>> \o Tail(stack)
  BY <1>3 DEF After, Rest
<1>6. After(c)[1] = f
  BY <1>2, <1>4, <1>5, PushAt
<1>. QED
  BY <1>1, <1>2, <1>3, <1>4, <1>5, <1>6

\* c is passed over: nothing is owed to it.
LEMMA PassInv ==
  ASSUME IInv, ~Idle, NEW c, Top.op \notin {"joined", "close"},
         Top.op = "scene" => ~Writable(c), Top.op = "peers" => ~Writable(c),
         Top.op = "drain" => ~Live(c)
  PROVE  StackInv(After(c), {})
<1>1. stack # <<>> /\ stack \in Seq(Frame) /\ StackInv(stack, {}) /\ Top = Head(stack)
  BY AfterFacts DEF Idle, Top
<1>2. PICK f : /\ f = [Top EXCEPT !.to = @ \ {c}] /\ After(c) = <<f>> \o Tail(stack)
               /\ f \in Frame /\ f.op = Top.op /\ f.room = Top.room /\ f.list = Top.list
               /\ f.stale = Top.stale /\ f.sent = Top.sent /\ f.to = Top.to \ {c}
  BY AfterFacts
<1>3. StackInv(<<f>> \o Tail(stack), {})
  BY <1>1, <1>2, TopInv
<1>. QED
  BY <1>2, <1>3

\* The handler turns to c, which it ends.
LEMMA TurnInv ==
  ASSUME IInv, ~Idle, NEW c, Top.op \notin {"joined", "close"}
  PROVE  /\ StackInv(After(c), {c})
         /\ Top.op # "peers" => \A r : ~Joining(c, r, After(c))
<1>1. StackInv(After(c), {c})
  <2>1. stack # <<>> /\ stack \in Seq(Frame) /\ StackInv(stack, {}) /\ Top = Head(stack)
    BY AfterFacts DEF Idle, Top
  <2>2. PICK f : /\ f = [Top EXCEPT !.to = @ \ {c}] /\ After(c) = <<f>> \o Tail(stack)
                 /\ f \in Frame /\ f.op = Top.op /\ f.room = Top.room /\ f.list = Top.list
                 /\ f.stale = Top.stale /\ f.sent = Top.sent /\ f.to = Top.to \ {c}
    BY AfterFacts
  <2>3. StackInv(<<f>> \o Tail(stack), {c})
    BY <2>1, <2>2, TopInv
  <2>. QED
    BY <2>2, <2>3
<1>2. ASSUME Top.op # "peers", NEW r, Joining(c, r, After(c))
      PROVE  FALSE
  <2>1. PICK g \in Frames(After(c)) : g.op = "joined"
    BY <1>2 DEF Joining
  <2>2. PICK f : f = [Top EXCEPT !.to = @ \ {c}]
    OBVIOUS
  <2>3. /\ After(c) = <<f>> \o Tail(stack) /\ f \in Frame /\ f.op = Top.op
        /\ stack \in Seq(Frame) /\ stack # <<>>
    BY <2>2, AfterFacts DEF Idle
  <2>4. f \in Frames(After(c))
    BY <2>3, Push, Pop
  <2>5. JoinLast(After(c))
    BY <1>1 DEF StackInv
  <2>. QED
    BY <1>2, <2>1, <2>3, <2>4, <2>5 DEF JoinLast
<1>. QED
  BY <1>1, <1>2

\* The loop that is worked off owes nothing to the members it has dealt with.
LEMMA PopFacts ==
  ASSUME IInv, ~Idle
  PROVE  /\ stack \in Seq(Frame) /\ stack # <<>> /\ StackInv(stack, {}) /\ Top = Head(stack)
         /\ Rest = Tail(stack) /\ Top \in Frame /\ Top \in Frames(stack)
         /\ LoopInv(Top, {}) /\ Top.to \subseteq Conns
<1>1. stack \in Seq(Frame) /\ stack # <<>> /\ StackInv(stack, {}) /\ Top = Head(stack)
      /\ Rest = Tail(stack)
  BY DEF IInv, StackInv, Idle, Top, Rest
<1>2. Top \in Frame /\ Top \in Frames(stack)
  BY <1>1, Pop
<1>3. LoopInv(Top, {})
  BY <1>1, <1>2 DEF StackInv
<1>4. Top.to \subseteq Conns
  BY <1>2 DEF Frame
<1>. QED
  BY <1>1, <1>2, <1>3, <1>4

LEMMA NotJoining ==
  ASSUME IInv, ~Idle, NEW c \in Conns, Top.op \notin {"joined", "close"}, MayBeSlow(c)
  PROVE  \A r : ~Joining(c, r, After(c))
<1>. SUFFICES ASSUME NEW r, Joining(c, r, After(c)) PROVE FALSE
  OBVIOUS
<1>1. StackInv(After(c), {c})
  BY TurnInv
<1>2. PICK f \in Frames(After(c)) : f.op = "joined" /\ c \in f.to
  BY DEF Joining
<1>3. LoopInv(f, {c})
  BY <1>1, <1>2 DEF StackInv
<1>. QED
  BY <1>2, <1>3 DEF LoopInv, MayBeSlow

LEMMA DeliverInv ==
  ASSUME IInv, Running("peers"), ~Top.stale, NEW c \in Top.to, Writable(c),
         view' = [view EXCEPT ![c] = Top.list], stack' = After(c),
         UNCHANGED <<sock, conn, rooms, records, ping, gone, draining>>
  PROVE  IInv'
<1>0. /\ ~Idle /\ Top.op = "peers" /\ c \in Conns /\ Top \in Frame /\ Top \in Frames(stack)
      /\ stack \in Seq(Frame) /\ stack # <<>> /\ Top = Head(stack) /\ Rest = Tail(stack)
      /\ LoopInv(Top, {}) /\ StackInv(stack, {}) /\ Top.list \subseteq Conns
  BY PopFacts DEF Running, Frame
<1>1. /\ Top.room \in Channels /\ Top.list = members[Top.room] /\ c \in Top.list
  BY <1>0 DEF LoopInv
<1>2. membership[c] # NoRoom => membership[c] = Top.room
  BY <1>0, <1>1 DEF StackInv, Joining, LoopInv
<1>3. ~draining
  BY <1>0 DEF IInv, ConnInv, Writable
<1>4. PICK f : /\ After(c) = <<f>> \o Tail(stack)
               /\ f \in Frame /\ f.op = Top.op /\ f.room = Top.room /\ f.list = Top.list
               /\ f.stale = Top.stale /\ f.sent = Top.sent /\ f.to = Top.to \ {c}
  BY <1>0, AfterFacts
<1>5. StackInv(After(c), {c})
  BY <1>0, TurnInv
<1>6. /\ Frames(After(c)) = {f} \cup Frames(Tail(stack))
      /\ Frames(Tail(stack)) \subseteq Frames(stack)
  BY <1>0, <1>4, Pop, Push
<1>7. UNCHANGED <<sock, conn, membership, members, draining, records>>
  BY DEF rooms
<1>8. \A d \in Conns : /\ Live(d)' = Live(d) /\ Writable(d)' = Writable(d)
                       /\ view'[d] = IF d = c THEN Top.list ELSE view[d]
  BY <1>7 DEF Live, Writable, IInv, TypeOK
<1>9. \A g \in Frames(After(c)) : LoopInv(g, {})'
  <2>1. \A g \in Frames(After(c)) : LoopInv(g, {})
    BY <1>0, <1>4, <1>5, <1>6 DEF StackInv, LoopInv
  <2>2. \A g \in Frames(After(c)) : g.list \subseteq Conns /\ g.to \subseteq Conns
    BY <1>5, FramesType DEF StackInv, Frame
  <2>3. \A d : Live(d)' = Live(d) /\ Writable(d)' = Writable(d)
    BY <1>7 DEF Live, Writable
  <2>. QED
    BY <1>7, <2>1, <2>2, <2>3 DEF LoopInv
<1>10. \A d \in Conns :
         Writable(d)' /\ membership'[d] # NoRoom /\ view'[d] # members'[membership'[d]]
           => \E g \in Frames(stack') : Informs(g, d)'
  <2>. SUFFICES ASSUME NEW d \in Conns, Writable(d)', membership'[d] # NoRoom,
                       view'[d] # members'[membership'[d]]
                PROVE  \E g \in Frames(stack') : Informs(g, d)'
    OBVIOUS
  <2>1. d # c
    BY <1>1, <1>2, <1>7, <1>8
  <2>2. PICK g \in Frames(After(c)) : Informs(g, d)
    BY <1>5, <1>7, <1>8, <2>1 DEF StackInv
  <2>. QED
    BY <1>7, <2>2 DEF Informs
<1>11. StackInv(stack, {})'
  <2>1. /\ After(c) \in Seq(Frame) /\ JoinLast(After(c))
        /\ \A d \in Conns, r \in Channels :
             d \in members[r] <=> Live(d) /\ (membership[d] = r \/ Joining(d, r, After(c)))
    BY <1>5 DEF StackInv
  <2>2. JoinLast(stack')
    BY <2>1
  <2>3. \A d \in Conns, r \in Channels :
          d \in members'[r] <=> Live(d)' /\ (membership'[d] = r \/ Joining(d, r, stack'))
    BY <1>7, <1>8, <2>1
  <2>4. \A g \in Frames(stack') : LoopInv(g, {})'
    BY <1>9
  <2>. QED
    BY <1>3, <1>7, <1>10, <2>1, <2>2, <2>3, <2>4 DEF StackInv
<1>12. TypeOK'
  <2>1. view' \in [Conns -> SUBSET Conns]
    BY <1>0 DEF IInv, TypeOK
  <2>2. stack' \in Seq(Frame)
    BY <1>11 DEF StackInv
  <2>. QED
    BY <1>7, <2>1, <2>2 DEF IInv, TypeOK
<1>13. ConnInv' /\ ClosedOnce' /\ WithinLimits'
  BY <1>7 DEF IInv, ConnInv, Live, ClosedOnce, WithinLimits, OpenRooms, Served, Tracked
<1>. QED
  BY <1>11, <1>12, <1>13 DEF IInv

LEMMA StepPeersInv ==
  ASSUME IInv, StepPeers
  PROVE  IInv'
<1>0. /\ ~Idle /\ Top.op = "peers" /\ Running("peers") /\ UNCHANGED <<sock, ping, gone, draining>>
  BY DEF StepPeers, Running
<1>1. CASE (Top.stale \/ Top.to = {}) /\ stack' = Rest /\ Undisturbed
  BY <1>0, <1>1, PopFacts, PopInv, QuietInv
<1>2. ASSUME NEW c \in Top.to, ~Top.stale,
             \/ ~Writable(c) /\ stack' = After(c) /\ Undisturbed
             \/ Writable(c) /\ MayBeSlow(c) /\ End(c, "slowConsumer", After(c))
             \/ /\ Writable(c)
                /\ view' = [view EXCEPT ![c] = Top.list]
                /\ stack' = After(c)
                /\ UNCHANGED <<conn, rooms, records>>
      PROVE  IInv'
  <2>0. c \in Conns
    BY <1>0, PopFacts
  <2>1. CASE ~Writable(c) /\ stack' = After(c) /\ Undisturbed
    BY <1>0, <2>1, PassInv, QuietInv
  <2>2. CASE Writable(c) /\ MayBeSlow(c) /\ End(c, "slowConsumer", After(c))
    BY <1>0, <2>0, <2>2, TurnInv, NotJoining, EndInv DEF Writable, Reasons
  <2>3. CASE /\ Writable(c) /\ view' = [view EXCEPT ![c] = Top.list]
             /\ stack' = After(c) /\ UNCHANGED <<conn, rooms, records>>
    BY <1>0, <1>2, <2>3, DeliverInv
  <2>. QED
    BY <1>2, <2>1, <2>2, <2>3
<1>. QED
  BY <1>1, <1>2 DEF StepPeers

\* A member that is skipped has left the room or cannot be written to.
LEMMA StepPublishInv ==
  ASSUME IInv, StepPublish
  PROVE  IInv'
<1>0. /\ ~Idle /\ Top.op \in {"scene", "presence"} /\ UNCHANGED <<sock, ping, gone, draining>>
  BY DEF StepPublish, Running
<1>1. CASE Top.to = {} /\ stack' = Rest /\ Undisturbed
  BY <1>0, <1>1, PopFacts, PopInv, QuietInv
<1>2. ASSUME NEW c \in Top.to, PublishTo(c)
      PROVE  IInv'
  <2>0. c \in Conns /\ LoopInv(Top, {}) /\ Top \in Frame
    BY <1>0, PopFacts
  <2>1. CASE /\ ~(c \in members[Top.room] /\ Writable(c)) \/ Top.op = "presence"
             /\ stack' = After(c) /\ Undisturbed
    <3>1. Top.op = "scene" => ~Writable(c)
      BY <2>0, <2>1 DEF LoopInv
    <3>. QED
      BY <1>0, <2>1, <3>1, PassInv, QuietInv
  <2>2. CASE /\ c \in members[Top.room] /\ Writable(c)
             /\ Top.op = "scene" /\ End(c, "slowConsumer", After(c))
    BY <1>0, <2>0, <2>2, TurnInv, EndInv DEF Writable, Reasons
  <2>3. CASE c \in members[Top.room] /\ Writable(c) /\ stack' = Delivered(c) /\ Undisturbed
    <3>1. PICK f : /\ f = [Top EXCEPT !.to = @ \ {c}] /\ After(c)[1] = f
                   /\ f \in Frame /\ f.op = Top.op /\ f.room = Top.room /\ f.list = Top.list
                   /\ f.stale = Top.stale /\ f.sent = Top.sent /\ f.to = Top.to \ {c}
      BY <1>0, AfterFacts
    <3>2. PICK g : g = [f EXCEPT !.sent = @ \cup {c}]
      OBVIOUS
    <3>3. /\ g \in Frame /\ g.op = Top.op /\ g.room = Top.room /\ g.list = Top.list
          /\ g.stale = Top.stale /\ g.sent = Top.sent \cup {c} /\ g.to = Top.to \ {c}
      BY <2>0, <3>1, <3>2 DEF Frame
    <3>4. stack' = <<g>> \o Tail(stack)
      BY <2>3, <3>1, <3>2 DEF Delivered, Rest
    <3>5. StackInv(<<g>> \o Tail(stack), {})
      BY <1>0, <3>3, PopFacts, TopInv
    <3>. QED
      BY <1>0, <2>3, <3>4, <3>5, QuietInv
  <2>. QED
    BY <1>2, <2>1, <2>2, <2>3 DEF PublishTo
<1>. QED
  BY <1>1, <1>2 DEF StepPublish

\* The acknowledgment of a join is the last thing its handler does.
LEMMA StepJoinedInv ==
  ASSUME IInv, StepJoined
  PROVE  IInv'
<1>0. /\ ~Idle /\ Top.op = "joined" /\ stack' = Rest
      /\ UNCHANGED <<sock, conn, members, records, ping, gone, draining>>
  BY DEF StepJoined, Running
<1>1. PICK c \in Top.to : /\ membership' = [membership EXCEPT ![c] = Top.room]
                          /\ view' = [view EXCEPT ![c] = members[Top.room]]
  BY DEF StepJoined
<1>2. /\ stack' = <<>> /\ Frames(stack) = {Top} /\ LoopInv(Top, {}) /\ StackInv(stack, {})
  <2>1. Rest = <<>>
    BY <1>0, PopFacts, Pop DEF StackInv
  <2>2. Frames(stack) = {Top} \cup Frames(<<>>)
    BY <1>0, <2>1, PopFacts, Pop
  <2>. QED
    BY <1>0, <2>1, <2>2, PopFacts, Empty
<1>3. /\ c \in Conns /\ Top.to = {c} /\ Live(c) /\ membership[c] = NoRoom
      /\ Top.room \in Channels /\ ~draining
  BY <1>0, <1>1, <1>2 DEF LoopInv
<1>4. /\ \A d \in Conns : membership'[d] = IF d = c THEN Top.room ELSE membership[d]
      /\ \A d \in Conns : view'[d] = IF d = c THEN members[Top.room] ELSE view[d]
      /\ membership' \in [Conns -> Channels \cup {NoRoom}]
      /\ view' \in [Conns -> SUBSET Conns]
  BY <1>1, <1>3 DEF IInv, TypeOK
<1>5. \A d \in Conns : Live(d)' = Live(d) /\ Writable(d)' = Writable(d)
  BY <1>0 DEF Live, Writable
<1>6. \A d \in Conns, r \in Channels : d \in members[r] <=> Live(d) /\ membership'[d] = r
  <2>1. \A d \in Conns, r \in Channels :
          d \in members[r] <=> Live(d) /\ (membership[d] = r \/ Joining(d, r, stack))
    BY <1>2 DEF StackInv
  <2>2. \A d, r : Joining(d, r, stack) <=> d = c /\ r = Top.room
    BY <1>0, <1>2, <1>3 DEF Joining
  <2>. QED
    BY <1>3, <1>4, <2>1, <2>2
<1>7. \A d \in Conns : Writable(d) /\ membership'[d] # NoRoom =>
        view'[d] = members[membership'[d]]
  <2>1. \A d : ~Informs(Top, d)
    BY <1>0 DEF Informs
  <2>. QED
    BY <1>2, <1>4, <2>1 DEF StackInv
<1>8. StackInv(stack, {})'
  <2>1. /\ \A d, r : ~Joining(d, r, <<>>) /\ Frames(<<>>) = {} /\ JoinLast(<<>>)
        /\ <<>> \in Seq(Frame)
    BY Empty DEF Joining
  <2>2. StackInv(<<>>, {})'
    BY <1>0, <1>3, <1>5, <1>6, <1>7, <2>1 DEF StackInv
  <2>. QED
    BY <1>2, <2>2 DEF StackInv
<1>9. TypeOK'
  BY <1>0, <1>2, <1>4, Empty DEF IInv, TypeOK
<1>10. ConnInv' /\ ClosedOnce' /\ WithinLimits'
  <2>1. ConnInv'
    BY <1>0, <1>3, <1>4, <1>5 DEF IInv, ConnInv
  <2>2. ClosedOnce' /\ WithinLimits'
    BY <1>0 DEF IInv, ClosedOnce, WithinLimits, OpenRooms, Served, Tracked
  <2>. QED
    BY <2>1, <2>2
<1>. QED
  BY <1>8, <1>9, <1>10 DEF IInv

\* Sockets that stop being writable release nobody from what the loops owe.
LEMMA NarrowStack ==
  ASSUME UNCHANGED <<conn, membership, members, view, draining>>, TypeOK,
         \A d \in Conns : sock'[d] = "open" => sock[d] = "open"
  PROVE  \A st : /\ StackInv(st, {})
                 /\ \A f \in Frames(st) : f.op = "close" => \A d \in f.to : sock'[d] # "closed"
                 => StackInv(st, {})'
<1>. SUFFICES ASSUME NEW st, StackInv(st, {}),
         \A f \in Frames(st) : f.op = "close" => \A d \in f.to : sock'[d] # "closed"
     PROVE StackInv(st, {})'
  OBVIOUS
<1>1. \A d \in Conns : Live(d)' = Live(d) /\ (Writable(d)' => Writable(d))
  BY DEF Live, Writable
<1>2. ASSUME NEW f \in Frames(st)
      PROVE  LoopInv(f, {})'
  <2>1. LoopInv(f, {}) /\ f.list \subseteq Conns
    BY FramesType DEF StackInv, Frame
  <2>. QED
    BY <1>1, <2>1 DEF LoopInv
<1>3. \A d : \A f : Informs(f, d)' = Informs(f, d)
  BY DEF Informs
<1>4. \A d \in Conns : Writable(d)' /\ membership'[d] # NoRoom /\ view'[d] # members'[membership'[d]]
         => \E f \in Frames(st) : Informs(f, d)'
  BY <1>1, <1>3 DEF StackInv
<1>. QED
  BY <1>1, <1>2, <1>4 DEF StackInv

\* A step that changes nothing but sockets, of which none opens.
LEMMA NarrowInv ==
  ASSUME IInv, UNCHANGED <<conn, rooms, view, records, draining>>,
         sock' \in [Conns -> {"closed", "open", "closing"}], ping' \in [Conns -> PingStates],
         gone' \in [Conns -> BOOLEAN],
         \A d \in Conns : /\ sock'[d] = "open" => sock[d] = "open"
                          /\ sock'[d] = "closed" => ~Live(d)
                          /\ sock[d] = "closed" => sock'[d] = "closed",
         StackInv(stack', {}),
         \A f \in Frames(stack') : f.op = "close" => \A d \in f.to : sock'[d] # "closed"
  PROVE  IInv'
<1>1. UNCHANGED <<conn, membership, members, view, draining, records>>
  BY DEF rooms
<1>2. StackInv(stack, {})'
  <2>1. PICK st : st = stack'
    OBVIOUS
  <2>2. StackInv(st, {})'
    BY <1>1, <2>1, NarrowStack DEF IInv
  <2>. QED
    BY <2>1, <2>2 DEF StackInv
<1>3. TypeOK'
  BY <1>1, <1>2 DEF IInv, TypeOK, StackInv
<1>4. ConnInv' /\ ClosedOnce'
  BY <1>1 DEF IInv, ConnInv, ClosedOnce, Live
<1>5. WithinLimits'
  <2>1. Served' \subseteq Served
    BY <1>1 DEF Served, Tracked
  <2>. QED
    BY <1>1, <2>1, LimitsShrink DEF IInv
<1>. QED
  BY <1>2, <1>3, <1>4, <1>5 DEF IInv

LEMMA StepCloseInv ==
  ASSUME IInv, StepClose
  PROVE  IInv'
<1>0. /\ ~Idle /\ Top.op = "close" /\ stack' = Rest
      /\ sock' = [c \in Conns |-> IF c \in Top.to THEN "closing" ELSE sock[c]]
      /\ UNCHANGED <<conn, rooms, view, records, ping, gone, draining>>
  BY DEF StepClose, Running
<1>1. LoopInv(Top, {}) /\ StackInv(stack', {}) /\ Top.to \subseteq Conns
  BY <1>0, PopFacts, PopInv
<1>2. /\ sock' \in [Conns -> {"closed", "open", "closing"}]
      /\ \A d \in Conns : /\ sock'[d] = "open" => sock[d] = "open"
                          /\ sock'[d] = "closed" <=> sock[d] = "closed"
  BY <1>0, <1>1 DEF IInv, TypeOK, LoopInv
<1>3. \A f \in Frames(stack') : f.op = "close" => \A d \in f.to : sock'[d] # "closed"
  <2>1. \A f \in Frames(stack') : LoopInv(f, {}) /\ f.to \subseteq Conns
    BY <1>1, FramesType DEF StackInv, Frame
  <2>. QED
    BY <1>2, <2>1 DEF LoopInv
<1>4. \A d \in Conns : sock'[d] = "closed" => ~Live(d)
  BY <1>2 DEF IInv, ConnInv
<1>5. ping' \in [Conns -> PingStates] /\ gone' \in [Conns -> BOOLEAN]
  BY <1>0 DEF IInv, TypeOK
<1>. QED
  BY <1>0, <1>1, <1>2, <1>3, <1>4, <1>5, NarrowInv

LEMMA StepCloseAllInv ==
  ASSUME IInv, StepCloseAll
  PROVE  IInv'
<1>0. /\ ~Idle /\ Top.op \in {"revoke", "drain"} /\ UNCHANGED <<sock, ping, gone, draining>>
  BY DEF StepCloseAll, Running
<1>1. CASE Top.to = {} /\ stack' = Rest /\ Undisturbed
  BY <1>0, <1>1, PopFacts, PopInv, QuietInv
<1>2. ASSUME NEW c \in Top.to,
             \/ ~Live(c) /\ stack' = After(c) /\ Undisturbed
             \/ Live(c) /\ End(c, IF Top.op = "drain" THEN "relayRestarting" ELSE "ended",
                               After(c))
      PROVE  IInv'
  <2>0. c \in Conns
    BY <1>0, PopFacts
  <2>1. CASE ~Live(c) /\ stack' = After(c) /\ Undisturbed
    BY <1>0, <2>1, PassInv, QuietInv
  <2>2. CASE Live(c) /\ End(c, IF Top.op = "drain" THEN "relayRestarting" ELSE "ended",
                            After(c))
    <3>1. PICK why \in Reasons : why = IF Top.op = "drain" THEN "relayRestarting" ELSE "ended"
      BY DEF Reasons
    <3>. QED
      BY <1>0, <2>0, <2>2, <3>1, TurnInv, EndInv
  <2>. QED
    BY <1>2, <2>1, <2>2
<1>. QED
  BY <1>1, <1>2 DEF StepCloseAll

-----------------------------------------------------------------------------
(* The events.                                                             *)

\* Between events no loop owes anything to anyone.
LEMMA IdleFacts ==
  ASSUME IInv, Idle
  PROVE  /\ stack = <<>> /\ StackInv(<<>>, {}) /\ \A X : StackInv(<<>>, X)
         /\ \A c \in Conns, r \in Channels : c \in members[r] <=> Live(c) /\ membership[c] = r
         /\ \A c \in Conns :
              Writable(c) /\ membership[c] # NoRoom => view[c] = members[membership[c]]
         /\ draining => \A c \in Conns : ~Live(c)
<1>1. stack = <<>> /\ StackInv(<<>>, {})
  BY DEF IInv, Idle
<1>2. \A X : StackInv(<<>>, X)
  BY <1>1, Empty DEF StackInv
<1>3. \A d, r : ~Joining(d, r, <<>>) /\ Frames(<<>>) = {}
  BY Empty DEF Joining
<1>4. /\ \A c \in Conns, r \in Channels : c \in members[r] <=> Live(c) /\ membership[c] = r
      /\ \A c \in Conns :
           Writable(c) /\ membership[c] # NoRoom => view[c] = members[membership[c]]
      /\ draining => \A c \in Conns : ~Live(c)
  BY <1>1, <1>3 DEF StackInv
<1>. QED
  BY <1>1, <1>2, <1>4

LEMMA IdleInv ==
  ASSUME \A c \in Conns, r \in Channels : c \in members'[r] <=> Live(c)' /\ membership'[c] = r,
         \A c \in Conns :
           Writable(c)' /\ membership'[c] # NoRoom => view'[c] = members'[membership'[c]],
         draining' => \A c \in Conns : ~Live(c)', stack' = <<>>
  PROVE  StackInv(stack, {})'
<1>1. \A d, r : ~Joining(d, r, <<>>) /\ Frames(<<>>) = {} /\ <<>> \in Seq(Frame)
        /\ JoinLast(<<>>)
  BY Empty DEF Joining
<1>2. StackInv(<<>>, {})'
  BY <1>1 DEF StackInv
<1>. QED
  BY <1>2 DEF StackInv

\* A handler that only starts a loop.
LEMMA StartInv ==
  ASSUME IInv, Idle, NEW f \in Frame, f.op # "joined", LoopInv(f, {}), stack' = <<f>>,
         Undisturbed, UNCHANGED <<sock, ping, gone, draining>>
  PROVE  IInv'
<1>1. /\ \A c \in Conns, r \in Channels : c \in members[r] <=> Live(c) /\ membership[c] = r
      /\ \A c \in Conns :
           Writable(c) /\ membership[c] # NoRoom => view[c] = members[membership[c]]
      /\ draining => \A c \in Conns : ~Live(c)
  BY IdleFacts
<1>3. <<f>> \in Seq(Frame) /\ Frames(<<f>>) = {f} /\ JoinLast(<<f>>)
  <2>1. <<f>> \in Seq(Frame) /\ DOMAIN <<f>> = {1} /\ <<f>>[1] = f
    OBVIOUS
  <2>2. Frames(<<f>>) = {f}
    BY <2>1 DEF Frames
  <2>. QED
    BY <2>1, <2>2 DEF JoinLast
<1>4. \A d, r : ~Joining(d, r, <<f>>)
  BY <1>3 DEF Joining
<1>5. StackInv(<<f>>, {})
  BY <1>1, <1>3, <1>4 DEF StackInv
<1>. QED
  BY <1>5, QuietInv

LEMMA ConnectInv ==
  ASSUME IInv, NEW c \in Conns, Connect(c)
  PROVE  IInv'
<1>0. /\ Idle /\ sock[c] = "closed" /\ UNCHANGED <<membership, members, view, draining, stack>>
      /\ ping' = [ping EXCEPT ![c] = "answered"] /\ gone' = [gone EXCEPT ![c] = FALSE]
      /\ TypeOK /\ ConnInv /\ ClosedOnce /\ WithinLimits
  BY DEF Connect, rooms, IInv
<1>1. ~Live(c) /\ membership[c] = NoRoom
  BY <1>0 DEF ConnInv
<1>2. \E s \in {"open", "closing"}, t \in {"open", "refused"}, rec \in Seq(Reasons) :
         /\ sock' = [sock EXCEPT ![c] = s] /\ conn' = [conn EXCEPT ![c] = t]
         /\ records' = [records EXCEPT ![c] = rec]
         /\ t = "open" => ~draining /\ ~AtCapacity
         /\ t = "refused" => s = "closing"
         /\ Len(rec) = IF t = "refused" THEN 1 ELSE 0
  <2>1. CASE draining \/ AtCapacity
    <3>1. PICK why \in Reasons : why = IF draining THEN "relayRestarting" ELSE "ended"
      BY DEF Reasons
    <3>2. /\ sock' = [sock EXCEPT ![c] = "closing"] /\ conn' = [conn EXCEPT ![c] = "refused"]
          /\ records' = [records EXCEPT ![c] = <<why>>]
      BY <2>1, <3>1 DEF Connect
    <3>3. <<why>> \in Seq(Reasons) /\ Len(<<why>>) = 1
      OBVIOUS
    <3>. WITNESS "closing" \in {"open", "closing"}, "refused" \in {"open", "refused"},
                 <<why>> \in Seq(Reasons)
    <3>. QED
      BY <3>2, <3>3
  <2>2. CASE ~(draining \/ AtCapacity)
    <3>1. <<>> \in Seq(Reasons) /\ Len(<<>>) = 0
      OBVIOUS
    <3>2. /\ sock' = [sock EXCEPT ![c] = "open"] /\ conn' = [conn EXCEPT ![c] = "open"]
          /\ records' = [records EXCEPT ![c] = <<>>]
      BY <2>2 DEF Connect
    <3>. WITNESS "open" \in {"open", "closing"}, "open" \in {"open", "refused"},
                 <<>> \in Seq(Reasons)
    <3>. QED
      BY <2>2, <3>1, <3>2
  <2>. QED
    BY <2>1, <2>2
<1>3. PICK s \in {"open", "closing"}, t \in {"open", "refused"}, rec \in Seq(Reasons) :
         /\ sock' = [sock EXCEPT ![c] = s] /\ conn' = [conn EXCEPT ![c] = t]
         /\ records' = [records EXCEPT ![c] = rec]
         /\ t = "open" => ~draining /\ ~AtCapacity
         /\ t = "refused" => s = "closing"
         /\ Len(rec) = IF t = "refused" THEN 1 ELSE 0
  BY <1>2
<1>4. /\ \A d \in Conns \ {c} : /\ sock'[d] = sock[d] /\ conn'[d] = conn[d]
                                /\ records'[d] = records[d]
      /\ sock'[c] = s /\ conn'[c] = t /\ records'[c] = rec
  BY <1>0, <1>3 DEF TypeOK
<1>5. rec \in Seq(Reasons) /\ Len(rec) = IF t = "refused" THEN 1 ELSE 0
  BY <1>3
<1>6. TypeOK'
  <2>1. records' \in [Conns -> Seq(Reasons)]
    BY <1>0, <1>3, <1>5 DEF TypeOK, Reasons
  <2>2. /\ sock' \in [Conns -> {"closed", "open", "closing"}] /\ conn' \in [Conns -> ConnStates]
        /\ ping' \in [Conns -> PingStates] /\ gone' \in [Conns -> BOOLEAN]
    BY <1>0, <1>3 DEF TypeOK, ConnStates, PingStates
  <2>. QED
    BY <1>0, <2>1, <2>2 DEF TypeOK, Reasons
<1>7. /\ \A d \in Conns \ {c} : Live(d)' = Live(d) /\ Writable(d)' = Writable(d)
      /\ draining => ~Live(c)'
  BY <1>3, <1>4 DEF Live, Writable
<1>8. ConnInv'
  BY <1>0, <1>1, <1>3, <1>4, <1>7 DEF ConnInv, Live
<1>9. ClosedOnce'
  BY <1>0, <1>4, <1>5 DEF ClosedOnce
<1>10. StackInv(stack, {})'
  <2>1. /\ \A d \in Conns, r \in Channels : d \in members[r] <=> Live(d) /\ membership[d] = r
        /\ \A d \in Conns :
             Writable(d) /\ membership[d] # NoRoom => view[d] = members[membership[d]]
        /\ draining => \A d \in Conns : ~Live(d)
        /\ stack = <<>>
    BY <1>0, IdleFacts
  <2>2. \A d \in Conns, r \in Channels : d \in members'[r] <=> Live(d)' /\ membership'[d] = r
    BY <1>0, <1>1, <1>7, <2>1
  <2>3. \A d \in Conns :
          Writable(d)' /\ membership'[d] # NoRoom => view'[d] = members'[membership'[d]]
    BY <1>0, <1>1, <1>7, <2>1
  <2>4. draining' => \A d \in Conns : ~Live(d)'
    BY <1>0, <1>7, <2>1
  <2>. QED
    BY <1>0, <2>1, <2>2, <2>3, <2>4, IdleInv
<1>11. WithinLimits'
  <2>1. CASE t = "refused"
    <3>1. Served' \subseteq Served
      BY <1>4, <2>1 DEF Served, Tracked
    <3>. QED
      BY <1>0, <3>1, LimitsShrink
  <2>2. CASE t = "open"
    <3>1. Served' \subseteq Served \cup {c}
      BY <1>4 DEF Served, Tracked
    <3>. QED
      BY <1>0, <1>3, <2>2, <3>1, LimitsConnect
  <2>. QED
    BY <2>1, <2>2
<1>. QED
  BY <1>6, <1>8, <1>9, <1>10, <1>11 DEF IInv

LEMMA CloseConnectionInv ==
  ASSUME IInv, Idle, NEW c \in Conns, Live(c), End(c, "ended", <<>>),
         UNCHANGED <<sock, ping, gone, draining>>
  PROVE  IInv'
<1>1. StackInv(<<>>, {c}) /\ \A r : ~Joining(c, r, <<>>)
  BY IdleFacts, Empty DEF Joining
<1>. QED
  BY <1>1, EndInv DEF Reasons

\* The room is told first, and the newcomer is acknowledged when it has been.
LEMMA JoinInv ==
  ASSUME IInv, Idle, NEW c \in Conns, NEW room \in Channels, Writable(c),
         membership[c] = NoRoom, ~RoomFull(room), ~RelayFull(room),
         members' = [members EXCEPT ![room] = @ \cup {c}],
         stack' = <<Loop("peers", room, members[room], members'[room]),
                    Loop("joined", room, {c}, {})>>,
         UNCHANGED <<sock, conn, membership, view, records, ping, gone, draining>>
  PROVE  IInv'
<1>0. /\ TypeOK /\ ConnInv /\ ClosedOnce /\ WithinLimits
      /\ \A d \in Conns, r \in Channels : d \in members[r] <=> Live(d) /\ membership[d] = r
      /\ \A d \in Conns :
           Writable(d) /\ membership[d] # NoRoom => view[d] = members[membership[d]]
      /\ Live(c) /\ ~draining
  BY IdleFacts DEF IInv, Writable
<1>1. /\ \A r \in Channels : members'[r] = IF r = room THEN members[r] \cup {c} ELSE members[r]
      /\ members' \in [Channels -> SUBSET Conns] /\ members[room] \subseteq Conns
  <2>1. members \in [Channels -> SUBSET Conns]
    BY <1>0 DEF TypeOK
  <2>2. \A r \in Channels : members'[r] = IF r = room THEN members[r] \cup {c} ELSE members[r]
    BY <2>1
  <2>3. members' \in [Channels -> SUBSET Conns] /\ members[room] \subseteq Conns
    BY <2>1
  <2>. QED
    BY <2>2, <2>3
<1>2. PICK f : f = Loop("peers", room, members[room], members'[room])
  OBVIOUS
<1>3. PICK g : g = Loop("joined", room, {c}, {})
  OBVIOUS
<1>4. /\ f \in Frame /\ f.op = "peers" /\ f.room = room /\ f.to = members[room]
      /\ f.list = members[room] \cup {c} /\ f.stale = FALSE
      /\ g \in Frame /\ g.op = "joined" /\ g.room = room /\ g.to = {c}
  BY <1>1, <1>2, <1>3 DEF Loop, Frame
<1>5. stack' = <<f, g>>
  BY <1>2, <1>3
<1>6. /\ stack' \in Seq(Frame) /\ Len(stack') = 2 /\ DOMAIN stack' = 1..2
      /\ stack'[1] = f /\ stack'[2] = g
  <2>1. f \in Frame /\ g \in Frame
    BY <1>4
  <2>2. /\ <<f, g>> \in Seq(Frame) /\ Len(<<f, g>>) = 2 /\ DOMAIN <<f, g>> = 1..2
        /\ <<f, g>>[1] = f /\ <<f, g>>[2] = g
    BY <2>1
  <2>. QED
    BY <1>5, <2>2
<1>7. Frames(stack') = {f, g}
  BY <1>6 DEF Frames
<1>8. JoinLast(stack')
  BY <1>4, <1>6, <1>7 DEF JoinLast
<1>9. \A d, r : Joining(d, r, stack') <=> d = c /\ r = room
  BY <1>4, <1>7 DEF Joining
<1>10. \A d \in Conns : Live(d)' = Live(d) /\ Writable(d)' = Writable(d)
  BY DEF Live, Writable
<1>11. LoopInv(f, {})' /\ LoopInv(g, {})'
  <2>1. LoopInv(f, {})'
    BY <1>0, <1>1, <1>4 DEF LoopInv
  <2>2. LoopInv(g, {})'
    BY <1>0, <1>4, <1>10 DEF LoopInv
  <2>. QED
    BY <2>1, <2>2
<1>12. \A d \in Conns, r \in Channels :
         d \in members'[r] <=> Live(d)' /\ (membership'[d] = r \/ Joining(d, r, stack'))
  BY <1>0, <1>1, <1>9, <1>10
<1>13. \A d \in Conns :
         Writable(d)' /\ membership'[d] # NoRoom /\ view'[d] # members'[membership'[d]]
           => \E h \in Frames(stack') : Informs(h, d)'
  <2>. SUFFICES ASSUME NEW d \in Conns, Writable(d)', membership'[d] # NoRoom,
                       view'[d] # members'[membership'[d]]
                PROVE  \E h \in Frames(stack') : Informs(h, d)'
    OBVIOUS
  <2>1. Writable(d) /\ membership[d] \in Channels /\ view[d] = members[membership[d]]
    BY <1>0, <1>10 DEF TypeOK
  <2>2. membership[d] = room
    BY <1>1, <2>1
  <2>3. d \in members[room]
    BY <1>0, <2>1, <2>2 DEF Writable
  <2>. QED
    BY <1>4, <1>7, <2>2, <2>3 DEF Informs
<1>14. StackInv(stack, {})'
  BY <1>0, <1>6, <1>7, <1>8, <1>11, <1>12, <1>13 DEF StackInv
<1>15. TypeOK'
  BY <1>0, <1>1, <1>6 DEF TypeOK
<1>16. ConnInv' /\ ClosedOnce'
  BY <1>0 DEF ConnInv, ClosedOnce, Live
<1>17. WithinLimits'
  BY <1>0, LimitsJoin
<1>. QED
  BY <1>14, <1>15, <1>16, <1>17 DEF IInv

LEMMA HandleJoinInv ==
  ASSUME IInv, NEW c \in Conns, NEW r \in Channels, HandleJoin(c, r)
  PROVE  IInv'
<1>1. CASE RoomFull(r) \/ RelayFull(r)
  BY <1>1, CloseConnectionInv DEF HandleJoin, Writable
<1>2. CASE ~(RoomFull(r) \/ RelayFull(r))
  BY <1>2, JoinInv DEF HandleJoin
<1>. QED
  BY <1>1, <1>2

LEMMA HandleFrameInv ==
  ASSUME IInv, NEW c \in Conns, NEW kind \in {"scene", "presence"}, HandleFrame(c, kind)
  PROVE  IInv'
<1>1. PICK to : to = members[membership[c]] \ {c}
  OBVIOUS
<1>2. PICK f : f = Loop(kind, membership[c], to, to)
  OBVIOUS
<1>3. /\ Idle /\ Writable(c) /\ membership[c] \in Channels /\ stack' = <<f>> /\ TypeOK
      /\ Undisturbed /\ UNCHANGED <<sock, ping, gone, draining>>
  BY <1>1, <1>2 DEF HandleFrame, IInv, TypeOK, Undisturbed
<1>4. to \subseteq Conns
  BY <1>1, <1>3 DEF TypeOK
<1>5. f \in Frame /\ f.op = kind /\ f.room = membership[c] /\ f.to = to /\ f.list = to
  BY <1>2, <1>3, <1>4 DEF Loop, Frame
<1>6. ~draining
  BY <1>3, IdleFacts DEF Writable
<1>7. LoopInv(f, {})
  BY <1>1, <1>3, <1>5, <1>6 DEF LoopInv
<1>. QED
  BY <1>3, <1>5, <1>7, StartInv

LEMMA RevokeInv ==
  ASSUME IInv, NEW r \in Channels, NEW cs \in SUBSET Conns, Revoke(r, cs)
  PROVE  IInv'
<1>1. PICK f : f = Loop("revoke", r, cs, {})
  OBVIOUS
<1>2. /\ Idle /\ stack' = <<f>> /\ Undisturbed /\ UNCHANGED <<sock, ping, gone, draining>>
      /\ cs # {} /\ \A c \in cs : membership[c] # NoRoom
  BY <1>1 DEF Revoke, Undisturbed
<1>3. f \in Frame /\ f.op = "revoke"
  BY <1>1 DEF Loop, Frame
<1>4. ~draining
  BY <1>2, IdleFacts DEF IInv, ConnInv
<1>5. LoopInv(f, {})
  BY <1>3, <1>4 DEF LoopInv
<1>. QED
  BY <1>2, <1>3, <1>5, StartInv

\* Between events a socket's own affairs disturb no room.
LEMMA SocketsInv ==
  ASSUME IInv, Idle, UNCHANGED <<conn, rooms, view, records, draining, stack>>,
         sock' \in [Conns -> {"closed", "open", "closing"}], ping' \in [Conns -> PingStates],
         gone' \in [Conns -> BOOLEAN],
         \A d \in Conns : /\ sock'[d] = "open" => sock[d] = "open"
                          /\ sock'[d] = "closed" => ~Live(d)
                          /\ sock[d] = "closed" => sock'[d] = "closed"
  PROVE  IInv'
<1>1. stack' = <<>> /\ StackInv(<<>>, {}) /\ Frames(<<>>) = {}
  BY IdleFacts, Empty
<1>2. StackInv(stack', {}) /\ Frames(stack') = {}
  BY <1>1
<1>. QED
  BY <1>2, NarrowInv

LEMMA PeerInv ==
  ASSUME IInv, NEW c \in Conns, PeerCloses(c) \/ PeerVanishes(c) \/ Pong(c)
  PROVE  IInv'
<1>1. TypeOK /\ ConnInv /\ Idle
  BY DEF IInv, PeerCloses, PeerVanishes, Pong
<1>2. UNCHANGED <<conn, rooms, view, records, draining, stack>>
  BY DEF PeerCloses, PeerVanishes, Pong
<1>3. /\ sock' \in [Conns -> {"closed", "open", "closing"}] /\ ping' \in [Conns -> PingStates]
      /\ gone' \in [Conns -> BOOLEAN]
  BY <1>1 DEF PeerCloses, PeerVanishes, Pong, TypeOK, PingStates
<1>4. \A d \in Conns : /\ sock'[d] = "open" => sock[d] = "open"
                       /\ sock'[d] = "closed" => ~Live(d)
                       /\ sock[d] = "closed" => sock'[d] = "closed"
  BY <1>1 DEF PeerCloses, PeerVanishes, Pong, TypeOK, ConnInv
<1>. QED
  BY <1>1, <1>2, <1>3, <1>4, SocketsInv

LEMMA SocketClosedInv ==
  ASSUME IInv, NEW c \in Conns, SocketClosed(c)
  PROVE  IInv'
<1>1. TypeOK /\ ConnInv /\ Idle /\ sock' = [sock EXCEPT ![c] = "closed"]
      /\ UNCHANGED <<ping, gone, draining>>
  BY DEF IInv, SocketClosed
<1>2. CASE Live(c)
  <2>1. PICK why \in Reasons : why = IF ping[c] = "missed" THEN "heartbeatTimeout" ELSE "ended"
    BY DEF Reasons
  <2>2. Record(c, why) /\ Release(c, <<>>)
    BY <1>2, <2>1 DEF SocketClosed
  <2>3. StackInv(<<>>, {c}) /\ \A r : ~Joining(c, r, <<>>)
    BY <1>1, IdleFacts, Empty DEF Joining
  <2>4. PICK st : st = <<>>
    OBVIOUS
  <2>. QED
    BY <1>1, <1>2, <2>2, <2>3, <2>4, ReleasedInv
<1>3. CASE ~Live(c)
  <2>1. UNCHANGED <<conn, rooms, view, records, draining, stack>>
    BY <1>1, <1>3 DEF SocketClosed, Undisturbed
  <2>2. /\ sock' \in [Conns -> {"closed", "open", "closing"}] /\ ping' \in [Conns -> PingStates]
        /\ gone' \in [Conns -> BOOLEAN]
    BY <1>1 DEF TypeOK
  <2>3. \A d \in Conns : /\ sock'[d] = "open" => sock[d] = "open"
                         /\ sock'[d] = "closed" => ~Live(d)
                         /\ sock[d] = "closed" => sock'[d] = "closed"
    BY <1>1, <1>3 DEF TypeOK, ConnInv
  <2>. QED
    BY <1>1, <2>1, <2>2, <2>3, SocketsInv
<1>. QED
  BY <1>2, <1>3

LEMMA HeartbeatInv ==
  ASSUME IInv, Heartbeat
  PROVE  IInv'
<1>1. TypeOK /\ ConnInv /\ Idle
  BY DEF IInv, Heartbeat
<1>2. UNCHANGED <<conn, rooms, view, records, draining, stack, gone>>
  BY DEF Heartbeat
<1>3. PICK dead \in SUBSET Served :
        /\ ping' = [c \in Conns |-> IF c \in dead THEN "missed"
                                    ELSE IF c \in Served THEN "pending" ELSE ping[c]]
        /\ sock' = [c \in Conns |-> IF c \in dead THEN "closing" ELSE sock[c]]
  BY DEF Heartbeat
<1>4. /\ sock' \in [Conns -> {"closed", "open", "closing"}] /\ ping' \in [Conns -> PingStates]
      /\ gone' \in [Conns -> BOOLEAN]
  BY <1>1, <1>2, <1>3 DEF TypeOK, PingStates
<1>5. \A d \in Conns : /\ sock'[d] = "open" => sock[d] = "open"
                       /\ sock'[d] = "closed" => ~Live(d)
                       /\ sock[d] = "closed" => sock'[d] = "closed"
  BY <1>1, <1>3 DEF ConnInv, Served, Tracked
<1>. QED
  BY <1>1, <1>2, <1>4, <1>5, SocketsInv

\* The drain's second phase visits every connection there is.
LEMMA DrainInv ==
  ASSUME IInv, Drain
  PROVE  IInv'
<1>0. /\ TypeOK /\ ConnInv /\ ClosedOnce /\ WithinLimits
      /\ sock' = [c \in Conns |-> IF c \in Tracked THEN "closing" ELSE "closed"]
      /\ UNCHANGED <<conn, membership, members, view, records, ping, gone>>
      /\ \A d \in Conns, r \in Channels : d \in members[r] <=> Live(d) /\ membership[d] = r
  BY IdleFacts DEF IInv, Drain, rooms
<1>1. PICK to : to = Served
  OBVIOUS
<1>2. PICK f : f = Loop("drain", NoRoom, to, {})
  OBVIOUS
<1>3. stack' = <<f>>
  BY <1>1, <1>2 DEF Drain
<1>4. f \in Frame /\ f.op = "drain" /\ f.to = to
  BY <1>1, <1>2 DEF Loop, Frame, Served, Tracked
<1>5. /\ stack' \in Seq(Frame) /\ DOMAIN stack' = {1} /\ stack'[1] = f
  BY <1>3, <1>4
<1>6. Frames(stack') = {f} /\ JoinLast(stack')
  <2>1. Frames(stack') = {f}
    BY <1>5 DEF Frames
  <2>. QED
    BY <1>4, <1>5, <2>1 DEF JoinLast
<1>7. \A d \in Conns : Live(d)' = Live(d) /\ sock'[d] # "open" /\ ~Writable(d)'
  BY <1>0 DEF Live, Writable
<1>8. \A d, r : ~Joining(d, r, stack')
  BY <1>4, <1>6 DEF Joining
<1>9. \A d \in Conns : Live(d) => d \in f.to
  BY <1>0, <1>1, <1>4 DEF ConnInv, Served, Tracked, Live
<1>10. LoopInv(f, {})'
  BY <1>4 DEF LoopInv
<1>11. StackInv(stack, {})'
  BY <1>0, <1>4, <1>5, <1>6, <1>7, <1>8, <1>9, <1>10 DEF StackInv
<1>12. TypeOK'
  BY <1>0, <1>5 DEF TypeOK, Drain
<1>13. ConnInv'
  BY <1>0, <1>7 DEF ConnInv, Tracked
<1>14. ClosedOnce'
  BY <1>0 DEF ClosedOnce
<1>15. WithinLimits'
  <2>1. Served' \subseteq Served
    BY <1>0 DEF Served, Tracked
  <2>. QED
    BY <1>0, <2>1, LimitsShrink
<1>. QED
  BY <1>11, <1>12, <1>13, <1>14, <1>15 DEF IInv

-----------------------------------------------------------------------------
(* The invariant, and what follows from it.                                *)

LEMMA IInvInit ==
  ASSUME Init
  PROVE  IInv
<1>1. TypeOK
  <2>1. <<>> \in Seq(Reasons) /\ stack \in Seq(Frame)
    BY Empty DEF Init
  <2>2. records \in [Conns -> Seq(Reasons)]
    BY <2>1 DEF Init
  <2>3. /\ sock \in [Conns -> {"closed", "open", "closing"}] /\ conn \in [Conns -> ConnStates]
        /\ membership \in [Conns -> Channels \cup {NoRoom}]
        /\ ping \in [Conns -> PingStates] /\ gone \in [Conns -> BOOLEAN]
    BY DEF Init, ConnStates, PingStates
  <2>4. /\ members \in [Channels -> SUBSET Conns] /\ view \in [Conns -> SUBSET Conns]
        /\ draining \in BOOLEAN
    BY DEF Init
  <2>. QED
    BY <2>1, <2>2, <2>3, <2>4 DEF TypeOK, Reasons
<1>2. ConnInv
  BY DEF Init, ConnInv, Live
<1>3. StackInv(stack, {})
  <2>1. \A d, r : ~Joining(d, r, <<>>) /\ Frames(<<>>) = {} /\ <<>> \in Seq(Frame)
          /\ JoinLast(<<>>)
    BY Empty DEF Joining
  <2>. QED
    BY <2>1 DEF Init, StackInv, Live, Writable
<1>4. ClosedOnce
  BY DEF Init, ClosedOnce
<1>5. WithinLimits
  <2>1. OpenRooms = {} /\ Served = {} /\ \A r \in Channels : members[r] = {}
    BY DEF Init, OpenRooms, Served, Tracked
  <2>2. Cardinality({}) = 0
    BY FS_EmptySet
  <2>. QED
    BY <2>1, <2>2 DEF WithinLimits
<1>. QED
  BY <1>1, <1>2, <1>3, <1>4, <1>5 DEF IInv

LEMMA IInvStep ==
  ASSUME IInv, [Next]_vars
  PROVE  IInv'
<1>1. CASE Step
  BY <1>1, StepPeersInv, StepPublishInv, StepJoinedInv, StepCloseInv, StepCloseAllInv DEF Step
<1>2. ASSUME NEW c \in Conns, Connect(c)
      PROVE  IInv'
  BY <1>2, ConnectInv
<1>3. ASSUME NEW c \in Conns, CloseConnection(c)
      PROVE  IInv'
  BY <1>3, CloseConnectionInv DEF CloseConnection
<1>4. ASSUME NEW c \in Conns, PeerCloses(c) \/ PeerVanishes(c) \/ Pong(c)
      PROVE  IInv'
  BY <1>4, PeerInv
<1>5. ASSUME NEW c \in Conns, SocketClosed(c)
      PROVE  IInv'
  BY <1>5, SocketClosedInv
<1>6. ASSUME NEW c \in Conns, NEW r \in Channels, HandleJoin(c, r)
      PROVE  IInv'
  BY <1>6, HandleJoinInv
<1>7. ASSUME NEW c \in Conns, NEW kind \in {"scene", "presence"}, HandleFrame(c, kind)
      PROVE  IInv'
  BY <1>7, HandleFrameInv
<1>8. ASSUME NEW r \in Channels, NEW cs \in SUBSET Conns, Revoke(r, cs)
      PROVE  IInv'
  BY <1>8, RevokeInv
<1>9. CASE Heartbeat \/ Drain
  BY <1>9, HeartbeatInv, DrainInv
<1>10. CASE UNCHANGED vars
  <2>1. Undisturbed /\ UNCHANGED <<sock, ping, gone, draining, stack>>
    BY <1>10 DEF vars, Undisturbed
  <2>2. StackInv(stack', {})
    BY <2>1 DEF IInv
  <2>. QED
    BY <2>1, <2>2, QuietInv
<1>. QED
  BY <1>1, <1>2, <1>3, <1>4, <1>5, <1>6, <1>7, <1>8, <1>9, <1>10 DEF Next, Event

THEOREM Inductive == Spec => []IInv
<1>1. Init => IInv
  BY IInvInit
<1>2. IInv /\ [Next]_vars => IInv'
  BY IInvStep
<1>. QED
  BY <1>1, <1>2, PTL DEF Spec

\* Between events the rooms and the connections agree; each disconnect is recorded once
\* and no limit is ever exceeded, in the middle of a cascade either (release, end,
\* fanout.join, fanout.leave, and the capacity checks).
THEOREM RoomsKept == Spec => []RoomsSound
<1>1. IInv => RoomsSound
  <2>. SUFFICES ASSUME IInv PROVE RoomsSound
    OBVIOUS
  <2>1. RoomsMatchConnections
    <3>. SUFFICES ASSUME Idle
                  PROVE  /\ \A c \in Conns : Live(c) => sock[c] # "closed"
                         /\ \A c \in Conns, r \in Channels :
                              c \in members[r] <=> Live(c) /\ membership[c] = r
      BY DEF RoomsMatchConnections
    <3>. QED
      BY IdleFacts DEF IInv, ConnInv
  <2>. QED
    BY <2>1 DEF RoomsSound, IInv
<1>. QED
  BY <1>1, Inductive, PTL

\* When a handler has run to its end, every member that can be written to has last been
\* told who is in its room, however the lists overtook each other (broadcastPeers).
THEOREM ViewsKept == Spec => []ViewsConverge
<1>1. IInv => ViewsConverge
  BY IdleFacts DEF ViewsConverge
<1>. QED
  BY <1>1, Inductive, PTL

\* A published scene frame has reached every recipient that can still be sent anything
\* (publish, deliverData: over the budget means disconnected, never skipped).
THEOREM NoSilentGap == Spec => []SceneNotSkipped
<1>1. IInv => SceneNotSkipped
  <2>. SUFFICES ASSUME IInv, Running("scene"), Top.to = {}, NEW c \in Top.list \ Top.sent
                PROVE  ~Writable(c)
    BY DEF SceneNotSkipped
  <2>1. LoopInv(Top, {}) /\ Top.op = "scene"
    BY PopFacts DEF Running
  <2>. QED
    BY <2>1 DEF LoopInv
<1>. QED
  BY <1>1, Inductive, PTL

\* What a handler records while draining: only the drain's own loop ends connections.
LEMMA DrainRecords ==
  ASSUME IInv, [Next]_vars, draining, NEW c \in Conns, records'[c] # records[c]
  PROVE  records'[c] = <<"relayRestarting">>
<1>0. /\ TypeOK /\ ClosedOnce /\ \A d \in Conns : ~Writable(d)
      /\ Idle => \A d \in Conns : ~Live(d)
  BY IdleFacts DEF IInv, ConnInv, Writable
<1>1. ASSUME NEW d \in Conns, NEW why, NEW st, Live(d), End(d, why, st)
      PROVE  c = d /\ records'[c] = <<why>>
  <2>1. Len(records[d]) = 0 /\ records[d] \in Seq(Reasons)
    BY <1>0, <1>1 DEF ClosedOnce, Live, TypeOK, Reasons
  <2>2. records[d] = <<>>
    BY <2>1
  <2>3. records' = [records EXCEPT ![d] = Append(records[d], why)]
    BY <1>1 DEF End, Record
  <2>4. c = d /\ records'[c] = Append(records[d], why)
    BY <1>0, <2>3 DEF TypeOK
  <2>. QED
    BY <2>2, <2>4
<1>2. ASSUME NEW d \in Conns, Connect(d)
      PROVE  records'[c] = <<"relayRestarting">>
  BY <1>0, <1>2 DEF Connect, TypeOK
<1>3. CASE StepPeers
  BY <1>0, <1>3, PopFacts DEF StepPeers, Running, Undisturbed
<1>4. CASE StepPublish
  BY <1>0, <1>4, PopFacts DEF StepPublish, PublishTo, Running, Undisturbed
<1>5. CASE StepJoined \/ StepClose
  BY <1>5 DEF StepJoined, StepClose
<1>6. CASE StepCloseAll
  <2>1. ~Idle /\ Top.op = "drain"
    <3>1. ~Idle /\ Top.op \in {"revoke", "drain"}
      BY <1>6 DEF StepCloseAll, Running
    <3>2. LoopInv(Top, {})
      BY <3>1, PopFacts
    <3>. QED
      BY <3>1, <3>2 DEF LoopInv
  <2>2. PICK d \in Top.to : Live(d) /\ End(d, "relayRestarting", After(d))
    BY <1>6, <2>1 DEF StepCloseAll, Undisturbed
  <2>. QED
    BY <1>1, <2>1, <2>2, PopFacts
<1>7. ASSUME NEW d \in Conns, SocketClosed(d)
      PROVE  FALSE
  BY <1>0, <1>7 DEF SocketClosed, Undisturbed
<1>8. ASSUME NEW d \in Conns,
             \/ CloseConnection(d) \/ PeerCloses(d) \/ PeerVanishes(d) \/ Pong(d)
             \/ \E r \in Channels : HandleJoin(d, r)
             \/ \E kind \in {"scene", "presence"} : HandleFrame(d, kind)
      PROVE  FALSE
  BY <1>0, <1>8 DEF CloseConnection, PeerCloses, PeerVanishes, Pong, HandleJoin, HandleFrame,
                    Writable
<1>9. CASE \/ \E r \in Channels, cs \in SUBSET Conns : Revoke(r, cs)
           \/ Heartbeat \/ Drain \/ UNCHANGED vars
  BY <1>9 DEF Revoke, Heartbeat, Drain, vars
<1>. QED
  BY <1>2, <1>3, <1>4, <1>5, <1>6, <1>7, <1>8, <1>9 DEF Next, Event, Step

\* From the start of a drain on, whatever disconnect is recorded is the restart's: no
\* slow consumer, missed heartbeat or late timer comes first (drain: every socket stops
\* being writable before the first connection is closed).
THEOREM RestartAttributed == Spec => DrainAttributed
<1>1. IInv /\ [Next]_vars =>
        [draining => \A c \in Conns :
           records'[c] # records[c] => records'[c] = <<"relayRestarting">>]_vars
  BY DrainRecords
<1>. QED
  BY <1>1, Inductive, PTL DEF Spec, DrainAttributed
=============================================================================
