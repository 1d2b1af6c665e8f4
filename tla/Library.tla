------------------------------- MODULE Library -------------------------------
(***************************************************************************)
(* The Library (the library functions of src/src/lib.rs): posts made of    *)
(* pages, comments nested to a bounded depth, votes, edits and deletions.  *)
(* The author of an action must spend a coin of the author address in the  *)
(* same transaction. The state is recomputed from the blocks; validation   *)
(* checks each action against the state and then applies it.               *)
(***************************************************************************)
EXTENDS Transactions

CONSTANTS
  Lib,        \* the library settings, a record
  TextBytes   \* text |-> its bytes

\* Settings::validate, the Library
LibrarySettings ==
  /\ {Lib.active, Lib.base, Lib.byte_fee, Lib.max_depth} \subseteq Nat
  /\ Lib.marker \in Nat \ {0} /\ Lib.max_pages \in 1..256
ASSUME LibraryAssumption ==
  /\ LibrarySettings
  /\ \A t \in DOMAIN TextBytes : TextBytes[t] \in Nat

NoParent == 0
PostMarker(author, title, category, index, total, body) ==
  [k |-> "post", author |-> author, title |-> title, category |-> category,
   index |-> index, total |-> total, body |-> body]
CommentMarker(post, parent, author, body) ==
  [k |-> "comment", post |-> post, parent |-> parent, author |-> author, body |-> body]
VoteMarker(kind, target, author, up) ==
  [k |-> "vote", kind |-> kind, target |-> target, author |-> author, up |-> up]
EditMarker(kind, target, author, title, category, body) ==
  [k |-> "edit", kind |-> kind, target |-> target, author |-> author,
   title |-> title, category |-> category, body |-> body]
DeleteMarker(kind, target, author) ==
  [k |-> "delete", kind |-> kind, target |-> target, author |-> author]

\* library_markers_in_tx
Actions(tx) == Markers(tx, {"post", "comment", "vote", "edit", "delete"})
Kinds(as) == {o.s.k : o \in ToSet(as)}

\* library_miner_fee_required_in_tx: a post pays for its bytes, title and
\* category once; the fee is an error ({}) before activation.
PostPrice(posts) ==
  Lib.base + Lib.byte_fee *
    (TextBytes[posts[1].s.title] + TextBytes[posts[1].s.category] +
     Folded(LAMBDA n, o : n + TextBytes[o.s.body], 0, posts))
LibraryMinerFee(tx, h) ==
  LET as == Actions(tx)
      posts == Markers(tx, {"post"})
  IN IF as = <<>> THEN {0}
     ELSE IF h < Lib.active \/ \E o \in ToSet(as) : o.v # Lib.marker THEN {}
     ELSE {IF posts = <<>> THEN 0 ELSE PostPrice(posts)}

-----------------------------------------------------------------------------
\* posts and comments: id |-> record; votes: <<kind, target, author>> |-> up
EmptyLibrary == [posts |-> <<>>, comments |-> <<>>, votes |-> <<>>]

LivePosts(L) == {p \in DOMAIN L.posts : ~L.posts[p].deleted}
LiveComments(L) == {c \in DOMAIN L.comments : ~L.comments[c].deleted}
Live(L, kind) == IF kind = "post" THEN LivePosts(L) ELSE LiveComments(L)
Entry(L, kind, target) == IF kind = "post" THEN L.posts[target] ELSE L.comments[target]
Put(f, x, y) == [z \in DOMAIN f \cup {x} |-> IF z = x THEN y ELSE f[z]]

\* The depth of an answer to a live comment; an answer to a deleted or
\* unknown one counts as depth 1.
DepthBelow(L, parent) ==
  IF parent = NoParent THEN 0
  ELSE IF parent \in LiveComments(L) THEN L.comments[parent].depth + 1 ELSE 1

\* library_apply_markers, with the vote that library_state_from_blocks records
ApplyPost(L, tx, as) ==
  LET first == as[1].s
      pages == SortSeq(as, LAMBDA a, b : a.s.index < b.s.index)
  IN IF \E o \in ToSet(as) : \/ o.s.k # "post"
                             \/ o.s.author # first.author \/ o.s.title # first.title
                             \/ o.s.category # first.category \/ o.s.total # first.total
     THEN {}
     ELSE {[L EXCEPT !.posts = Put(L.posts, tx.id,
             [author |-> first.author, title |-> first.title, category |-> first.category,
              body |-> [i \in DOMAIN pages |-> pages[i].s.body],
              deleted |-> FALSE, edited |-> FALSE])]}
ApplyComment(L, tx, m) ==
  IF DepthBelow(L, m.parent) > Lib.max_depth THEN {}
  ELSE {[L EXCEPT !.comments = Put(L.comments, tx.id,
           [author |-> m.author, post |-> m.post, parent |-> m.parent, body |-> m.body,
            depth |-> DepthBelow(L, m.parent), deleted |-> FALSE, edited |-> FALSE])]}
ApplyEdit(L, m) ==
  IF m.kind = "post" /\ m.target \in DOMAIN L.posts
  THEN [L EXCEPT !.posts[m.target] =
          [@ EXCEPT !.title = m.title, !.category = m.category, !.body = <<m.body>>, !.edited = TRUE]]
  ELSE IF m.kind # "post" /\ m.target \in DOMAIN L.comments
  THEN [L EXCEPT !.comments[m.target] = [@ EXCEPT !.body = m.body, !.edited = TRUE]]
  ELSE L
ApplyDelete(L, m) ==
  IF m.kind = "post" /\ m.target \in DOMAIN L.posts
  THEN [L EXCEPT !.posts[m.target].deleted = TRUE]
  ELSE IF m.kind # "post" /\ m.target \in DOMAIN L.comments
  THEN [L EXCEPT !.comments[m.target].deleted = TRUE]
  ELSE L
ApplyVotes(L, as) ==
  Folded(LAMBDA acc, o :
             [acc EXCEPT !.votes = Put(acc.votes, <<o.s.kind, o.s.target, o.s.author>>, o.s.up)],
           L, SelectSeq(as, LAMBDA o : o.s.k = "vote"))
ApplyActions(L, tx, as) ==
  LET m == as[1].s
  IN IF as = <<>> THEN {L}
     ELSE IF m.k = "post" THEN ApplyPost(L, tx, as)
     ELSE IF Len(as) # 1 THEN {}
     ELSE CASE m.k = "comment" -> ApplyComment(L, tx, m)
            [] m.k = "edit" -> {ApplyEdit(L, m)}
            [] m.k = "delete" -> {ApplyDelete(L, m)}
            [] m.k = "vote" -> {L}
LibraryApply(L, tx) == ApplyActions(L, tx, Actions(tx))

\* library_state_from_blocks
ReplayTx(Ls, tx) == UNION {LibraryApply(ApplyVotes(L, Actions(tx)), tx) : L \in Ls}
LibraryFrom(blocks) ==
  Folded(ReplayTx, {EmptyLibrary},
           FlattenSeq([h \in DOMAIN blocks |-> IF h < Lib.active THEN <<>> ELSE blocks[h].txs]))

-----------------------------------------------------------------------------
(* validate_library_marker_state *)
ActionOK(o, L, tx, U) ==
  LET m == o.s IN
  /\ o.v = Lib.marker
  /\ SpendsFrom(tx, U, m.author)
  /\ CASE m.k = "post" -> m.total \in 1..Lib.max_pages /\ m.index < m.total
       [] m.k = "comment" ->
            /\ m.post \in LivePosts(L)
            /\ m.parent # NoParent =>
                 /\ m.parent \in LiveComments(L)
                 /\ L.comments[m.parent].post = m.post
                 /\ L.comments[m.parent].depth + 1 <= Lib.max_depth
       [] m.k = "vote" -> m.target \in Live(L, m.kind)
       [] OTHER -> /\ m.target \in Live(L, m.kind)
                   /\ Entry(L, m.kind, m.target).author = m.author
PagesOK(as) ==
  /\ Kinds(as) = {"post"}
  /\ \A a, b \in ToSet(as) : /\ a.s.author = b.s.author /\ a.s.title = b.s.title
                             /\ a.s.category = b.s.category /\ a.s.total = b.s.total
  /\ Len(as) = as[1].s.total
  /\ Cardinality({o.s.index : o \in ToSet(as)}) = Len(as)
ActionsOK(tx, as, L, U, h) ==
  as # <<>> =>
    /\ h >= Lib.active
    /\ ~IsCoinbase(tx)
    /\ Len(as) <= Consensus.max_entries
    /\ \A o \in ToSet(as) : ActionOK(o, L, tx, U)
    /\ IF as[1].s.k = "post" THEN PagesOK(as) ELSE Len(as) = 1
LibraryOK(tx, L, U, h) == ActionsOK(tx, Actions(tx), L, U, h)
=============================================================================
