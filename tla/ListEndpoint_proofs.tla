------------------------ MODULE ListEndpoint_proofs ------------------------
(* Proofs about ListEndpoint, for every table, selector and request. *)
EXTENDS ListEndpoint, SequenceTheorems, TLAPS

-----------------------------------------------------------------------------
(* The table                                                               *)

\* An inserted row moves those behind it by one place.
LEMMA WithElements ==
  ASSUME NEW rows \in Seq(Rows), NEW i \in 0 .. Len(rows), NEW r \in Rows
  PROVE  /\ With(rows, i, r) \in Seq(Rows)
         /\ Len(With(rows, i, r)) = Len(rows) + 1
         /\ \A k \in 1 .. Len(rows) + 1 :
              With(rows, i, r)[k] = IF k <= i THEN rows[k] ELSE IF k = i + 1 THEN r ELSE rows[k - 1]
<1>1. Len(rows) \in Nat /\ \A k \in 1 .. Len(rows) : rows[k] \in Rows
  OBVIOUS
<1> DEFINE before == SubSeq(rows, 1, i)
           after == SubSeq(rows, i + 1, Len(rows))
           one == <<r>>
<1>2. /\ before \in Seq(Rows) /\ Len(before) = i
      /\ \A k \in 1 .. i : before[k] = rows[k]
  <2>1. 1 \in Int /\ i \in Int /\ \A k \in 1 .. i : rows[k] \in Rows
    BY <1>1
  <2> QED
    BY <2>1, SubSeqProperties
<1>3. /\ after \in Seq(Rows) /\ Len(after) = Len(rows) - i
      /\ \A k \in 1 .. Len(rows) - i : after[k] = rows[i + k]
  <2>1. i + 1 \in Int /\ Len(rows) \in Int /\ \A k \in i + 1 .. Len(rows) : rows[k] \in Rows
    BY <1>1
  <2> QED
    BY <2>1, <1>1, SubSeqProperties
<1>4. one \in Seq(Rows) /\ Len(one) = 1 /\ one[1] = r
  OBVIOUS
<1>5. With(rows, i, r) = (before \o one) \o after
  BY DEF With
<1> HIDE DEF before, after, one
<1> DEFINE start == before \o one
<1>6. /\ start \in Seq(Rows) /\ Len(start) = i + 1
      /\ \A k \in 1 .. i + 1 : start[k] = IF k <= i THEN rows[k] ELSE r
  <2>1. /\ start \in Seq(Rows) /\ Len(start) = Len(before) + Len(one)
        /\ \A k \in 1 .. Len(before) + Len(one) :
             start[k] = IF k <= Len(before) THEN before[k] ELSE one[k - Len(before)]
    BY <1>2, <1>4, ConcatProperties
  <2> HIDE DEF start
  <2> QED
    BY <2>1, <1>2, <1>4
<1> HIDE DEF start
<1>7. /\ start \o after \in Seq(Rows)
      /\ Len(start \o after) = Len(start) + Len(after)
      /\ \A k \in 1 .. Len(start) + Len(after) :
           (start \o after)[k] = IF k <= Len(start) THEN start[k] ELSE after[k - Len(start)]
  BY <1>3, <1>6, ConcatProperties
<1>8. With(rows, i, r) = start \o after
  BY <1>5 DEF start
<1> DEFINE all == start \o after
<1> HIDE DEF all
<1>9. /\ all \in Seq(Rows) /\ Len(all) = Len(rows) + 1
      /\ \A k \in 1 .. Len(rows) + 1 :
           all[k] = IF k <= i + 1 THEN start[k] ELSE after[k - (i + 1)]
  BY <1>1, <1>3, <1>6, <1>7 DEF all
<1>10. ASSUME NEW k \in 1 .. Len(rows) + 1
       PROVE  all[k] = IF k <= i THEN rows[k] ELSE IF k = i + 1 THEN r ELSE rows[k - 1]
  <2>1. CASE k <= i + 1
    BY <2>1, <1>9, <1>6
  <2>2. CASE k > i + 1
    <3>1. k - (i + 1) \in 1 .. Len(rows) - i /\ i + (k - (i + 1)) = k - 1
      BY <2>2, <1>1
    <3>2. after[k - (i + 1)] = rows[k - 1]
      BY <3>1, <1>3
    <3>3. all[k] = after[k - (i + 1)]
      BY <2>2, <1>9
    <3> QED
      BY <3>2, <3>3, <2>2
  <2> QED
    BY <2>1, <2>2
<1> QED
  BY <1>8, <1>9, <1>10 DEF all

\* A deleted row lets those behind it move up by one place.
LEMMA WithoutElements ==
  ASSUME table \in Seq(Rows), NEW i \in 1 .. Len(table)
  PROVE  /\ Without(i) \in Seq(Rows)
         /\ Len(Without(i)) = Len(table) - 1
         /\ \A k \in 1 .. Len(table) - 1 :
              Without(i)[k] = IF k < i THEN table[k] ELSE table[k + 1]
<1>1. Len(table) \in Nat /\ \A k \in 1 .. Len(table) : table[k] \in Rows
  OBVIOUS
<1> DEFINE before == SubSeq(table, 1, i - 1)
           after == SubSeq(table, i + 1, Len(table))
<1>2. /\ before \in Seq(Rows) /\ Len(before) = i - 1
      /\ \A k \in 1 .. i - 1 : before[k] = table[k]
  <2>1. 1 \in Int /\ i - 1 \in Int /\ \A k \in 1 .. i - 1 : table[k] \in Rows
    BY <1>1
  <2> QED
    BY <2>1, SubSeqProperties
<1>3. /\ after \in Seq(Rows) /\ Len(after) = Len(table) - i
      /\ \A k \in 1 .. Len(table) - i : after[k] = table[i + k]
  <2>1. i + 1 \in Int /\ Len(table) \in Int /\ \A k \in i + 1 .. Len(table) : table[k] \in Rows
    BY <1>1
  <2> QED
    BY <2>1, <1>1, SubSeqProperties
<1>4. Without(i) = before \o after
  BY DEF Without
<1> HIDE DEF before, after
<1> DEFINE all == before \o after
<1>5. /\ all \in Seq(Rows) /\ Len(all) = Len(before) + Len(after)
      /\ \A k \in 1 .. Len(before) + Len(after) :
           all[k] = IF k <= Len(before) THEN before[k] ELSE after[k - Len(before)]
  BY <1>2, <1>3, ConcatProperties
<1> HIDE DEF all
<1>6. Len(all) = Len(table) - 1
  BY <1>1, <1>2, <1>3, <1>5
<1>7. ASSUME NEW k \in 1 .. Len(table) - 1
      PROVE  all[k] = IF k < i THEN table[k] ELSE table[k + 1]
  <2>1. k \in 1 .. Len(before) + Len(after)
    BY <1>1, <1>2, <1>3
  <2>2. CASE k < i
    BY <2>1, <2>2, <1>2, <1>5
  <2>3. CASE k >= i
    <3>1. k - (i - 1) \in 1 .. Len(table) - i /\ i + (k - (i - 1)) = k + 1
      BY <2>3, <1>1
    <3> QED
      BY <3>1, <2>1, <2>3, <1>2, <1>3, <1>5
  <2> QED
    BY <2>2, <2>3
<1> QED
  BY <1>4, <1>5, <1>6, <1>7 DEF all

-----------------------------------------------------------------------------
(* Pages and links                                                         *)

\* The parser accepts what _bounded_int lets through; only $skip differs between a
\* request and the link of its response.
LEMMA NextLinkFacts ==
  ASSUME NEW q \in Query, NEW m \in Metas, Accepted(q, m), NEW rows, NEW count,
         NextLink(q, m, rows, count) # None
  PROVE  LET next == NextLink(q, m, rows, count)
         IN  /\ next \in Query
             /\ next.grows = q.grows
             /\ q.grows \/ Accepted(next, m)
             /\ Offset(next) > Offset(q)
<1> DEFINE top == ResponseTop(q, m)
           skip == ResponseSkip(q)
           next == NextLink(q, m, rows, count)
<1>1. m.maximum \in Int /\ (m.default # None => m.default \in Int)
  BY MetaAssumption
<1>2. (q.top # None => q.top \in 0 .. MaxTop) /\ (q.skip # None => q.skip \in 0 .. MaxSkip)
  BY DEF Accepted, Parses, BoundedInt
<1>3. top \in Int
  <2>1. OrElse(q.top, OrElse(m.default, PageSize)) \in Int
    BY <1>1, <1>2, LimitAssumption DEF OrElse
  <2> QED
    BY <2>1, <1>1, LimitAssumption DEF ResponseTop, Smaller
<1>4. skip \in Nat /\ skip = Offset(q)
  BY <1>2, LimitAssumption DEF ResponseSkip, OrElse, Smaller, Larger, Offset
<1>5. next = [q EXCEPT !.skip = skip + top, !.long = q.grows] /\ top > 0 /\ skip + top <= MaxSkip
  BY DEF NextLink
<1> HIDE DEF top, skip, next
<1>6. /\ next \in Query
      /\ next.skip = skip + top /\ next.long = q.grows
      /\ next.top = q.top /\ next.grows = q.grows
  <2>1. skip + top \in Int \union {None} /\ q.grows \in BOOLEAN
    BY <1>3, <1>4 DEF Query
  <2>2. \A s \in Int \union {None}, long \in BOOLEAN :
          LET r == [q EXCEPT !.skip = s, !.long = long]
          IN  r \in Query /\ r.skip = s /\ r.long = long /\ r.top = q.top /\ r.grows = q.grows
    BY DEF Query
  <2> QED
    BY <1>5, <2>1, <2>2
<1>7. skip + top \in 0 .. MaxSkip
  BY <1>3, <1>4, <1>5, LimitAssumption
<1>8. Offset(next) = skip + top
  BY <1>6, <1>7, NoneAssumption DEF Offset, OrElse
<1>9. Valid(next, m)
  BY <1>6 DEF Accepted, Valid, Wanted, Limit
<1>10. q.grows \/ Parses(next)
  BY <1>2, <1>6, <1>7 DEF Accepted, Parses, BoundedInt
<1> QED
  BY <1>3, <1>4, <1>5, <1>6, <1>8, <1>9, <1>10 DEF next, Accepted

\* A page holds the rows behind the offset, and is full unless nothing is left.
LEMMA SliceElements ==
  ASSUME NEW rows \in Seq(Rows), NEW q \in Query, NEW m \in Metas, Accepted(q, m)
  PROVE  LET read == Slice(rows, q, m)
         IN  /\ read \in Seq(Rows) /\ Len(read) \in Nat /\ Offset(q) \in Nat
             /\ \A k \in 1 .. Len(read) :
                  Offset(q) + k \in 1 .. Len(rows) /\ read[k] = rows[Offset(q) + k]
             /\ \A i \in 1 .. Len(rows) : i > Offset(q) + Len(read) => Len(read) = Limit(q, m)
<1> DEFINE offset == OrElse(q.skip, 0)
           last == IF Limit(q, m) = None THEN Len(rows) ELSE Smaller(offset + Limit(q, m), Len(rows))
           read == SubSeq(rows, offset + 1, last)
<1>1. Len(rows) \in Nat /\ \A i \in 1 .. Len(rows) : rows[i] \in Rows
  OBVIOUS
<1>2. offset \in Nat
  BY LimitAssumption, NoneAssumption DEF Accepted, Parses, BoundedInt, OrElse, Query
<1>3. Limit(q, m) # None => Limit(q, m) \in Nat
  BY LimitAssumption DEF Accepted, Valid, BoundedInt
<1>4. last \in Int /\ last <= Len(rows)
  BY <1>1, <1>2, <1>3 DEF Smaller
<1>5. last = Len(rows) \/ (Limit(q, m) \in Nat /\ last = offset + Limit(q, m))
  BY <1>3 DEF Smaller
<1>6. Slice(rows, q, m) = read /\ Offset(q) = offset
  BY DEF Slice, Offset
<1> HIDE DEF offset, last
<1>7. \A i \in offset + 1 .. last : rows[i] \in Rows
  BY <1>1, <1>2, <1>4
<1>8. /\ read \in Seq(Rows)
      /\ Len(read) = IF offset + 1 <= last THEN last - (offset + 1) + 1 ELSE 0
      /\ \A k \in 1 .. last - (offset + 1) + 1 : read[k] = rows[offset + 1 + k - 1]
  BY <1>2, <1>4, <1>7, SubSeqProperties
<1> HIDE DEF read
<1>9. Len(read) = IF offset + 1 <= last THEN last - offset ELSE 0
  BY <1>2, <1>4, <1>8
<1>10. ASSUME NEW k \in 1 .. Len(read)
       PROVE  offset + k \in 1 .. Len(rows) /\ read[k] = rows[offset + k]
  <2>1. k \in 1 .. last - (offset + 1) + 1 /\ offset + 1 + k - 1 = offset + k
    BY <1>2, <1>4, <1>9
  <2> QED
    BY <2>1, <1>2, <1>4, <1>8, <1>1
<1>11. ASSUME NEW i \in 1 .. Len(rows), i > offset + Len(read)
       PROVE  Len(read) = Limit(q, m)
  <2>1. last # Len(rows)
    BY <1>1, <1>2, <1>9, <1>11
  <2> QED
    BY <2>1, <1>2, <1>5, <1>9
<1> QED
  BY <1>2, <1>6, <1>8, <1>10, <1>11

\* The request a link is for starts where the page ended, and asks for as many rows.
LEMMA LinkContinues ==
  ASSUME NEW q \in Query, NEW m \in Metas, Accepted(q, m), NEW rows, NEW count,
         NextLink(q, m, rows, count) # None
  PROVE  LET next == NextLink(q, m, rows, count)
         IN  next.top = q.top /\ Offset(next) = Offset(q) + Len(rows)
<1> DEFINE top == ResponseTop(q, m)
           skip == ResponseSkip(q)
           next == NextLink(q, m, rows, count)
<1>1. next = [q EXCEPT !.skip = skip + top, !.long = q.grows] /\ top = Len(rows)
  BY DEF NextLink
<1>2. next.top = q.top /\ next.skip = skip + top
  <2>1. \A s, long : LET r == [q EXCEPT !.skip = s, !.long = long]
                     IN  r.skip = s /\ r.top = q.top
    BY DEF Query
  <2> QED
    BY <1>1, <2>1
<1>3. skip = Offset(q) /\ skip \in Nat
  BY LimitAssumption, NoneAssumption
     DEF Accepted, Parses, BoundedInt, ResponseSkip, OrElse, Smaller, Larger, Offset, Query
<1>4. top \in Int
  <2>1. m.maximum \in Int /\ (m.default # None => m.default \in Int)
    BY MetaAssumption
  <2>2. OrElse(q.top, OrElse(m.default, PageSize)) \in Int
    BY <2>1, LimitAssumption DEF OrElse, Query
  <2> QED
    BY <2>1, <2>2, LimitAssumption DEF ResponseTop, Smaller
<1> HIDE DEF top, skip, next
<1>5. skip + top \in Int /\ skip + top # None
  BY <1>3, <1>4, NoneAssumption
<1>6. Offset(next) = skip + top
  BY <1>2, <1>5 DEF Offset, OrElse
<1> QED
  BY <1>1, <1>2, <1>3, <1>6 DEF next

\* The two places that compute the limit of a page agree on the accepted requests.
LEMMA SameLimit ==
  ASSUME NEW q \in Query, NEW m \in Metas, Accepted(q, m), Limit(q, m) # None
  PROVE  ResponseTop(q, m) = Limit(q, m) /\ Limit(q, m) \in Nat
<1>1. m.maximum \in Int /\ (m.default # None => m.default \in Int)
  BY MetaAssumption
<1>2. Wanted(q, m) # None /\ Limit(q, m) = Smaller(Wanted(q, m), m.maximum)
  BY DEF Limit
<1>3. OrElse(q.top, OrElse(m.default, PageSize)) = Wanted(q, m) /\ Wanted(q, m) \in Int
  BY <1>1, <1>2 DEF Wanted, OrElse, Query
<1>4. Limit(q, m) \in 0 .. MaxTop
  BY DEF Accepted, Valid, BoundedInt
<1>5. ResponseTop(q, m) = LET top == Smaller(Limit(q, m), MaxTop) IN IF top < 0 THEN PageSize ELSE top
  BY <1>2, <1>3 DEF ResponseTop
<1>6. Smaller(Limit(q, m), MaxTop) = Limit(q, m)
  BY <1>4, LimitAssumption DEF Smaller
<1> QED
  BY <1>4, <1>5, <1>6, LimitAssumption

\* A full page with rows behind it has a link, but for empty pages and the last $skip.
LEMMA NoLinkMeans ==
  ASSUME NEW q \in Query, NEW m \in Metas, Accepted(q, m), NEW rows \in Seq(Rows), NEW count,
         Len(rows) = Limit(q, m),
         count # None => count > Offset(q) + Len(rows),
         NextLink(q, m, rows, count) = None
  PROVE  \/ Limit(q, m) = 0
         \/ Len(rows) = ResponseTop(q, m) /\ ResponseSkip(q) + Len(rows) > MaxSkip
<1> DEFINE top == ResponseTop(q, m)
           skip == ResponseSkip(q)
<1>1. Len(rows) \in Nat /\ Limit(q, m) # None
  BY NoneAssumption
<1>2. top = Limit(q, m) /\ top \in Nat
  BY <1>1, SameLimit
<1>3. skip = Offset(q) /\ skip \in Nat
  BY LimitAssumption, NoneAssumption
     DEF Accepted, Parses, BoundedInt, ResponseSkip, OrElse, Smaller, Larger, Offset, Query
<1>4. [q EXCEPT !.skip = skip + top, !.long = q.grows] # None
  <2>1. skip + top \in Int /\ q.grows \in BOOLEAN
    BY <1>2, <1>3 DEF Query
  <2>2. \A s \in Int, long \in BOOLEAN : [q EXCEPT !.skip = s, !.long = long] \in Query
    BY DEF Query
  <2> QED
    BY <2>1, <2>2, RequestAssumption
<1>5. ~ (top > 0 /\ Len(rows) = top /\ skip + top <= MaxSkip /\ (count # None => skip + top < count))
  BY <1>4 DEF NextLink
<1> HIDE DEF top, skip
<1> QED
  BY <1>1, <1>2, <1>3, <1>5, LimitAssumption DEF top, skip

-----------------------------------------------------------------------------
(* The inductive invariant                                                 *)

LEMMA InitOK == Init => IInv
<1> SUFFICES ASSUME Init PROVE IInv
  OBVIOUS
<1>1. NoQuery \in Query
  BY DEF NoQuery, Query
<1>2. table \in Seq(Rows)
  BY TableAssumption DEF Init
<1>3. TypeOK
  BY <1>1, <1>2 DEF Init, TypeOK, Stages
<1> QED
  BY <1>3 DEF Init, IInv, Answered, LinkOK, SameWalk, LinkNeverRejected, Offset, NoQuery, OrElse

LEMMA FetchStep == IInv /\ Fetch => IInv'
<1> SUFFICES ASSUME IInv, Fetch PROVE IInv'
  OBVIOUS
<1>1. page' \in Seq(Rows)
  BY SliceElements DEF IInv, TypeOK, Fetch
<1>2. TypeOK'
  BY <1>1 DEF IInv, TypeOK, Fetch, Transition, Stages, history
<1> QED
  BY <1>2 DEF IInv, Fetch, Transition, history, Answered, LinkOK, SameWalk, LinkNeverRejected, Offset

LEMMA RejectStep == IInv /\ Reject => IInv'
<1> SUFFICES ASSUME IInv, Reject PROVE IInv'
  OBVIOUS
<1>1. TypeOK'
  BY DEF IInv, TypeOK, Reject, Transition, Stages, history
<1> QED
  BY <1>1 DEF IInv, Reject, Transition, history, Answered, LinkOK, SameWalk, LinkNeverRejected, Offset

LEMMA CountStep == IInv /\ Count => IInv'
<1> SUFFICES ASSUME IInv, Count PROVE IInv'
  OBVIOUS
<1>1. TypeOK'
  BY DEF IInv, TypeOK, Count, Transition, Stages, history
<1> QED
  BY <1>1 DEF IInv, Count, Transition, history, Answered, LinkOK, SameWalk, LinkNeverRejected, Offset

LEMMA RespondStep == IInv /\ Respond => IInv'
<1> SUFFICES ASSUME IInv, Respond PROVE IInv'
  OBVIOUS
<1>1. /\ stage \in {"fetched", "counted"} /\ stage' = "answered"
      /\ link' = NextLink(req, meta, page, total)
      /\ received' = received \o page
      /\ UNCHANGED <<table, meta, req, page, total, first, scope, writes>>
  BY DEF Respond, Transition
<1>2. Accepted(req, meta) /\ req \in Query /\ meta \in Metas
  BY <1>1 DEF IInv, TypeOK, Answered
<1>3. received' \in Seq(Rows)
  BY <1>1, ConcatProperties DEF IInv, TypeOK
<1>4. link' # None =>
        /\ link' \in Query
        /\ link'.grows = req.grows
        /\ req.grows \/ Accepted(link', meta)
        /\ Offset(link') > Offset(req)
  BY <1>1, <1>2, NextLinkFacts
<1>5. TypeOK'
  BY <1>1, <1>3, <1>4 DEF IInv, TypeOK, Stages
<1>6. Answered' /\ LinkNeverRejected'
  BY <1>1, <1>2 DEF Answered, LinkNeverRejected
<1>7. LinkOK'
  BY <1>1, <1>4 DEF IInv, SameWalk, LinkOK
<1>8. SameWalk'
  BY <1>1, <1>4 DEF IInv, SameWalk
<1> QED
  BY <1>5, <1>6, <1>7, <1>8 DEF IInv

LEMMA StartStep == IInv /\ (\E q \in Requests : Start(q)) => IInv'
<1> SUFFICES ASSUME IInv, NEW q \in Requests, Start(q) PROVE IInv'
  OBVIOUS
<1>1. q \in Query
  BY RequestAssumption
<1>2. TypeOK'
  BY <1>1 DEF IInv, TypeOK, Start, Transition, Stages
<1> QED
  BY <1>2 DEF IInv, Start, Transition, Answered, LinkOK, SameWalk, LinkNeverRejected

LEMMA ClientStep == IInv /\ Client => IInv'
<1> SUFFICES ASSUME IInv, Client PROVE IInv'
  OBVIOUS
<1>1. CASE Follow
  <2>1. link \in Query
    BY <1>1 DEF IInv, TypeOK, Follow
  <2>2. TypeOK'
    BY <1>1, <2>1 DEF IInv, TypeOK, Follow, Transition, Stages, history
  <2> QED
    BY <1>1, <2>2 DEF IInv, Follow, Transition, history, Answered, LinkOK, SameWalk, LinkNeverRejected
<1>2. CASE Finish
  <2>1. TypeOK'
    BY <1>2 DEF IInv, TypeOK, Finish, Transition, Stages, history
  <2> QED
    BY <1>2, <2>1 DEF IInv, Finish, Transition, history, Answered, LinkOK, SameWalk, LinkNeverRejected
<1> QED
  BY <1>1, <1>2 DEF Client

\* A write changes the table and nothing the invariant relates.
LEMMA WriterStep == IInv /\ Writer => IInv'
<1> SUFFICES ASSUME IInv, Writer PROVE IInv'
  OBVIOUS
<1>1. table \in Seq(Rows) /\ Len(table) \in Nat
  BY DEF IInv, TypeOK
<1>4. table' \in Seq(Rows)
  <2>1. CASE \E r \in Rows, i \in 0 .. Len(table) : Insert(r, i)
    BY <2>1, <1>1, WithElements DEF Insert
  <2>2. CASE \E i \in 1 .. Len(table) : Delete(i)
    BY <2>2, <1>1, WithoutElements DEF Delete
  <2>3. CASE \E i \in 1 .. Len(table), j \in 0 .. Len(table) - 1 : Move(i, j)
    <3>1. PICK i \in 1 .. Len(table), j \in 0 .. Len(table) - 1 : Move(i, j)
      BY <2>3
    <3>2. table[i] \in Rows
      BY <1>1
    <3>3. Without(i) \in Seq(Rows) /\ j \in 0 .. Len(Without(i))
      BY <1>1, WithoutElements
    <3> QED
      BY <3>1, <3>2, <3>3, WithElements DEF Move
  <2> QED
    BY <2>1, <2>2, <2>3 DEF Writer
<1>5. \E kind \in {"insert", "delete", "move"} : Write(kind)
  BY DEF Writer, Insert, Delete, Move
<1>6. /\ writes' \in Seq({"insert", "delete", "move"})
      /\ UNCHANGED <<meta, req, stage, page, total, link, received, first, scope>>
  BY <1>5 DEF IInv, TypeOK, Write, history
<1>7. TypeOK'
  BY <1>4, <1>6 DEF IInv, TypeOK
<1> QED
  BY <1>6, <1>7 DEF IInv, Answered, LinkOK, SameWalk, LinkNeverRejected

\* The invariant holds in every reachable state.
THEOREM Inductive == Spec => []IInv
<1>1. IInv /\ [Next]_vars => IInv'
  <2> SUFFICES ASSUME IInv, [Next]_vars PROVE IInv'
    OBVIOUS
  <2>1. CASE UNCHANGED vars
    BY <2>1 DEF vars, IInv, TypeOK, Answered, LinkOK, SameWalk, LinkNeverRejected
  <2>2. CASE Next
    BY <2>2, FetchStep, RejectStep, CountStep, RespondStep, StartStep, ClientStep, WriterStep
       DEF Next, Service
  <2> QED
    BY <2>1, <2>2
<1> QED
  BY <1>1, InitOK, PTL DEF Spec

-----------------------------------------------------------------------------
(* The properties                                                          *)

\* Rows, requests and links keep their types, whatever a concurrent writer does.
THEOREM TypeCorrect == Spec => []TypeOK
<1>1. IInv => TypeOK
  BY DEF IInv
<1> QED
  BY <1>1, Inductive, PTL

\* The service accepts every link it hands out.
THEOREM LinksAreAccepted == Spec => []LinkNeverRejected
<1>1. IInv => LinkNeverRejected
  BY DEF IInv
<1> QED
  BY <1>1, Inductive, PTL

\* A walk only moves forward.
THEOREM WalkMovesForward == Spec => SkipAdvances
<1>1. IInv /\ [Next]_vars => [stage' = "sent" /\ stage = "answered" => Offset(req') > Offset(req)]_vars
  <2> SUFFICES ASSUME IInv, Next, stage' = "sent", stage = "answered"
               PROVE Offset(req') > Offset(req)
    OBVIOUS
  <2>1. Follow
    BY DEF Next, Service, Fetch, Reject, Count, Respond, Start, Client, Finish, Writer,
           Insert, Delete, Move, Write, Transition
  <2> QED
    BY <2>1 DEF IInv, LinkOK, Follow
<1> QED
  BY <1>1, Inductive, PTL DEF Spec, SkipAdvances

-----------------------------------------------------------------------------
(* How far the walk is                                                     *)

\* What a step of the walk leaves alone, and what follows when it gives no row.
LEMMA SameWrites ==
  ASSUME writes' = writes, NEW kind
  PROVE  Wrote(kind)' <=> Wrote(kind)
BY DEF Wrote

LEMMA WroteMore ==
  ASSUME IInv, NEW kind \in {"insert", "delete", "move"}, Write(kind)
  PROVE  Wrote(kind)' /\ \A k : Wrote(k) => Wrote(k)'
<1>1. writes \in Seq({"insert", "delete", "move"}) /\ writes' = Append(writes, kind)
  BY DEF IInv, TypeOK, Write
<1>2. /\ Len(writes') = Len(writes) + 1 /\ Len(writes) \in Nat
      /\ writes'[Len(writes) + 1] = kind
      /\ \A i \in 1 .. Len(writes) : writes'[i] = writes[i]
  BY <1>1
<1> QED
  BY <1>2 DEF Wrote

\* A row is in a concatenation when it is in one of its parts.
LEMMA AmongConcat ==
  ASSUME NEW s \in Seq(Rows), NEW t \in Seq(Rows), NEW r
  PROVE  Among(r, s \o t) <=> Among(r, s) \/ Among(r, t)
<1>1. Len(s) \in Nat /\ Len(t) \in Nat
  OBVIOUS
<1> DEFINE all == s \o t
<1>2. /\ Len(all) = Len(s) + Len(t)
      /\ \A i \in 1 .. Len(s) + Len(t) : all[i] = IF i <= Len(s) THEN s[i] ELSE t[i - Len(s)]
  BY ConcatProperties
<1> HIDE DEF all
<1>3. ASSUME Among(r, all) PROVE Among(r, s) \/ Among(r, t)
  <2>1. PICK i \in 1 .. Len(s) + Len(t) : all[i] = r
    BY <1>2, <1>3 DEF Among
  <2>2. CASE i <= Len(s)
    BY <1>1, <1>2, <2>1, <2>2 DEF Among
  <2>3. CASE i > Len(s)
    <3>1. i - Len(s) \in 1 .. Len(t) /\ t[i - Len(s)] = r
      BY <1>1, <1>2, <2>1, <2>3
    <3> QED
      BY <3>1 DEF Among
  <2> QED
    BY <1>1, <2>2, <2>3
<1>4. ASSUME Among(r, s) PROVE Among(r, all)
  BY <1>1, <1>2, <1>4 DEF Among
<1>5. ASSUME Among(r, t) PROVE Among(r, all)
  <2>1. PICK i \in 1 .. Len(t) : t[i] = r
    BY <1>5 DEF Among
  <2>2. Len(s) + i \in 1 .. Len(s) + Len(t) /\ Len(s) + i - Len(s) = i /\ ~ (Len(s) + i <= Len(s))
    BY <1>1
  <2>3. all[Len(s) + i] = r
    BY <1>2, <2>1, <2>2
  <2> QED
    BY <1>2, <2>2, <2>3 DEF Among
<1> QED
  BY <1>3, <1>4, <1>5 DEF all

\* Two parts without a common row, each without a repetition, make a whole without one.
LEMMA InjectiveConcat ==
  ASSUME NEW s \in Seq(Rows), NEW t \in Seq(Rows), Injective(s), Injective(t),
         \A i \in 1 .. Len(t) : ~ Among(t[i], s)
  PROVE  Injective(s \o t)
<1>1. Len(s) \in Nat /\ Len(t) \in Nat
  OBVIOUS
<1> DEFINE all == s \o t
<1>2. /\ Len(all) = Len(s) + Len(t)
      /\ \A i \in 1 .. Len(s) + Len(t) : all[i] = IF i <= Len(s) THEN s[i] ELSE t[i - Len(s)]
  BY ConcatProperties
<1> HIDE DEF all
<1>3. ASSUME NEW i \in 1 .. Len(all), NEW j \in 1 .. Len(all), all[i] = all[j] PROVE i = j
  <2>1. \A k \in 1 .. Len(all) : k > Len(s) =>
          k - Len(s) \in 1 .. Len(t) /\ all[k] = t[k - Len(s)]
    BY <1>1, <1>2
  <2>2. \A k \in 1 .. Len(all) : k <= Len(s) => k \in 1 .. Len(s) /\ all[k] = s[k]
    BY <1>1, <1>2
  <2>3. CASE i <= Len(s) /\ j <= Len(s)
    BY <1>3, <2>2, <2>3 DEF Injective
  <2>4. CASE i > Len(s) /\ j > Len(s)
    <3>1. i - Len(s) = j - Len(s)
      BY <1>3, <2>1, <2>4 DEF Injective
    <3> QED
      BY <3>1, <1>1, <1>2
  <2>5. CASE i <= Len(s) /\ j > Len(s)
    BY <1>3, <2>1, <2>2, <2>5 DEF Among
  <2>6. CASE i > Len(s) /\ j <= Len(s)
    BY <1>3, <2>1, <2>2, <2>6 DEF Among
  <2> QED
    BY <1>1, <1>2, <2>3, <2>4, <2>5, <2>6
<1> QED
  BY <1>3 DEF all, Injective

LEMMA ProgressInit == Init => Progress
<1> SUFFICES ASSUME Init PROVE Progress
  OBVIOUS
<1>1. stage = "idle" /\ received = <<>> /\ link = None /\ req = first /\ Injective(table)
  BY TableAssumption DEF Init
<1>2. WalkOK
  BY <1>1 DEF WalkOK
<1>3. Given = <<>> /\ ~ Walking
  BY <1>1 DEF Given, Reading, Walking
<1>4. Injective(Given)
  BY <1>3 DEF Injective
<1> QED
  BY <1>1, <1>2, <1>3, <1>4 DEF Progress, AheadOK, BehindOK

LEMMA ProgressStart ==
  ASSUME IInv, Progress, NEW q \in Requests, Start(q)
  PROVE  Progress'
<1>1. /\ stage = "idle" /\ stage' = "sent" /\ req' = q /\ first' = q /\ scope' = table
      /\ UNCHANGED <<table, meta, page, total, link, received, writes>>
  BY DEF Start, Transition
<1>2. received = <<>> /\ link = None
  BY <1>1 DEF Progress, WalkOK, IInv, SameWalk
<1>3. WalkOK'
  BY <1>1, <1>2 DEF WalkOK
<1>4. Given' = <<>> /\ Position' = Offset(first') /\ ~ Reading'
  BY <1>1, <1>2 DEF Given, Reading, Position, Offset
<1>5. \A r : ~ Among(r, Given')
  BY <1>4 DEF Among
<1>6. Injective(Given')
  BY <1>4 DEF Injective
<1>7. AheadOK'
  BY <1>1, <1>5, <1>6, SameWrites DEF Progress, AheadOK
<1>8. \A r \in Rows : Expected(r)' => ToCome(r)'
  BY <1>1, <1>4 DEF ToCome, Expected
<1>9. BehindOK'
  BY <1>1, <1>8 DEF BehindOK
<1> QED
  BY <1>3, <1>7, <1>9 DEF Progress

LEMMA ProgressReject ==
  ASSUME IInv, Progress, Reject
  PROVE  Progress'
<1>1. /\ stage = "sent" /\ stage' = "rejected"
      /\ UNCHANGED <<table, meta, req, page, total, link, received, first, scope, writes>>
  BY DEF Reject, Transition, history
<1>2. WalkOK'
  BY <1>1 DEF Progress, WalkOK
<1>3. Given' = Given /\ ~ Walking'
  BY <1>1 DEF Given, Reading, Walking
<1>4. AheadOK'
  BY <1>1, <1>3, SameWrites DEF Progress, AheadOK, Injective
<1>5. BehindOK'
  BY <1>1, <1>3 DEF BehindOK
<1> QED
  BY <1>2, <1>4, <1>5 DEF Progress

LEMMA ProgressFetch ==
  ASSUME IInv, Progress, Fetch
  PROVE  Progress'
<1>1. /\ stage = "sent" /\ stage' = "fetched" /\ Accepted(req, meta)
      /\ page' = Slice(table, req, meta) /\ total' = None
      /\ UNCHANGED <<table, meta, req, link, received, first, scope, writes>>
  BY DEF Fetch, Transition, history
<1>2. /\ table \in Seq(Rows) /\ received \in Seq(Rows) /\ req \in Query /\ meta \in Metas
      /\ Len(table) \in Nat
  BY DEF IInv, TypeOK
<1>3. /\ page' \in Seq(Rows) /\ Len(page') \in Nat /\ Offset(req) \in Nat
      /\ \A k \in 1 .. Len(page') :
           Offset(req) + k \in 1 .. Len(table) /\ page'[k] = table[Offset(req) + k]
      /\ \A i \in 1 .. Len(table) : i > Offset(req) + Len(page') => Len(page') = Limit(req, meta)
  BY <1>1, <1>2, SliceElements
<1>4. /\ Given = received /\ Position = Offset(req) /\ Walking
      /\ Given' = received \o page' /\ Position' = Offset(req) + Len(page') /\ Reading' /\ Walking'
  BY <1>1 DEF Given, Position, Walking, Reading, Offset
<1>5. WalkOK'
  BY <1>1 DEF Progress, WalkOK
<1>6. \A r : Among(r, Given') <=> Among(r, received) \/ Among(r, page')
  BY <1>2, <1>3, <1>4, AmongConcat
<1>7. AheadOK'
  <2>1. SUFFICES ASSUME ~ Wrote("insert"), ~ Wrote("move")
                 PROVE  /\ Injective(table)
                        /\ Injective(Given')
                        /\ \A i \in 1 .. Len(table) : i > Position' => ~ Among(table[i], Given')
    BY <1>1, SameWrites DEF AheadOK
  <2>2. /\ Injective(table) /\ Injective(received)
        /\ \A i \in 1 .. Len(table) : i > Offset(req) => ~ Among(table[i], received)
    BY <1>4, <2>1 DEF Progress, AheadOK
  <2>3. Injective(page')
    <3>1. SUFFICES ASSUME NEW j \in 1 .. Len(page'), NEW k \in 1 .. Len(page'), page'[j] = page'[k]
                   PROVE  j = k
      BY DEF Injective
    <3>2. Offset(req) + j = Offset(req) + k
      BY <1>3, <2>2, <3>1 DEF Injective
    <3> QED
      BY <1>3, <3>2
  <2>4. \A k \in 1 .. Len(page') : ~ Among(page'[k], received)
    <3>1. TAKE k \in 1 .. Len(page')
    <3>2. Offset(req) + k > Offset(req) /\ Offset(req) + k \in 1 .. Len(table)
      BY <1>3
    <3>3. page'[k] = table[Offset(req) + k]
      BY <1>3
    <3> QED
      BY <2>2, <3>2, <3>3
  <2>5. Injective(Given')
    BY <1>2, <1>3, <1>4, <2>2, <2>3, <2>4, InjectiveConcat
  <2>6. ASSUME NEW i \in 1 .. Len(table), i > Position' PROVE ~ Among(table[i], Given')
    <3>1. i > Offset(req) /\ i > Offset(req) + Len(page')
      BY <1>3, <1>4, <2>6
    <3>2. ~ Among(table[i], received)
      BY <2>2, <3>1
    <3>3. ASSUME NEW k \in 1 .. Len(page'), page'[k] = table[i] PROVE FALSE
      <4>1. Offset(req) + k = i
        BY <1>3, <2>2, <3>3 DEF Injective
      <4> QED
        BY <1>3, <3>1, <4>1
    <3> QED
      BY <1>6, <3>2, <3>3 DEF Among
  <2> QED
    BY <2>2, <2>5, <2>6
<1>8. BehindOK'
  <2>1. SUFFICES ASSUME ~ Wrote("delete"), ~ Wrote("move"), NEW r \in Rows, Expected(r)'
                 PROVE  Among(r, Given') \/ ToCome(r)'
    BY <1>1, SameWrites DEF BehindOK
  <2>2. Expected(r)
    BY <1>1, <2>1 DEF Expected, Offset
  <2>3. Among(r, received) \/ ToCome(r)
    BY <1>4, <2>1, <2>2 DEF Progress, BehindOK
  <2>4. CASE Among(r, received)
    BY <1>6, <2>4
  <2>5. CASE ToCome(r)
    <3>1. PICK i \in 1 .. Len(table) : i > Offset(req) /\ table[i] = r
      BY <1>4, <2>5 DEF ToCome
    <3>2. CASE i > Offset(req) + Len(page')
      BY <1>1, <1>3, <1>4, <3>1, <3>2 DEF ToCome, Limit, Wanted
    <3>3. CASE i <= Offset(req) + Len(page')
      <4>1. i - Offset(req) \in 1 .. Len(page') /\ Offset(req) + (i - Offset(req)) = i
        BY <1>3, <3>1, <3>3
      <4>2. page'[i - Offset(req)] = r
        BY <1>3, <3>1, <4>1
      <4>3. Among(r, page')
        BY <4>1, <4>2 DEF Among
      <4> QED
        BY <1>6, <4>3
    <3> QED
      BY <1>3, <3>1, <3>2, <3>3
  <2> QED
    BY <2>3, <2>4, <2>5
<1> QED
  BY <1>5, <1>7, <1>8 DEF Progress

LEMMA ProgressCount ==
  ASSUME IInv, Progress, Count
  PROVE  Progress'
<1>1. /\ stage = "fetched" /\ stage' = "counted" /\ total' = Len(table)
      /\ UNCHANGED <<table, meta, req, page, link, received, first, scope, writes>>
  BY DEF Count, Transition, history
<1>2. Len(table) \in Nat /\ Len(page) \in Nat /\ Accepted(req, meta) /\ req \in Query
  BY <1>1 DEF IInv, TypeOK, Answered
<1>3. Position \in Int
  BY <1>1, <1>2, LimitAssumption, NoneAssumption
     DEF Position, Reading, Offset, OrElse, Query
<1>4. Given' = Given /\ Position' = Position /\ Reading /\ Reading' /\ Walking /\ Walking'
  BY <1>1 DEF Given, Position, Walking, Reading, Offset
<1>5. WalkOK'
  BY <1>1, <1>2, NoneAssumption DEF Progress, WalkOK
<1>6. AheadOK'
  BY <1>1, <1>4, SameWrites DEF Progress, AheadOK, Injective
<1>7. BehindOK'
  <2>1. SUFFICES ASSUME ~ Wrote("delete"), ~ Wrote("move"), NEW r \in Rows, Expected(r)'
                 PROVE  Among(r, Given') \/ ToCome(r)'
    BY <1>1, <1>4, SameWrites DEF BehindOK
  <2>2. Among(r, Given) \/ ToCome(r)
    BY <1>1, <1>4, <2>1 DEF Progress, BehindOK, Expected, Offset
  <2>3. CASE ToCome(r)
    <3>1. PICK i \in 1 .. Len(table) : i > Position /\ table[i] = r
      BY <2>3 DEF ToCome
    <3>2. total' > Position
      BY <1>1, <1>2, <1>3, <3>1
    <3>3. Len(page) = Limit(req, meta)
      BY <1>4, <2>3 DEF ToCome
    <3> QED
      BY <1>1, <1>4, <3>1, <3>2, <3>3 DEF ToCome, Limit, Wanted
  <2> QED
    BY <1>4, <2>2, <2>3
<1> QED
  BY <1>5, <1>6, <1>7 DEF Progress

LEMMA ProgressRespond ==
  ASSUME IInv, Progress, Respond
  PROVE  Progress'
<1>1. /\ stage = (IF req.count THEN "counted" ELSE "fetched") /\ stage' = "answered"
      /\ link' = NextLink(req, meta, page, total) /\ received' = received \o page
      /\ UNCHANGED <<table, meta, req, page, total, first, scope, writes>>
  BY DEF Respond, Transition
<1>2. /\ Accepted(req, meta) /\ req \in Query /\ meta \in Metas /\ page \in Seq(Rows)
      /\ first \in Query
  BY <1>1 DEF IInv, TypeOK, Answered
<1>3. link' # None => link'.top = req.top /\ Offset(link') = Offset(req) + Len(page)
  BY <1>1, <1>2, LinkContinues
<1>4. WalkOK'
  BY <1>1, <1>3 DEF Progress, WalkOK
<1>5. /\ Given' = Given /\ Reading /\ Walking /\ ~ Reading'
      /\ Position = Offset(req) + Len(page)
      /\ Walking' => Position' = Position /\ link' # None
  BY <1>1, <1>3 DEF Given, Position, Walking, Reading, Offset
<1>6. AheadOK'
  BY <1>1, <1>5, SameWrites DEF Progress, AheadOK, Injective
<1>7. BehindOK'
  <2>1. SUFFICES ASSUME ~ Wrote("delete"), ~ Wrote("move")
                 PROVE  /\ Walking' => \A r \in Rows : Expected(r)' => Among(r, Given') \/ ToCome(r)'
                        /\ link' = None =>
                             \/ Limit(first, meta)' = 0
                             \/ Truncated'
                             \/ \A r \in Rows : Expected(r)' => Among(r, received')
    BY <1>1, SameWrites DEF BehindOK
  <2>2. \A r \in Rows : Expected(r)' => Among(r, Given) \/ ToCome(r)
    BY <1>1, <1>5, <2>1 DEF Progress, BehindOK, Expected, Offset
  <2>3. \A r : Walking' /\ ToCome(r) => ToCome(r)'
    BY <1>1, <1>5 DEF ToCome
  <2>4. Given = received'
    BY <1>1, <1>5 DEF Given
  <2>5. ASSUME link' = None, NEW r \in Rows, ToCome(r)
        PROVE  Limit(first, meta)' = 0 \/ Truncated'
    <3>1. Len(page) = Limit(req, meta)
      BY <1>5, <2>5 DEF ToCome
    <3>2. total # None => total > Offset(req) + Len(page)
      BY <1>1, <1>5, <2>5 DEF ToCome, Progress, WalkOK
    <3>3. \/ Limit(req, meta) = 0
          \/ Len(page) = ResponseTop(req, meta) /\ ResponseSkip(req) + Len(page) > MaxSkip
      BY <1>1, <1>2, <2>5, <3>1, <3>2, NoLinkMeans
    <3>4. Limit(first, meta)' = Limit(req, meta)
      BY <1>1 DEF Progress, WalkOK, Limit, Wanted
    <3>5. Truncated' <=> Len(page) = ResponseTop(req, meta) /\ ResponseSkip(req) + Len(page) > MaxSkip
      BY <1>1 DEF Truncated, ResponseTop, ResponseSkip
    <3> QED
      BY <3>3, <3>4, <3>5
  <2> QED
    BY <1>5, <2>2, <2>3, <2>4, <2>5
<1> QED
  BY <1>4, <1>6, <1>7 DEF Progress

LEMMA ProgressClient ==
  ASSUME IInv, Progress, Client
  PROVE  Progress'
<1>1. CASE Follow
  <2>1. /\ stage = "answered" /\ stage' = "sent" /\ link # None /\ req' = link
        /\ UNCHANGED <<table, meta, page, total, link, received, first, scope, writes>>
    BY <1>1 DEF Follow, Transition, history
  <2>2. WalkOK'
    BY <2>1 DEF Progress, WalkOK
  <2>3. Given' = Given /\ Position' = Position /\ ~ Reading /\ ~ Reading' /\ Walking
    BY <2>1 DEF Given, Position, Walking, Reading, Offset
  <2>4. AheadOK'
    BY <2>1, <2>3, SameWrites DEF Progress, AheadOK, Injective
  <2>5. \A r : (Expected(r)' <=> Expected(r)) /\ (ToCome(r) => ToCome(r)')
    BY <2>1, <2>3 DEF Expected, ToCome, Offset
  <2>6. BehindOK'
    BY <2>1, <2>3, <2>5, SameWrites DEF Progress, BehindOK
  <2> QED
    BY <2>2, <2>4, <2>6 DEF Progress
<1>2. CASE Finish
  <2>1. /\ stage = "answered" /\ stage' = "done" /\ link = None
        /\ UNCHANGED <<table, meta, req, page, total, link, received, first, scope, writes>>
    BY <1>2 DEF Finish, Transition, history
  <2>2. WalkOK'
    BY <2>1 DEF Progress, WalkOK
  <2>3. Given' = Given /\ ~ Walking'
    BY <2>1 DEF Given, Walking, Reading
  <2>4. AheadOK'
    BY <2>1, <2>3, SameWrites DEF Progress, AheadOK, Injective
  <2>5. /\ \A r : Expected(r)' <=> Expected(r)
        /\ Limit(first, meta)' = Limit(first, meta) /\ (Truncated' <=> Truncated)
    BY <2>1 DEF Expected, Offset, Limit, Wanted, Truncated, ResponseTop, ResponseSkip
  <2>6. BehindOK'
    BY <2>1, <2>3, <2>5, SameWrites DEF Progress, BehindOK
  <2> QED
    BY <2>2, <2>4, <2>6 DEF Progress
<1> QED
  BY <1>1, <1>2 DEF Client

\* A row that is inserted moves the others back, if at all.
LEMMA ProgressInsert ==
  ASSUME IInv, Progress, NEW r \in Rows, NEW i \in 0 .. Len(table), Insert(r, i)
  PROVE  Progress'
<1>1. /\ Write("insert") /\ table' = With(table, i, r) /\ table \in Seq(Rows) /\ Len(table) \in Nat
      /\ UNCHANGED <<meta, req, stage, page, total, link, received, first, scope>>
  BY DEF Insert, Write, history, IInv, TypeOK
<1>2. Wrote("insert")' /\ \A kind : Wrote(kind) => Wrote(kind)'
  BY <1>1, WroteMore
<1>3. WalkOK'
  BY <1>1 DEF Progress, WalkOK
<1>4. AheadOK'
  BY <1>2 DEF AheadOK
<1>5. /\ Given' = Given /\ Position' = Position /\ Walking' = Walking
      /\ \A c : Expected(c)' <=> Expected(c)
      /\ Limit(first, meta)' = Limit(first, meta) /\ (Truncated' <=> Truncated)
  BY <1>1 DEF Given, Position, Walking, Reading, Offset, Expected, Limit, Wanted, Truncated,
              ResponseTop, ResponseSkip
<1>6. Walking => Position \in Int
  BY LimitAssumption, NoneAssumption
     DEF IInv, TypeOK, Walking, Reading, Position, Offset, OrElse, Query
<1>7. ASSUME NEW c \in Rows, ToCome(c), Walking PROVE ToCome(c)'
  <2>1. PICK k \in 1 .. Len(table) : k > Position /\ table[k] = c
    BY <1>7 DEF ToCome
  <2>2. /\ Len(table') = Len(table) + 1
        /\ \A j \in 1 .. Len(table) + 1 :
             table'[j] = IF j <= i THEN table[j] ELSE IF j = i + 1 THEN r ELSE table[j - 1]
    <3>1. /\ Len(With(table, i, r)) = Len(table) + 1
          /\ \A j \in 1 .. Len(table) + 1 :
               With(table, i, r)[j] =
                 IF j <= i THEN table[j] ELSE IF j = i + 1 THEN r ELSE table[j - 1]
      <4>1. PICK rows \in Seq(Rows) : rows = table
        BY <1>1
      <4>2. i \in 0 .. Len(rows)
        BY <4>1
      <4> HIDE <4>1
      <4>3. /\ Len(With(rows, i, r)) = Len(rows) + 1
            /\ \A j \in 1 .. Len(rows) + 1 :
                 With(rows, i, r)[j] =
                   IF j <= i THEN rows[j] ELSE IF j = i + 1 THEN r ELSE rows[j - 1]
        BY <4>2, WithElements
      <4> QED
        BY <4>1, <4>3
    <3> QED
      BY <1>1, <3>1, Zenon
  <2>3. \E j \in 1 .. Len(table') : j > Position /\ table'[j] = c
    <3>1. CASE k <= i
      BY <1>1, <2>1, <2>2, <3>1
    <3>2. CASE k > i
      <4>1. k + 1 \in 1 .. Len(table) + 1 /\ ~ (k + 1 <= i) /\ k + 1 # i + 1 /\ k + 1 - 1 = k
        BY <1>1, <3>2
      <4>2. table'[k + 1] = c
        BY <2>1, <2>2, <4>1
      <4> QED
        BY <1>6, <1>7, <2>1, <2>2, <4>1, <4>2
    <3> QED
      BY <1>1, <3>1, <3>2
  <2> QED
    BY <1>1, <1>5, <1>7, <2>3 DEF ToCome, Reading, Limit, Wanted
<1>8. BehindOK'
  BY <1>1, <1>2, <1>5, <1>7 DEF Progress, BehindOK
<1> QED
  BY <1>3, <1>4, <1>8 DEF Progress

\* A row that is deleted moves the others to the front, if at all.
LEMMA ProgressDelete ==
  ASSUME IInv, Progress, NEW i \in 1 .. Len(table), Delete(i)
  PROVE  Progress'
<1>1. /\ Write("delete") /\ table' = Without(i) /\ table \in Seq(Rows) /\ Len(table) \in Nat
      /\ UNCHANGED <<meta, req, stage, page, total, link, received, first, scope>>
  BY DEF Delete, Write, history, IInv, TypeOK
<1>2. Wrote("delete")' /\ \A kind : Wrote(kind) => Wrote(kind)'
  BY <1>1, WroteMore
<1>3. WalkOK'
  BY <1>1 DEF Progress, WalkOK
<1>4. BehindOK'
  BY <1>2 DEF BehindOK
<1>5. Given' = Given /\ Position' = Position /\ Walking' = Walking
  BY <1>1 DEF Given, Position, Walking, Reading, Offset
<1>6. Walking => Position \in Int
  BY LimitAssumption, NoneAssumption
     DEF IInv, TypeOK, Walking, Reading, Position, Offset, OrElse, Query
<1>7. AheadOK'
  <2>1. SUFFICES ASSUME ~ Wrote("insert"), ~ Wrote("move") PROVE AheadOK'
    BY <1>2 DEF AheadOK
  <2>2. /\ Injective(table) /\ Injective(Given)
        /\ Walking => \A k \in 1 .. Len(table) : k > Position => ~ Among(table[k], Given)
    BY <2>1 DEF Progress, AheadOK
  <2>3. /\ Len(table') = Len(table) - 1
        /\ \A k \in 1 .. Len(table) - 1 : table'[k] = IF k < i THEN table[k] ELSE table[k + 1]
    BY <1>1, WithoutElements
  <2>4. \A k \in 1 .. Len(table') :
          \E j \in 1 .. Len(table) : j \in {k, k + 1} /\ table'[k] = table[j] /\ (j = k <=> k < i)
    <3>1. TAKE k \in 1 .. Len(table')
    <3>2. CASE k < i
      BY <1>1, <2>3, <3>2
    <3>3. CASE k >= i
      <4>1. k + 1 \in 1 .. Len(table) /\ k + 1 # k /\ table'[k] = table[k + 1]
        BY <1>1, <2>3, <3>3
      <4> QED
        BY <3>3, <4>1
    <3> QED
      BY <1>1, <2>3, <3>2, <3>3
  <2>5. Injective(table')
    <3>1. SUFFICES ASSUME NEW k \in 1 .. Len(table'), NEW l \in 1 .. Len(table'), table'[k] = table'[l]
                   PROVE  k = l
      BY DEF Injective
    <3>2. PICK j \in 1 .. Len(table) : j \in {k, k + 1} /\ table'[k] = table[j] /\ (j = k <=> k < i)
      BY <2>4
    <3>3. PICK j2 \in 1 .. Len(table) : j2 \in {l, l + 1} /\ table'[l] = table[j2] /\ (j2 = l <=> l < i)
      BY <2>4
    <3>4. j = j2
      BY <2>2, <3>1, <3>2, <3>3 DEF Injective
    <3> QED
      BY <1>1, <2>3, <3>2, <3>3, <3>4
  <2>6. ASSUME Walking, NEW k \in 1 .. Len(table'), k > Position
        PROVE  ~ Among(table'[k], Given)
    <3>1. PICK j \in 1 .. Len(table) : j \in {k, k + 1} /\ table'[k] = table[j]
      BY <2>4
    <3>2. j > Position
      BY <1>6, <2>6, <3>1, <1>1, <2>3
    <3> QED
      BY <2>2, <2>6, <3>1, <3>2
  <2> QED
    BY <1>5, <2>2, <2>5, <2>6 DEF AheadOK
<1> QED
  BY <1>3, <1>4, <1>7 DEF Progress

LEMMA ProgressWriter ==
  ASSUME IInv, Progress, Writer
  PROVE  Progress'
<1>1. ASSUME NEW r \in Rows, NEW i \in 0 .. Len(table), Insert(r, i) PROVE Progress'
  BY <1>1, ProgressInsert
<1>2. ASSUME NEW i \in 1 .. Len(table), Delete(i) PROVE Progress'
  BY <1>2, ProgressDelete
<1>3. ASSUME NEW i \in 1 .. Len(table), NEW j \in 0 .. Len(table) - 1, Move(i, j) PROVE Progress'
  <2>1. Write("move") /\ UNCHANGED <<meta, req, stage, page, total, link, received, first, scope>>
    BY <1>3 DEF Move, Write, history
  <2>2. Wrote("move")'
    BY <2>1, WroteMore
  <2>3. WalkOK'
    BY <2>1 DEF Progress, WalkOK
  <2> QED
    BY <2>2, <2>3 DEF Progress, AheadOK, BehindOK
<1> QED
  BY <1>1, <1>2, <1>3 DEF Writer

\* What the client was given, and what lies ahead of it, stay apart and complete.
THEOREM WalkProgresses == Spec => []Progress
<1>1. IInv /\ Progress /\ [Next]_vars => Progress'
  <2> SUFFICES ASSUME IInv, Progress, [Next]_vars PROVE Progress'
    OBVIOUS
  <2>1. CASE UNCHANGED vars
    BY <2>1 DEF vars, Progress, WalkOK, AheadOK, BehindOK, Wrote, Injective, Given, Walking, Reading,
                Position, Offset, Expected, Among, ToCome, Limit, Wanted, Truncated, ResponseTop,
                ResponseSkip
  <2>2. CASE Next
    BY <2>2, ProgressStart, ProgressFetch, ProgressReject, ProgressCount, ProgressRespond,
       ProgressClient, ProgressWriter DEF Next, Service
  <2> QED
    BY <2>1, <2>2
<1> QED
  BY <1>1, ProgressInit, Inductive, PTL DEF Spec

\* Without insertions and moves no row is returned twice.
THEOREM NothingTwice == Spec => []NoRowTwice
<1>1. IInv /\ Progress => NoRowTwice
  <2> SUFFICES ASSUME IInv, Progress, ~ Wrote("insert"), ~ Wrote("move") PROVE Injective(received)
    BY DEF NoRowTwice
  <2>1. Injective(Given)
    BY DEF Progress, AheadOK
  <2>2. CASE ~ Reading
    BY <2>1, <2>2 DEF Given
  <2>3. CASE Reading
    <3>1. received \in Seq(Rows) /\ page \in Seq(Rows) /\ Len(received) \in Nat /\ Len(page) \in Nat
      BY DEF IInv, TypeOK
    <3> DEFINE all == received \o page
    <3>2. /\ Len(all) = Len(received) + Len(page)
          /\ \A k \in 1 .. Len(received) + Len(page) :
               all[k] = IF k <= Len(received) THEN received[k] ELSE page[k - Len(received)]
      BY <3>1, ConcatProperties
    <3>3. Injective(all)
      BY <2>1, <2>3 DEF Given
    <3> HIDE DEF all
    <3> QED
      BY <3>1, <3>2, <3>3 DEF Injective
  <2> QED
    BY <2>2, <2>3
<1> QED
  BY <1>1, WalkProgresses, Inductive, PTL

\* Without deletions and moves no row of the scope is missed.
THEOREM NothingMissed == Spec => []NoRowMissed
<1>1. IInv /\ Progress => NoRowMissed
  <2> SUFFICES ASSUME IInv, Progress, stage = "done", ~ Wrote("delete"), ~ Wrote("move")
               PROVE  \/ Limit(first, meta) = 0
                      \/ Truncated
                      \/ \A r \in Rows : Expected(r) => Among(r, received)
    BY DEF NoRowMissed
  <2>1. link = None
    BY DEF Progress, WalkOK
  <2> QED
    BY <2>1 DEF Progress, BehindOK
<1> QED
  BY <1>1, WalkProgresses, Inductive, PTL

-----------------------------------------------------------------------------
(* The ordered scan                                                        *)

\* Rows given one after the other from an offset on are the beginning of what is left there.
LEMMA Beginning ==
  ASSUME NEW rows \in Seq(Rows), NEW skip \in Nat, NEW given \in Seq(Rows),
         \A k \in 1 .. Len(given) : skip + k \in 1 .. Len(rows) /\ given[k] = rows[skip + k]
  PROVE  LET left == SubSeq(rows, skip + 1, Len(rows))
         IN  /\ left \in Seq(Rows)
             /\ Len(left) \in Nat
             /\ Len(given) \in 0 .. Len(left)
             /\ given = SubSeq(left, 1, Len(given))
             /\ \A k \in 1 .. Len(left) : skip + k \in 1 .. Len(rows) /\ left[k] = rows[skip + k]
<1> DEFINE left == SubSeq(rows, skip + 1, Len(rows))
<1>1. Len(rows) \in Nat /\ Len(given) \in Nat /\ \A k \in 1 .. Len(rows) : rows[k] \in Rows
  OBVIOUS
<1>2. /\ left \in Seq(Rows)
      /\ Len(left) = IF skip + 1 <= Len(rows) THEN Len(rows) - (skip + 1) + 1 ELSE 0
      /\ \A k \in 1 .. Len(rows) - (skip + 1) + 1 : left[k] = rows[skip + 1 + k - 1]
  <2>1. skip + 1 \in Int /\ Len(rows) \in Int /\ \A k \in skip + 1 .. Len(rows) : rows[k] \in Rows
    BY <1>1
  <2> QED
    BY <2>1, SubSeqProperties
<1> HIDE DEF left
<1>3. Len(left) = IF skip < Len(rows) THEN Len(rows) - skip ELSE 0
  BY <1>1, <1>2
<1>4. ASSUME NEW k \in 1 .. Len(left)
      PROVE  skip + k \in 1 .. Len(rows) /\ left[k] = rows[skip + k]
  <2>1. k \in 1 .. Len(rows) - (skip + 1) + 1 /\ skip + 1 + k - 1 = skip + k
    BY <1>1, <1>3
  <2>2. left[k] = rows[skip + k]
    BY <2>1, <1>2
  <2>3. skip + k \in 1 .. Len(rows)
    BY <1>1, <1>3
  <2> QED
    BY <2>2, <2>3
<1>5. Len(given) \in 0 .. Len(left)
  <2>1. CASE Len(given) = 0
    BY <2>1, <1>1, <1>3
  <2>2. CASE Len(given) > 0
    <3>1. skip + Len(given) \in 1 .. Len(rows)
      BY <2>2, <1>1
    <3> QED
      BY <3>1, <1>1, <1>3
  <2> QED
    BY <2>1, <2>2, <1>1
<1> DEFINE start == SubSeq(left, 1, Len(given))
<1>6. /\ start \in Seq(Rows) /\ Len(start) = Len(given)
      /\ \A k \in 1 .. Len(given) : start[k] = left[k]
  <2>1. 1 \in Int /\ Len(given) \in Int /\ \A k \in 1 .. Len(given) : left[k] \in Rows
    BY <1>1, <1>2, <1>5
  <2> QED
    BY <2>1, <1>1, SubSeqProperties
<1> HIDE DEF start
<1>7. \A k \in 1 .. Len(given) : given[k] = start[k]
  BY <1>4, <1>5, <1>6
<1>8. given = start
  BY <1>6, <1>7, SeqEqual
<1>9. given = SubSeq(left, 1, Len(given))
  BY <1>8 DEF start
<1>10. left \in Seq(Rows) /\ Len(left) \in Nat
  BY <1>1, <1>2, <1>3
<1> QED
  BY <1>4, <1>5, <1>9, <1>10, Zenon DEF left

LEMMA AcceptedOffset ==
  ASSUME NEW q \in Query, NEW m \in Metas, Accepted(q, m)
  PROVE  Offset(q) \in 0 .. MaxSkip
BY LimitAssumption, NoneAssumption DEF Accepted, Parses, BoundedInt, Offset, OrElse, Query

LEMMA BoundedSkip ==
  ASSUME NEW q \in Query, Offset(q) \in 0 .. MaxSkip
  PROVE  ResponseSkip(q) = Offset(q)
BY LimitAssumption DEF ResponseSkip, Offset, Smaller, Larger

LEMMA StaticInit == Init => StaticOK
<1> SUFFICES ASSUME Init PROVE StaticOK
  OBVIOUS
<1>1. /\ stage = "idle" /\ writes = <<>> /\ scope = <<>> /\ received = <<>>
      /\ req = NoQuery /\ first = NoQuery
  BY DEF Init
<1>2. Given = <<>> /\ Place = 0 /\ Offset(first) = 0 /\ ~ Began
  BY <1>1 DEF Given, Reading, Place, Offset, OrElse, Began, NoQuery
<1> QED
  BY <1>1, <1>2 DEF StaticOK

LEMMA StaticFetch ==
  ASSUME Quiet, IInv, StaticOK, Fetch
  PROVE  StaticOK'
<1>1. /\ stage = "sent" /\ stage' = "fetched" /\ Accepted(req, meta)
      /\ page' = Slice(table, req, meta)
      /\ UNCHANGED <<table, meta, req, link, received, first, scope, writes>>
  BY DEF Fetch, Transition, history
<1>2. /\ table \in Seq(Rows) /\ received \in Seq(Rows) /\ req \in Query /\ meta \in Metas
      /\ Len(received) \in Nat /\ first \in Query
  BY DEF IInv, TypeOK
<1>3. /\ page' \in Seq(Rows) /\ Len(page') \in Nat /\ Offset(req) \in Nat
      /\ \A k \in 1 .. Len(page') :
           Offset(req) + k \in 1 .. Len(table) /\ page'[k] = table[Offset(req) + k]
  BY <1>1, <1>2, SliceElements
<1>4. /\ writes = <<>> /\ scope = table /\ Offset(req) = Offset(first) + Len(received)
      /\ ~ Began => received = <<>>
      /\ Began => Offset(first) \in 0 .. MaxSkip
      /\ Began => \A k \in 1 .. Len(received) :
                    Offset(first) + k \in 1 .. Len(table) /\ received[k] = table[Offset(first) + k]
  BY <1>1 DEF StaticOK, Place, Given, Reading, Quiet
<1>5. Offset(first) \in 0 .. MaxSkip
  <2>1. CASE Began
    BY <1>4, <2>1
  <2>2. CASE ~ Began
    BY <1>1, <1>2, <2>2, AcceptedOffset DEF Began
  <2> QED
    BY <2>1, <2>2
<1> DEFINE all == received \o page'
<1>6. /\ Len(all) = Len(received) + Len(page')
      /\ \A k \in 1 .. Len(received) + Len(page') :
           all[k] = IF k <= Len(received) THEN received[k] ELSE page'[k - Len(received)]
  BY <1>2, <1>3, ConcatProperties
<1>7. Given' = all /\ Place' = Offset(req) + Len(page') /\ Began' /\ Offset(first)' = Offset(first)
  BY <1>1 DEF Given, Reading, Place, Offset, Began
<1> HIDE DEF all
<1>8. Place' = Offset(first)' + Len(Given')
  BY <1>2, <1>3, <1>4, <1>5, <1>6, <1>7
<1>9. ASSUME NEW k \in 1 .. Len(all)
      PROVE  Offset(first) + k \in 1 .. Len(table) /\ all[k] = table[Offset(first) + k]
  <2>1. CASE k <= Len(received)
    <3>1. k \in 1 .. Len(received) /\ Began
      BY <1>2, <1>3, <1>4, <1>6, <2>1
    <3> QED
      BY <1>4, <1>6, <2>1, <3>1
  <2>2. CASE k > Len(received)
    <3>1. k - Len(received) \in 1 .. Len(page')
      BY <1>2, <1>3, <1>6, <2>2
    <3>2. Offset(req) + (k - Len(received)) = Offset(first) + k
      BY <1>2, <1>4, <1>5
    <3>3. all[k] = page'[k - Len(received)]
      BY <1>6, <2>2
    <3> QED
      BY <1>1, <1>3, <3>1, <3>2, <3>3
  <2> QED
    BY <1>2, <2>1, <2>2
<1> QED
  BY <1>1, <1>4, <1>5, <1>7, <1>8, <1>9 DEF StaticOK

LEMMA StaticRespond ==
  ASSUME Quiet, IInv, StaticOK, Respond
  PROVE  StaticOK'
<1>1. /\ stage \in {"fetched", "counted"} /\ stage' = "answered"
      /\ link' = NextLink(req, meta, page, total) /\ received' = received \o page
      /\ UNCHANGED <<table, meta, req, page, total, first, scope, writes>>
  BY DEF Respond, Transition
<1>2. Accepted(req, meta) /\ req \in Query /\ meta \in Metas
  BY <1>1 DEF IInv, TypeOK, Answered
<1>3. link' # None => Offset(link') = Offset(req) + Len(page)
  BY <1>1, <1>2, LinkContinues
<1>4. Given' = Given /\ Place' = Place /\ Began /\ Began' /\ Offset(first)' = Offset(first)
  BY <1>1 DEF Given, Reading, Place, Offset, Began
<1>5. link' # None => Position' = Place'
  BY <1>1, <1>3 DEF Position, Place, Offset
<1> QED
  BY <1>1, <1>4, <1>5 DEF StaticOK

LEMMA WriterDisturbs == ASSUME TypeOK, Writer PROVE ~ Quiet' /\ stage' = stage
                        /\ stage \in {"sent", "fetched", "counted", "answered"}
<1>1. PICK kind \in {"insert", "delete", "move"} : Write(kind)
  BY DEF Writer, Insert, Delete, Move
<1>2. /\ writes' = Append(writes, kind) /\ stage' = stage
      /\ stage \in {"sent", "fetched", "counted", "answered"}
  BY <1>1 DEF Write
<1>3. writes \in Seq({"insert", "delete", "move"})
  BY DEF TypeOK
<1>4. Len(writes') = Len(writes) + 1 /\ Len(writes) \in Nat
  BY <1>2, <1>3, AppendProperties
<1> QED
  BY <1>2, <1>4 DEF Quiet

\* What was written stays written.
LEMMA StaysWritten == TypeOK /\ [Next]_vars /\ ~ Quiet => ~ Quiet'
<1> SUFFICES ASSUME TypeOK, [Next]_vars, ~ Quiet PROVE ~ Quiet'
  OBVIOUS
<1>1. ASSUME Writer PROVE ~ Quiet'
  BY <1>1, WriterDisturbs
<1>2. ASSUME ~ Writer PROVE writes' = writes
  BY <1>2 DEF Next, vars, Start, Service, Client, Fetch, Reject, Count, Respond, Follow, Finish, history
<1> QED
  BY <1>1, <1>2 DEF Quiet

LEMMA StaticStep == IInv /\ StaticOK /\ [Next]_vars => StaticOK'
<1> SUFFICES ASSUME IInv, StaticOK, [Next]_vars, Quiet PROVE StaticOK'
  BY StaysWritten DEF IInv, StaticOK
<1>1. ASSUME NEW q \in Requests, Start(q) PROVE StaticOK'
  <2>1. /\ stage = "idle" /\ stage' = "sent" /\ req' = q /\ first' = q /\ scope' = table
        /\ received' = received /\ writes' = writes /\ table' = table /\ page' = page
    BY <1>1 DEF Start, Transition
  <2>2. received = <<>>
    BY <2>1 DEF StaticOK, Began, Given, Reading, Place
  <2>3. Given' = <<>> /\ Place' = Offset(first)' /\ ~ Began'
    BY <2>1, <2>2 DEF Given, Reading, Place, Offset, Began
  <2>4. Offset(first)' \in Int
    BY <2>1, RequestAssumption, NoneAssumption DEF Offset, OrElse, Query
  <2> QED
    BY <2>1, <2>3, <2>4 DEF StaticOK
<1>2. CASE Reject
  <2>1. /\ stage = "sent" /\ stage' = "rejected"
        /\ UNCHANGED <<table, meta, req, page, total, link, received, first, scope, writes>>
    BY <1>2 DEF Reject, Transition, history
  <2>2. Given' = Given /\ Place' = Place /\ Began' = Began /\ Offset(first)' = Offset(first)
    BY <2>1 DEF Given, Reading, Place, Offset, Began
  <2> QED
    BY <2>1, <2>2 DEF StaticOK
<1>3. CASE Count
  <2>1. /\ stage = "fetched" /\ stage' = "counted"
        /\ UNCHANGED <<table, meta, req, page, link, received, first, scope, writes>>
    BY <1>3 DEF Count, Transition, history
  <2>2. Given' = Given /\ Place' = Place /\ Began' = Began /\ Offset(first)' = Offset(first)
    BY <2>1 DEF Given, Reading, Place, Offset, Began
  <2> QED
    BY <2>1, <2>2 DEF StaticOK
<1>4. CASE Follow
  <2>1. /\ stage = "answered" /\ stage' = "sent" /\ link # None /\ req' = link
        /\ UNCHANGED <<table, meta, page, total, link, received, first, scope, writes>>
    BY <1>4 DEF Follow, Transition, history
  <2>2. Given' = Given /\ Place' = Position /\ Began /\ Offset(first)' = Offset(first)
    BY <2>1 DEF Given, Reading, Place, Position, Offset, Began
  <2>3. link # first /\ Offset(link) >= Offset(first)
    <3>1. Offset(link) > Offset(req) /\ Offset(req) >= Offset(first)
      BY <2>1 DEF IInv, LinkOK, StaticOK
    <3>2. link \in Query /\ first \in Query /\ req \in Query
      BY <2>1 DEF IInv, TypeOK
    <3>3. Offset(link) \in Int /\ Offset(first) \in Int /\ Offset(req) \in Int
      BY <3>2, NoneAssumption DEF Offset, OrElse, Query
    <3>4. Offset(link) > Offset(first)
      BY <3>1, <3>3
    <3> QED
      BY <3>3, <3>4
  <2>4. Began' /\ Offset(req)' >= Offset(first)'
    BY <2>1, <2>3 DEF Began, Offset
  <2> QED
    BY <2>1, <2>2, <2>4 DEF StaticOK
<1>5. CASE Finish
  <2>1. /\ stage = "answered" /\ stage' = "done" /\ link = None
        /\ UNCHANGED <<table, meta, req, page, total, link, received, first, scope, writes>>
    BY <1>5 DEF Finish, Transition, history
  <2>2. Given' = Given /\ Place' = Place /\ Began /\ Began' /\ Offset(first)' = Offset(first)
    BY <2>1 DEF Given, Reading, Place, Offset, Began
  <2> QED
    BY <2>1, <2>2 DEF StaticOK
<1>6. CASE Writer
  BY <1>6, WriterDisturbs DEF IInv, StaticOK
<1>7. CASE UNCHANGED vars
  BY <1>7 DEF vars, StaticOK, Place, Position, Began, Given, Reading, Offset, Quiet
<1> QED
  BY <1>1, <1>2, <1>3, <1>4, <1>5, <1>6, <1>7, StaticFetch, StaticRespond
     DEF Next, Service, Client

\* A page in memory, and the end of a walk, in terms of the ordered scan.
LEMMA ScanDeliver ==
  ASSUME Quiet, IInv, StaticOK, StaticOK', IInv', Respond
  PROVE  Scan!Deliver
<1>1. /\ stage \in {"fetched", "counted"} /\ stage' = "answered" /\ received' = received \o page
      /\ UNCHANGED <<table, meta, req, page, total, first, scope, writes>>
  BY DEF Respond, Transition
<1>2. /\ received \in Seq(Rows) /\ page \in Seq(Rows) /\ received' \in Seq(Rows)
      /\ scope \in Seq(Rows) /\ first \in Query
  BY DEF IInv, TypeOK
<1>3. /\ Offset(first) \in 0 .. MaxSkip
      /\ \A k \in 1 .. Len(received') :
           Offset(first) + k \in 1 .. Len(scope) /\ received'[k] = scope[Offset(first) + k]
  BY <1>1 DEF StaticOK, Began, Given, Reading, Offset, Quiet
<1>4. ResponseSkip(first) = Offset(first) /\ Offset(first) \in Nat
  BY <1>2, <1>3, BoundedSkip
<1> DEFINE left == SubSeq(scope, Offset(first) + 1, Len(scope))
<1>5. /\ Len(left) \in Nat /\ Len(received') \in 0 .. Len(left)
      /\ received' = SubSeq(left, 1, Len(received'))
  BY <1>2, <1>3, <1>4, Beginning
<1>6. Len(received) \in Nat /\ Len(page) \in Nat /\ Len(received') = Len(received) + Len(page)
  BY <1>1, <1>2, ConcatProperties
<1> HIDE DEF left
<1>7. \E n \in Len(received) .. Len(left) : received' = SubSeq(left, 1, n)
  BY <1>5, <1>6
<1>8. SubSeq(scope, ResponseSkip(first) + 1, Len(scope)) = left
  BY <1>4 DEF left
<1> QED
  BY <1>1, <1>7, <1>8 DEF Scan!Deliver, ResponseSkip, Limit, Wanted, Quiet

LEMMA ScanClose ==
  ASSUME Quiet, IInv, StaticOK, Progress, Finish
  PROVE  Scan!Close
<1>1. /\ stage = "answered" /\ stage' = "done" /\ link = None
      /\ UNCHANGED <<table, meta, req, page, total, link, received, first, scope, writes>>
  BY DEF Finish, Transition, history
<1>2. /\ received \in Seq(Rows) /\ scope \in Seq(Rows) /\ first \in Query /\ req \in Query
      /\ meta \in Metas /\ Accepted(req, meta) /\ page \in Seq(Rows)
      /\ Len(page) \in Nat /\ Len(received) \in Nat
  BY <1>1 DEF IInv, TypeOK, Answered
<1>3. /\ writes = <<>> /\ scope = table /\ Offset(first) \in 0 .. MaxSkip
      /\ Offset(req) + Len(page) = Offset(first) + Len(received)
      /\ \A k \in 1 .. Len(received) :
           Offset(first) + k \in 1 .. Len(scope) /\ received[k] = scope[Offset(first) + k]
  BY <1>1 DEF StaticOK, Began, Given, Reading, Place, Quiet
<1>4. /\ ResponseSkip(first) = Offset(first) /\ Offset(first) \in Nat
      /\ ResponseSkip(req) = Offset(req) /\ Offset(req) \in Nat
  BY <1>2, <1>3, BoundedSkip, AcceptedOffset, LimitAssumption
<1> DEFINE left == SubSeq(scope, Offset(first) + 1, Len(scope))
<1>5. /\ left \in Seq(Rows) /\ Len(left) \in Nat /\ Len(received) \in 0 .. Len(left)
      /\ received = SubSeq(left, 1, Len(received))
      /\ \A k \in 1 .. Len(left) :
           Offset(first) + k \in 1 .. Len(scope) /\ left[k] = scope[Offset(first) + k]
  <2>1. \A k \in 1 .. Len(received) :
          Offset(first) + k \in 1 .. Len(scope) /\ received[k] = scope[Offset(first) + k]
    BY <1>3
  <2>2. scope \in Seq(Rows) /\ received \in Seq(Rows) /\ Offset(first) \in Nat
    BY <1>2, <1>4
  <2> QED
    BY <2>1, <2>2, Beginning, Zenon
<1> HIDE DEF left
<1>6. \A kind : ~ Wrote(kind)
  BY <1>3 DEF Wrote
<1>7. \/ Limit(first, meta) = 0
      \/ Truncated
      \/ \A r \in Rows : Expected(r) => Among(r, received)
  BY <1>1, <1>6 DEF Progress, BehindOK
<1>8. ASSUME \A r \in Rows : Expected(r) => Among(r, received) PROVE received = left
  <2>1. Injective(scope)
    BY <1>3, <1>6 DEF Progress, AheadOK
  <2>2. Len(received) = Len(left)
    <3>1. SUFFICES ASSUME Len(received) < Len(left) PROVE FALSE
      BY <1>2, <1>5
    <3> DEFINE next == Len(received) + 1
    <3>2. next \in 1 .. Len(left)
      BY <1>2, <1>5, <3>1
    <3>3. /\ Offset(first) + next \in 1 .. Len(scope) /\ Offset(first) + next > Offset(first)
          /\ scope[Offset(first) + next] \in Rows
      BY <1>2, <1>4, <1>5, <3>2
    <3>4. PICK k \in 1 .. Len(received) : received[k] = scope[Offset(first) + next]
      BY <1>8, <3>3 DEF Expected, Among
    <3>5. Offset(first) + k = Offset(first) + next
      BY <1>3, <2>1, <3>3, <3>4 DEF Injective
    <3> QED
      BY <1>2, <1>4, <3>4, <3>5
  <2>3. \A k \in 1 .. Len(left) : received[k] = left[k]
    BY <1>3, <1>5, <2>2
  <2> QED
    BY <1>2, <1>5, <2>2, <2>3, SeqEqual
<1>9. SubSeq(scope, ResponseSkip(first) + 1, Len(scope)) = left
  BY <1>4 DEF left
<1>10. \/ Limit(first, meta) = 0
       \/ received = left
       \/ Len(received) >= MaxSkip + 1 - ResponseSkip(first)
  <2>1. CASE Truncated
    <3>1. Offset(req) + Len(page) > MaxSkip
      BY <1>4, <2>1 DEF Truncated
    <3> QED
      BY <1>2, <1>3, <1>4, <3>1, LimitAssumption
  <2> QED
    BY <1>7, <1>8, <2>1
<1> QED
  BY <1>1, <1>9, <1>10 DEF Scan!Close, ResponseSkip, Limit, Wanted, Quiet

\* Until somebody writes, every step of a walk is a step of the ordered scan, or none.  Its
\* liveness, Ends, follows from WalkEnds, which rests on fairness.
THEOREM WalkIsOrderedScan == Spec => Scan!Safety
<1>1. Init => Scan!Init
  <2> SUFFICES ASSUME Init PROVE Scan!Init
    OBVIOUS
  <2>1. stage = "idle" /\ scope = <<>> /\ received = <<>> /\ first = NoQuery /\ Quiet
    BY DEF Init, Quiet
  <2>2. SubSeq(scope, ResponseSkip(first) + 1, Len(scope)) = <<>>
    <3>1. ResponseSkip(first) = 0
      BY <2>1, LimitAssumption DEF NoQuery, ResponseSkip, OrElse, Smaller, Larger
    <3>2. Len(scope) = 0
      BY <2>1
    <3> QED
      BY <3>1, <3>2, SubSeqEmpty
  <2> QED
    BY <2>1, <2>2 DEF Scan!Init
<1>2. ASSUME IInv, IInv', StaticOK, StaticOK', Progress, [Next]_vars, Quiet
      PROVE  Scan!Next \/ UNCHANGED Scan!vars
  <2>1. ASSUME NEW q \in Requests, Start(q) PROVE Scan!Open
    <3>1. /\ stage = "idle" /\ stage' = "sent" /\ first' = q /\ scope' = table
          /\ received' = received /\ Quiet'
      BY <1>2, <2>1 DEF Start, Transition, Quiet
    <3>2. q \in Query /\ table \in Seq(Rows)
      BY <1>2, RequestAssumption DEF IInv, TypeOK
    <3>3. ResponseSkip(q) \in Nat
      BY <3>2, LimitAssumption, NoneAssumption DEF ResponseSkip, OrElse, Smaller, Larger, Query
    <3>4. SubSeq(table, ResponseSkip(q) + 1, Len(table)) \in Seq(Rows)
      <4>1. /\ Len(table) \in Int /\ ResponseSkip(q) + 1 \in Int
            /\ \A k \in ResponseSkip(q) + 1 .. Len(table) : table[k] \in Rows
        BY <3>2, <3>3
      <4> QED
        BY <4>1, SubSeqProperties
    <3>5. MaxSkip + 1 - ResponseSkip(q) \in Int
      BY <3>3, LimitAssumption
    <3>6. ResponseSkip(first') = ResponseSkip(q)
      BY <3>1
    <3> QED
      BY <1>2, <3>1, <3>4, <3>5, <3>6 DEF Scan!Open
  <2>2. ASSUME Reject PROVE Scan!Fail
    BY <1>2, <2>2 DEF Reject, Transition, history, Scan!Fail, ResponseSkip, Limit, Wanted, Quiet
  <2>3. ASSUME Fetch \/ Count \/ Follow PROVE UNCHANGED Scan!vars
    BY <1>2, <2>3
       DEF Fetch, Count, Follow, Transition, history, Scan!vars, ResponseSkip, Limit, Wanted, Quiet
  <2>4. ASSUME Respond PROVE Scan!Deliver
    BY <1>2, <2>4, ScanDeliver
  <2>5. ASSUME Finish PROVE Scan!Close
    BY <1>2, <2>5, ScanClose
  <2>6. ASSUME Writer PROVE Scan!Disturb
    <3>1. ~ Quiet' /\ stage' = stage /\ stage \in {"sent", "fetched", "counted", "answered"}
      BY <1>2, <2>6, WriterDisturbs DEF IInv
    <3> QED
      BY <1>2, <3>1 DEF Scan!Disturb
  <2>7. CASE UNCHANGED vars
    BY <2>7 DEF vars, Scan!vars, ResponseSkip, Limit, Wanted, Quiet
  <2> QED
    BY <1>2, <2>1, <2>2, <2>3, <2>4, <2>5, <2>6, <2>7 DEF Next, Service, Client, Scan!Next
<1>3. ASSUME IInv, [Next]_vars, ~ Quiet PROVE UNCHANGED Scan!vars
  <2>1. ~ Quiet'
    BY <1>3, StaysWritten DEF IInv
  <2> QED
    BY <1>3, <2>1 DEF Scan!vars
<1>4. IInv /\ IInv' /\ StaticOK /\ StaticOK' /\ Progress /\ [Next]_vars => [Scan!Next]_Scan!vars
  BY <1>2, <1>3
<1>5. IInv /\ StaticOK /\ [Next]_vars => StaticOK'
  BY StaticStep
<1> QED
  BY <1>1, <1>4, <1>5, StaticInit, Inductive, WalkProgresses, PTL DEF Spec, Scan!Safety

=============================================================================
