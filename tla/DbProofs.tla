------------------------------ MODULE DbProofs ------------------------------
(***************************************************************************)
(* Proofs that Inv is an invariant of Db, for every set of keys and values *)
(* (exact or not), every hash function, every file size and any number of  *)
(* crashes, those inside file_init included.                               *)
(***************************************************************************)
EXTENDS DbInv, TLAPS, SequenceTheorems

\* What RemoveAt does to a chain: hash_del drops one record, the others keep
\* their order.
LEMMA RemoveAtProperties ==
  ASSUME NEW S, NEW s \in Seq(S), NEW p \in 1 .. Len(s)
  PROVE  /\ RemoveAt(s, p) \in Seq(S)
         /\ Len(RemoveAt(s, p)) = Len(s) - 1
         /\ \A i \in 1 .. Len(s) - 1 :
              RemoveAt(s, p)[i] = IF i < p THEN s[i] ELSE s[i + 1]
<1> DEFINE f == SubSeq(s, 1, p - 1)
           g == SubSeq(s, p + 1, Len(s))
<1>1. /\ f \in Seq(S) /\ Len(f) = p - 1
      /\ \A i \in 1 .. p - 1 : f[i] = s[i]
  OBVIOUS
<1>2. /\ g \in Seq(S) /\ Len(g) = Len(s) - p
      /\ \A i \in 1 .. Len(s) - p : g[i] = s[p + i]
  OBVIOUS
<1>3. RemoveAt(s, p) = f \o g
  BY DEF RemoveAt
<1> HIDE DEF f, g
<1>4. /\ f \o g \in Seq(S)
      /\ Len(f \o g) = Len(s) - 1
  <2>1. f \o g \in Seq(S)
    BY <1>1, <1>2
  <2>2. Len(f \o g) = Len(f) + Len(g)
    BY <1>1, <1>2, ConcatProperties, Zenon
  <2> QED BY <2>1, <2>2, <1>1, <1>2
<1>5. ASSUME NEW i \in 1 .. Len(s) - 1
      PROVE  (f \o g)[i] = IF i < p THEN s[i] ELSE s[i + 1]
  <2>1. CASE i < p
    BY <2>1, <1>1, <1>2
  <2>2. CASE i >= p
    <3>1. (f \o g)[i] = g[i - (p - 1)]
      BY <2>2, <1>1, <1>2
    <3>2. i - (p - 1) \in 1 .. Len(s) - p /\ p + (i - (p - 1)) = i + 1
      BY <2>2
    <3> QED BY <2>2, <3>1, <3>2, <1>2
  <2>3. i < p \/ i >= p
    OBVIOUS
  <2> QED BY <2>1, <2>2, <2>3
<1> QED BY <1>3, <1>4, <1>5

\* What ReplaceAt does to a chain: hash_put puts a record in place of another.
LEMMA ReplaceAtProperties ==
  ASSUME NEW S, NEW s \in Seq(S), NEW p \in 1 .. Len(s), NEW e \in S
  PROVE  /\ ReplaceAt(s, p, e) \in Seq(S)
         /\ Len(ReplaceAt(s, p, e)) = Len(s)
         /\ \A i \in 1 .. Len(s) :
              ReplaceAt(s, p, e)[i] = IF i = p THEN e ELSE s[i]
  BY DEF ReplaceAt

\* What Cons does to a chain: hash_put adds a record at the head of its bucket.
LEMMA ConsProperties ==
  ASSUME NEW S, NEW s \in Seq(S), NEW e \in S
  PROVE  /\ Cons(e, s) \in Seq(S)
         /\ Len(Cons(e, s)) = Len(s) + 1
         /\ Cons(e, s)[1] = e
         /\ \A i \in 1 .. Len(s) : Cons(e, s)[i + 1] = s[i]
  BY DEF Cons

\* PosOf finds a record that is in the chain.
LEMMA PosOfProperties ==
  ASSUME NEW S, NEW s \in Seq(S), NEW a, \E i \in 1 .. Len(s) : s[i] = a
  PROVE  PosOf(s, a) \in 1 .. Len(s) /\ s[PosOf(s, a)] = a
  BY DEF PosOf
-----------------------------------------------------------------------------
\* The arithmetic facts about the layout of the file that steps need.
LEMMA ConstFacts ==
  /\ RecHdr \in Nat /\ RecHdr >= 1
  /\ Base \in Nat /\ Base >= 1
  /\ DbSize \in Nat /\ Base <= DbSize
  /\ 0 \in Bucket
  /\ Addr \subseteq Nat /\ 0 \notin Addr
  /\ \A a \in Addr : a >= Base
  BY DbConstants DEF Bucket, Addr

(***************************************************************************)
(* Frames: what a step that leaves the table, or the file, alone preserves *)
(***************************************************************************)
\* A step that stores nothing in the table keeps it sound.
LEMMA TableFrame == TableInv /\ UNCHANGED <<buckets, recs, inuse, chain>> => TableInv'
  BY DEF TableInv, ChainsSound, LinksFollowChain, ChainsDisjoint, LinkedRecordsLive, LinkAt

\* The empty store, before the first db_init, satisfies the invariant.
LEMMA InitInv == Init => Inv
<1> SUFFICES ASSUME Init PROVE Inv
  OBVIOUS
<1> USE DbConstants DEF Init, NoLinks, NoRecs, NoChains, NoOp, NoChk, NoReply, Success
<1>1. TypeOK
  <2>1. ZeroRec \in [next : Link, del : BOOLEAN, key : Bytes, val : Bytes]
    BY DEF ZeroRec, Link, Bytes
  <2>2. chain \in [Bucket -> Seq(Addr)] /\ buckets \in [Bucket -> Link] /\ 0 \in Bucket
    BY DEF Link, Bucket
  <2>3. recs \in [Addr -> [next : Link, del : BOOLEAN, key : Bytes, val : Bytes]]
    BY <2>1
  <2>4. op \in [cmd : {"none", "set", "get", "del"}, key : Bytes, val : Bytes]
    BY DEF Bytes
  <2> QED BY <2>2, <2>3, <2>4 DEF TypeOK, PcStates, Link
<1>2. \A b \in Bucket : Len(chain[b]) = 0
  OBVIOUS
<1>3. TableInv
  BY <1>2 DEF TableInv, ChainsSound, LinksFollowChain, ChainsDisjoint,
     LinkedRecordsLive, LinkAt
<1>4. OpInv
  BY DEF OpInv, CursorInv, RecInv, NewInv, Before, OpStates, CreateStates
<1>5. FileInv
  BY DEF FileInv, HdrInv, SpaceInv, InFileInit, OpStates, CreateStates
<1> QED BY <1>1, <1>3, <1>4, <1>5 DEF Inv

\* hash_init keeps the invariant: it only makes an empty table ready.
LEMMA HashInitInv == Inv /\ hash_init => Inv'
<1> SUFFICES ASSUME Inv, hash_init PROVE Inv'
  OBVIOUS
<1> USE DEF Inv, hash_init, Goto, store, table, locals
<1>1. TypeOK'
  BY DEF TypeOK, PcStates
<1>2. TableInv'
  BY TableFrame
<1>3. OpInv'
  BY DEF OpInv, CursorInv, RecInv, NewInv, Before, OpStates, CreateStates
<1>4. FileInv'
  BY DEF FileInv, InFileInit
<1> QED BY <1>1, <1>2, <1>3, <1>4

\* file_init up to mmap keeps the invariant: a created file reads as zeros.
LEMMA FileOpenInv == Inv /\ file_open => Inv'
<1> SUFFICES ASSUME Inv, file_open PROVE Inv'
  OBVIOUS
<1> USE DEF Inv, file_open, table, locals
<1>1. TypeOK'
  BY DEF TypeOK, PcStates, InFileInit
<1>2. TableInv'
  BY TableFrame
<1>3. OpInv'
  BY DEF OpInv, CursorInv, RecInv, NewInv, Before, OpStates, CreateStates
<1>4. HdrInv'
  BY DEF FileInv, HdrInv, InFileInit, OpStates, CreateStates, LinkedIn
<1>5. SpaceInv'
  BY DEF FileInv, SpaceInv, SizeAt, rec_size
<1> QED BY <1>1, <1>2, <1>3, <1>4, <1>5 DEF FileInv

\* rec->next of a linked record is 0 or a record linked in the same bucket.
LEMMA NextLinked ==
  ASSUME TypeOK, LinksFollowChain, NEW b \in Bucket, NEW a, LinkedIn(b, a)
  PROVE  a \in Addr /\ (recs[a].next = 0 \/ LinkedIn(b, recs[a].next))
<1>1. PICK i \in 1 .. Len(chain[b]) : chain[b][i] = a
  BY DEF LinkedIn
<1>2. chain[b] \in Seq(Addr)
  BY DEF TypeOK
<1>3. recs[a].next = LinkAt(chain[b], i + 1)
  BY <1>1 DEF LinksFollowChain
<1>4. CASE i + 1 <= Len(chain[b])
  BY <1>1, <1>2, <1>3, <1>4 DEF LinkAt, LinkedIn
<1>5. CASE ~(i + 1 <= Len(chain[b]))
  BY <1>1, <1>2, <1>3, <1>5 DEF LinkAt
<1> QED BY <1>4, <1>5

\* db_buckets[b] is 0 or a record linked in bucket b.
LEMMA HeadLinked ==
  ASSUME TypeOK, LinksFollowChain, NEW b \in Bucket
  PROVE  buckets[b] = 0 \/ LinkedIn(b, buckets[b])
<1>1. chain[b] \in Seq(Addr) /\ buckets[b] = LinkAt(chain[b], 1)
  BY DEF TypeOK, LinksFollowChain
<1> QED BY <1>1 DEF LinkAt, LinkedIn

\* *pp is 0 or a record linked in the bucket of the operation's key.
LEMMA AtLinked ==
  ASSUME Inv, pc \in Before
  PROVE  idx \in Bucket /\ (At(pp) = 0 \/ LinkedIn(idx, At(pp)))
<1>1. op.key \in Keys /\ (pp # 0 => LinkedIn(idx, pp))
  BY DEF Inv, OpInv, CursorInv
<1>2. idx \in Bucket
  BY <1>1, DbConstants DEF idx
<1> QED BY <1>1, <1>2, HeadLinked, NextLinked DEF Inv, TableInv, ChainsSound, At

\* A linked record is allocated, not deleted and completely written.
LEMMA LinkedLive ==
  ASSUME TypeOK, TableInv, NEW b \in Bucket, NEW a, LinkedIn(b, a)
  PROVE  /\ a \in inuse /\ a \in Addr /\ a # 0
         /\ recs[a].key \in Keys /\ recs[a].val \in Vals /\ ~recs[a].del
<1>1. PICK i \in 1 .. Len(chain[b]) : chain[b][i] = a
  BY DEF LinkedIn
<1>2. /\ a \in inuse /\ recs[a].key \in Keys /\ recs[a].val \in Vals /\ ~recs[a].del
  BY <1>1 DEF TableInv, LinkedRecordsLive
<1> QED BY <1>2, DbConstants DEF TypeOK, Addr

\* The size of a record is a number larger than 0.
LEMMA SizeAtType ==
  ASSUME TypeOK, NEW a \in Addr
  PROVE  SizeAt(a) \in Nat /\ SizeAt(a) >= RecHdr /\ RecHdr >= 1
<1>1. recs[a].key \in Bytes /\ recs[a].val \in Bytes
  BY DEF TypeOK
<1>2. Len(recs[a].key) \in Nat /\ Len(recs[a].val) \in Nat
  BY <1>1, DbConstants
<1>3. \A m, n \in Nat : RecHdr + m + n \in Nat /\ RecHdr + m + n >= RecHdr
  BY ConstFacts
<1>4. SizeAt(a) = RecHdr + Len(recs[a].key) + Len(recs[a].val)
  BY DEF SizeAt, RecSize
<1> QED BY <1>2, <1>3, <1>4, ConstFacts

\* The stores that initialise a new file's header keep the invariant.
LEMMA FileNewInv == Inv /\ file_new => Inv'
<1> SUFFICES ASSUME Inv, file_new PROVE Inv'
  OBVIOUS
<1> USE DEF Inv, SetHdr, Goto, table, locals
<1>1. pc \in InFileInit /\ db_file
  BY DEF file_new, InFileInit, FileInv
<1>2. chain = NoChains /\ inuse = {}
  BY <1>1 DEF FileInv, HdrInv
<1>3. TypeOK'
  <2>1. hdr' \in [magic : BOOLEAN, version : {0, 1}, num_rec : Nat, num_del : Nat,
                  next_offset : Nat]
    <3>1. hdr \in [magic : BOOLEAN, version : {0, 1}, num_rec : Nat, num_del : Nat,
                   next_offset : Nat]
      BY DEF TypeOK
    <3>2. \/ hdr' = [hdr EXCEPT !.magic = TRUE] \/ hdr' = [hdr EXCEPT !.version = 1]
          \/ hdr' = [hdr EXCEPT !.num_rec = 0] \/ hdr' = [hdr EXCEPT !.next_offset = Base]
          \/ hdr' = hdr
      BY DEF file_new
    <3>3. Base \in Nat
      BY ConstFacts
    <3>4. CASE hdr' = [hdr EXCEPT !.magic = TRUE]
      BY <3>1, <3>4
    <3>5. CASE hdr' = [hdr EXCEPT !.version = 1]
      BY <3>1, <3>5
    <3>6. CASE hdr' = [hdr EXCEPT !.num_rec = 0]
      BY <3>1, <3>6
    <3>7. CASE hdr' = [hdr EXCEPT !.next_offset = Base]
      BY <3>1, <3>3, <3>7
    <3> QED BY <3>1, <3>2, <3>4, <3>5, <3>6, <3>7
  <2>2. buckets' \in [Bucket -> Link]
    BY DEF file_new, TypeOK, NoLinks, Link
  <2>3. pc' \in PcStates
    BY SMTT(30) DEF file_new, PcStates, InFileInit
  <2> QED BY <2>1, <2>2, <2>3 DEF file_new, TypeOK
<1>4. TableInv'
  <2>1. \A b \in Bucket : Len(chain[b]) = 0
    BY <1>2 DEF NoChains
  <2>2. buckets' = buckets \/ buckets' = NoLinks
    BY DEF file_new
  <2>3. chain' = chain /\ recs' = recs /\ inuse' = inuse
    BY DEF file_new
  <2> QED BY <2>1, <2>2, <2>3 DEF TableInv, ChainsSound, LinksFollowChain,
          ChainsDisjoint, LinkedRecordsLive, LinkAt, NoLinks
<1>5. OpInv'
  BY <1>1 DEF file_new, OpInv, CursorInv, RecInv, NewInv, Before, OpStates, CreateStates
<1>6. FileInv'
  <2>1. HdrInv'
    <3>1. hdr \in [magic : BOOLEAN, version : {0, 1}, num_rec : Nat, num_del : Nat,
                   next_offset : Nat]
      BY DEF TypeOK
    <3>2. /\ exists' = exists /\ chain' = chain /\ inuse' = inuse /\ chk' = chk
          /\ NoChains' = NoChains
      BY DEF file_new, NoChains
    <3>3. HdrInv
      BY <1>1 DEF FileInv
    <3> QED BY <1>1, <1>2, <3>1, <3>2, <3>3 DEF file_new, HdrInv, InFileInit, OpStates,
            CreateStates, LinkedIn
  <2>2. SpaceInv'
    BY <1>1, <1>2, DbConstants DEF file_new, FileInv, SpaceInv, SizeAt, TypeOK
  <2> QED BY <1>1, <2>1, <2>2 DEF FileInv
<1> QED BY <1>3, <1>4, <1>5, <1>6

\* file_check keeps the invariant: it follows linked records only, and finds
\* none truncated.
LEMMA FileCheckInv == Inv /\ file_check => Inv'
<1> SUFFICES ASSUME Inv, file_check PROVE Inv'
  OBVIOUS
<1> USE DEF Inv, Goto, store, table
<1>0. 0 \in Bucket
  BY ConstFacts
<1>1. TypeOK'
  <2>1. chk' \in [b : Bucket, link : Link]
    BY <1>0 DEF file_check, TypeOK, NoChk, Link
  <2>2. pc' \in PcStates
    BY DEF file_check, PcStates
  <2> QED BY <2>1, <2>2 DEF file_check, TypeOK
<1>2. TableInv'
  BY TableFrame DEF file_check
<1>3. OpInv'
  BY DEF file_check, OpInv, CursorInv, RecInv, NewInv, Before, OpStates, CreateStates
<1>4. ASSUME db_file PROVE HdrInv' /\ SpaceInv'
  <2> USE <1>4
  <2>1. chk'.link # 0 => \E b \in Bucket : LinkedIn(b, chk'.link)
    BY <1>0, HeadLinked, NextLinked DEF file_check, TypeOK, TableInv, ChainsSound,
       FileInv, HdrInv, NoChk
  <2>2. pc' = "failed" => hdr.next_offset = 0
    <3>1. CASE pc = "check"
      BY <3>1 DEF file_check, FileInv, HdrInv
    <3>2. CASE pc = "check_chain" /\ chk.link # 0
      <4>1. PICK b \in Bucket : LinkedIn(b, chk.link)
        BY <3>2 DEF FileInv, HdrInv
      <4>2. chk.link \in inuse /\ chk.link \in Addr
        BY <4>1, LinkedLive
      <4>3. chk.link + SizeAt(chk.link) <= DbSize
        <5>1. chk.link + SizeAt(chk.link) <= hdr.next_offset /\ hdr.next_offset <= DbSize
          BY <4>2 DEF FileInv, SpaceInv
        <5>2. hdr.next_offset \in Nat
          BY DEF TypeOK
        <5>3. chk.link \in Nat /\ SizeAt(chk.link) \in Nat /\ DbSize \in Nat
          BY ZenonT(30), <4>2, SizeAtType, ConstFacts
        <5> HIDE DEF SizeAt
        <5> QED BY <5>1, <5>2, <5>3
      <4>4. ~Truncated(chk.link)
        <5>1. /\ chk.link \in Nat /\ SizeAt(chk.link) \in Nat /\ RecHdr \in Nat
              /\ SizeAt(chk.link) >= RecHdr /\ DbSize \in Nat
          BY <4>2, SizeAtType, ConstFacts
        <5>2. Truncated(chk.link) <=> \/ chk.link + RecHdr > DbSize
                                      \/ chk.link + SizeAt(chk.link) > DbSize
          BY DEF Truncated, SizeAt
        <5> QED BY <4>3, <5>1, <5>2
      <4> QED BY <4>4, <3>2 DEF file_check
    <3> QED BY <3>1, <3>2 DEF file_check
  <2>3. pc' = "failed" => chk'.link = 0
    <3> SUFFICES ASSUME pc' = "failed", chk'.link # 0 PROVE FALSE
      OBVIOUS
    <3>1. PICK b \in Bucket : LinkedIn(b, chk'.link)
      BY <2>1
    <3>2. PICK a \in inuse : a = chk'.link
      BY <3>1, LinkedLive
    <3>3. a + SizeAt(a) <= 0
      BY <2>2 DEF FileInv, SpaceInv
    <3>4. a \in Addr
      BY DEF TypeOK
    <3>5. a \in Nat /\ SizeAt(a) \in Nat /\ SizeAt(a) >= RecHdr /\ RecHdr \in Nat /\ RecHdr >= 1
      BY <3>4, SizeAtType, ConstFacts
    <3> QED BY <3>3, <3>5
  <2>4. pc' \in {"failed", "check_chain", "idle"} /\ (pc' = "idle" => chk'.link = 0)
    BY DEF file_check, NoChk
  <2>5. HdrInv'
    BY <2>1, <2>2, <2>3, <2>4 DEF file_check, FileInv, HdrInv, InFileInit, OpStates, CreateStates,
       LinkedIn
  <2>6. SpaceInv'
    BY DEF file_check, FileInv, SpaceInv, SizeAt, rec_size
  <2> QED BY <2>5, <2>6
<1>5. pc' \notin InFileInit
  BY DEF file_check, InFileInit
<1> QED BY <1>1, <1>2, <1>3, <1>4, <1>5 DEF FileInv
-----------------------------------------------------------------------------
(***************************************************************************)
(* The walk and create_rec                                                 *)
(***************************************************************************)
\* a step that only moves the operation along: the file's facts carry over
LEMMA FileFrame ==
  ASSUME Inv, UNCHANGED store, chk' = chk, pc # "check_chain",
         pc' \in OpStates \cup {"idle"} => pc \in OpStates \cup {"idle"},
         pc' \in PcStates \ (InFileInit \cup {"check_chain", "failed", "num_rec++", "fill"}),
         pc' # "down" => pc # "down"
  PROVE  FileInv'
<1> USE DEF Inv, store, table
<1>1. db_file => HdrInv'
  BY DEF FileInv, HdrInv, InFileInit, LinkedIn, NoChains
<1>2. db_file => SpaceInv'
  BY DEF FileInv, SpaceInv, SizeAt
<1> QED BY <1>1, <1>2 DEF FileInv

\* The call of db_set, db_get or db_del keeps the invariant.
LEMMA CallInv == Inv /\ call => Inv'
<1> SUFFICES ASSUME Inv, call PROVE Inv'
  OBVIOUS
<1> USE DEF Inv, call, Goto, store, table
<1>1. /\ op'.key \in Keys
      /\ op'.cmd \in {"set", "get", "del"}
      /\ op'.cmd = "set" => op'.val \in Vals
      /\ op' \in [cmd : {"none", "set", "get", "del"}, key : Bytes, val : Bytes]
  BY SMTT(30) DEF Bytes
<1>2. TypeOK'
  BY <1>1 DEF TypeOK, PcStates, OpStates, NoReply, Success
<1>3. TableInv'
  BY TableFrame
<1>4. OpInv'
  <2>1. pp' = 0 /\ rec' = 0
    BY DEF OpInv, RecInv, OpStates, CreateStates
  <2> QED BY <1>1, <2>1 DEF OpInv, CursorInv, RecInv, NewInv, OpStates, CreateStates
<1>5. FileInv'
  BY FileFrame DEF PcStates, OpStates, InFileInit, CreateStates
<1> QED BY <1>2, <1>3, <1>4, <1>5

\* pp = &rec->next keeps the invariant: pp stays in the chain.
LEMMA WalkNextInv == Inv /\ walk_next => Inv'
<1> SUFFICES ASSUME Inv, walk_next PROVE Inv'
  OBVIOUS
<1> USE DEF Inv, walk_next, store, table
<1>1. idx \in Bucket /\ LinkedIn(idx, At(pp))
  BY AtLinked DEF Before
<1>2. TypeOK'
  BY <1>1, LinkedLive DEF TypeOK, Link
<1>3. TableInv'
  BY SMTT(30), TableFrame
<1>4. OpInv'
  BY <1>1 DEF OpInv, CursorInv, RecInv, NewInv, OpStates, CreateStates, LinkedIn, idx
<1>5. FileInv'
  BY SMTT(30), FileFrame DEF PcStates, OpStates, InFileInit, CreateStates
<1> QED BY <1>2, <1>3, <1>4, <1>5

\* A match keeps the invariant: rec is the record *pp names.
LEMMA WalkFoundInv == Inv /\ walk_found => Inv'
<1> SUFFICES ASSUME Inv, walk_found PROVE Inv'
  OBVIOUS
<1> USE DEF Inv, walk_found, store, table
<1>0. op.key \in Keys /\ op.cmd \in {"set", "get", "del"}
      /\ (op.cmd = "set" => op.val \in Vals) /\ (pp # 0 => LinkedIn(idx, pp))
  BY DEF OpInv, CursorInv, Before
<1>1. idx \in Bucket /\ LinkedIn(idx, At(pp))
  BY AtLinked DEF Before
<1>2. At(pp) \in Addr /\ recs[At(pp)].val \in Vals /\ At(pp) \in Link /\ At(pp) # 0
  BY <1>1, LinkedLive DEF Link
<1>3. /\ op.cmd = "set" => pc' = "create"
      /\ op.cmd = "del" => pc' = "unlink"
      /\ op.cmd = "get" => pc' = "return"
  OBVIOUS
<1>a. /\ pc = "walk" /\ rec' = At(pp)
      /\ UNCHANGED <<exists, hdr, buckets, recs, inuse, chain, op, pp, new_rec, chk>>
  OBVIOUS
<1>b. reply' \in [rc : {0, -1}, val : SUBSET Vals]
  BY <1>2 DEF TypeOK, Success
<1> HIDE DEF walk_found, store, table
<1>4. pc' \in {"create", "unlink", "return"}
  BY <1>0, <1>3
<1>5. TypeOK'
  <2>1. pc' \in PcStates /\ rec' \in Link
    BY <1>2, <1>4, <1>a DEF PcStates, OpStates
  <2> QED BY <1>a, <1>b, <2>1 DEF TypeOK
<1>6. TableInv'
  BY <1>a, TableFrame
<1>7. OpInv'
  <2>1. CursorInv'
    BY <1>0, <1>3, <1>a DEF CursorInv, Before, CreateStates, LinkedIn, idx
  <2>2. At(pp)' = At(pp)
    BY <1>a DEF At, idx
  <2>3. RecInv'
    BY <1>2, <1>4, <1>a, <2>2 DEF RecInv, OpStates
  <2>4. NewInv'
    BY <1>4 DEF NewInv, CreateStates
  <2> QED BY <2>1, <2>3, <2>4 DEF OpInv
<1>8. FileInv'
  BY FileFrame, <1>4, <1>a DEF store, table, PcStates, OpStates, InFileInit, CreateStates
<1> QED BY <1>5, <1>6, <1>7, <1>8

\* The end of the chain keeps the invariant.
LEMMA WalkEndInv == Inv /\ walk_end => Inv'
<1> SUFFICES ASSUME Inv, walk_end PROVE Inv'
  OBVIOUS
<1> USE DEF Inv, walk_end, store, table, locals
<1>1. TypeOK'
  BY DEF TypeOK, PcStates, OpStates, Failure
<1>2. TableInv'
  BY SMTT(30), TableFrame
<1>3. OpInv'
  BY DEF OpInv, CursorInv, RecInv, NewInv, Before, OpStates, CreateStates, LinkedIn, idx
<1>4. FileInv'
  BY FileFrame DEF PcStates, OpStates, InFileInit, CreateStates
<1> QED BY <1>1, <1>2, <1>3, <1>4

\* A create_rec that fails keeps the invariant.
LEMMA CreateFailsInv == Inv /\ create_fails => Inv'
<1> SUFFICES ASSUME Inv, create_fails PROVE Inv'
  OBVIOUS
<1> USE DEF Inv, create_fails, Goto, store, table, locals
<1>1. TypeOK'
  BY DEF TypeOK, PcStates, OpStates, Failure
<1>2. TableInv'
  BY TableFrame
<1>3. OpInv'
  BY DEF OpInv, CursorInv, RecInv, NewInv, Before, OpStates, CreateStates
<1>4. FileInv'
  BY FileFrame DEF PcStates, OpStates, InFileInit, CreateStates
<1> QED BY SMTT(30), <1>1, <1>2, <1>3, <1>4

\* num_rec++ keeps the invariant.
LEMMA CreateCountInv == Inv /\ create_count => Inv'
<1> SUFFICES ASSUME Inv, create_count PROVE Inv'
  OBVIOUS
<1> USE DEF Inv, create_count, SetHdr, Goto, table, locals
<1>1. /\ hdr' = [hdr EXCEPT !.num_rec = hdr.num_rec + 1]
      /\ hdr \in [magic : BOOLEAN, version : {0, 1}, num_rec : Nat, num_del : Nat,
                  next_offset : Nat]
  BY DEF TypeOK
<1>2. /\ hdr'.magic = hdr.magic /\ hdr'.version = hdr.version
      /\ hdr'.next_offset = hdr.next_offset
      /\ hdr' \in [magic : BOOLEAN, version : {0, 1}, num_rec : Nat, num_del : Nat,
                   next_offset : Nat]
  BY <1>1
<1>3. TypeOK'
  BY <1>2 DEF TypeOK, PcStates, OpStates, CreateStates
<1>4. TableInv'
  BY TableFrame
<1>5. OpInv'
  BY DEF OpInv, CursorInv, RecInv, NewInv, Before, OpStates, CreateStates, LinkedIn, idx,
     At, Unlinked
<1>6. FileInv'
  <2>1. db_file => HdrInv'
    BY <1>2 DEF FileInv, HdrInv, InFileInit, OpStates, CreateStates, LinkedIn
  <2>2. db_file => SpaceInv'
    BY <1>2 DEF FileInv, SpaceInv, SizeAt, rec_size
  <2> QED BY <2>1, <2>2 DEF FileInv, InFileInit
<1> QED BY <1>3, <1>4, <1>5, <1>6

\* the record create_rec hands out was in no chain
LEMMA FreshUnlinked ==
  ASSUME TypeOK, TableInv, NEW a, a \notin inuse
  PROVE  Unlinked(a)
  BY DEF TableInv, LinkedRecordsLive, Unlinked

\* malloc in create_rec keeps the invariant: the record is in no chain.
LEMMA CreateMemInv == Inv /\ create_mem => Inv'
<1> SUFFICES ASSUME Inv, create_mem PROVE Inv'
  OBVIOUS
<1> USE DEF Inv, create_mem, Goto
<1>1. /\ new_rec' \in Addr /\ new_rec' \notin inuse
      /\ inuse' = inuse \cup {new_rec'}
  OBVIOUS
<1>2. Unlinked(new_rec')
  BY SMTT(30), <1>1, FreshUnlinked
<1>3. TypeOK'
  BY SMTT(30), <1>1, ConstFacts DEF TypeOK, PcStates, OpStates, CreateStates
<1>4. TableInv'
  BY SMTT(30), <1>1 DEF TableInv, ChainsSound, LinksFollowChain, ChainsDisjoint, LinkedRecordsLive,
     LinkAt
<1>5. OpInv'
  BY <1>1, <1>2 DEF OpInv, CursorInv, RecInv, NewInv, Before, OpStates, CreateStates,
     LinkedIn, idx, At, Unlinked
<1>6. FileInv'
  BY DEF FileInv, InFileInit
<1> QED BY <1>3, <1>4, <1>5, <1>6

\* rec_size is a number larger than 0.
LEMMA RecSizeType ==
  ASSUME TypeOK PROVE rec_size \in Nat /\ rec_size >= RecHdr /\ RecHdr >= 1
<1>1. op.key \in Bytes /\ op.val \in Bytes
  BY DEF TypeOK
<1>2. Len(op.key) \in Nat /\ Len(op.val) \in Nat
  BY <1>1, DbConstants
<1>3. \A m, n \in Nat : RecHdr + m + n \in Nat /\ RecHdr + m + n >= RecHdr
  BY ConstFacts
<1>4. rec_size = RecHdr + Len(op.key) + Len(op.val)
  BY DEF rec_size, RecSize
<1> QED BY ZenonT(30), <1>2, <1>3, <1>4, ConstFacts

\* next_offset += rec_size keeps the invariant: the new record lies beyond all
\* others and is in no chain.
LEMMA CreateFileInv == Inv /\ create_file => Inv'
<1> SUFFICES ASSUME Inv, create_file PROVE Inv'
  OBVIOUS
<1> USE DEF Inv, create_file, Goto
<1>1. /\ rec_size \in Nat /\ rec_size >= 1 /\ hdr.next_offset \in Nat /\ DbSize \in Nat
      /\ hdr \in [magic : BOOLEAN, version : {0, 1}, num_rec : Nat, num_del : Nat,
                  next_offset : Nat]
  BY RecSizeType, ConstFacts DEF TypeOK
<1>2. /\ hdr' = [hdr EXCEPT !.next_offset = hdr.next_offset + rec_size]
      /\ hdr.next_offset + rec_size \in Nat
  BY <1>1
<1> HIDE DEF rec_size
<1>3. /\ hdr'.magic = hdr.magic /\ hdr'.version = hdr.version
      /\ hdr'.next_offset = hdr.next_offset + rec_size
      /\ hdr' \in [magic : BOOLEAN, version : {0, 1}, num_rec : Nat, num_del : Nat,
                   next_offset : Nat]
  BY <1>1, <1>2
<1>4. HdrInv /\ SpaceInv
  BY DEF FileInv
<1>5. \A a \in inuse : a \in Nat /\ SizeAt(a) \in Nat /\ SizeAt(a) >= 1
  BY SizeAtType, ConstFacts DEF TypeOK
<1>6. new_rec' = hdr.next_offset /\ new_rec' \notin inuse
  BY <1>1, <1>4, <1>5 DEF SpaceInv
<1>7. Unlinked(new_rec')
  BY <1>6, FreshUnlinked
<1>8. TypeOK'
  BY SMTT(30), <1>1, <1>3 DEF TypeOK, PcStates, OpStates, CreateStates
<1>9. TableInv'
  BY DEF TableInv, ChainsSound, LinksFollowChain, ChainsDisjoint, LinkedRecordsLive, LinkAt
<1>10. OpInv'
  BY <1>6, <1>7 DEF OpInv, CursorInv, RecInv, NewInv, Before, OpStates, CreateStates,
     LinkedIn, idx, At, Unlinked
<1>11. HdrInv'
  BY <1>1, <1>3, <1>4 DEF HdrInv, InFileInit, OpStates, CreateStates, LinkedIn
<1>12. SpaceInv'
  <2>1. \A a \in Addr : SizeAt(a)' = SizeAt(a)
    BY DEF SizeAt
  <2>2. rec_size' = rec_size
    BY DEF rec_size
  <2>3. hdr'.next_offset <= DbSize
    BY <1>1, <1>3
  <2>4. \A a \in inuse : a + SizeAt(a) <= hdr.next_offset
    BY <1>4 DEF SpaceInv
  <2>5. ASSUME new_rec' \in Addr
        PROVE  recs[new_rec'] = ZeroRec /\ SizeAt(new_rec') = RecHdr
    <3>1. recs[new_rec'] = ZeroRec
      BY <1>4, <1>6, <2>5 DEF SpaceInv
    <3>2. SizeAt(new_rec') = RecHdr
      BY <3>1, ConstFacts DEF SizeAt, RecSize, ZeroRec
    <3> QED BY <3>1, <3>2
  <2>6. ASSUME NEW a \in inuse' PROVE a \in Addr /\ a + SizeAt(a) <= hdr'.next_offset
    <3>1. CASE a \in inuse
      BY <1>1, <1>3, <1>5, <2>4, <3>1 DEF TypeOK
    <3>2. CASE a = new_rec' /\ a \in Addr
      BY <1>1, <1>3, <1>6, <2>5, <3>2, RecSizeType, ConstFacts
    <3> QED BY <3>1, <3>2
  <2>7. ASSUME NEW a \in inuse', NEW b \in inuse', a < b PROVE a + SizeAt(a) <= b
    <3>1. CASE a \in inuse /\ b \in inuse
      BY <1>4, <2>7, <3>1 DEF SpaceInv
    <3>2. CASE a \in inuse /\ b = new_rec'
      BY <1>6, <2>4, <3>2
    <3>3. CASE a = new_rec' /\ b \in inuse
      BY <1>1, <1>5, <1>6, <2>4, <2>7, <3>3
    <3>4. CASE a = new_rec' /\ b = new_rec'
      BY <1>1, <1>6, <2>7, <3>4
    <3> QED BY <3>1, <3>2, <3>3, <3>4
  <2>8. \A a \in inuse' \ {new_rec'} : a + SizeAt(a) <= new_rec'
    BY <1>6, <2>4
  <2>9. \A a \in Addr \ inuse' : recs[a] = ZeroRec
    BY <1>4 DEF SpaceInv
  <2>10. \A a \in inuse' : a \in Addr
    BY <2>6
  <2>11. new_rec' + rec_size <= hdr'.next_offset
    BY <1>1, <1>3, <1>6
  <2>12. recs' = recs
    OBVIOUS
  <2> HIDE DEF create_file
  <2> QED BY <2>1, <2>2, <2>3, <2>5, <2>6, <2>7, <2>8, <2>9, <2>10, <2>11, <2>12 DEF SpaceInv
<1> QED BY <1>8, <1>9, <1>10, <1>11, <1>12 DEF FileInv, InFileInit
-----------------------------------------------------------------------------
(***************************************************************************)
(* Steps that change records: create_fill, the links, del_rec              *)
(***************************************************************************)
\* a step that leaves every linked record as it is keeps the table
LEMMA RecordsFrame ==
  ASSUME TypeOK, TableInv, UNCHANGED <<buckets, chain>>,
         \A b \in Bucket : \A i \in 1 .. Len(chain[b]) :
           chain[b][i] \in inuse' /\ recs'[chain[b][i]] = recs[chain[b][i]]
  PROVE  TableInv'
  BY SMTT(30) DEF TableInv, ChainsSound, LinksFollowChain, ChainsDisjoint, LinkedRecordsLive, LinkAt

\* a step of an operation that keeps the header and the sizes of the records
LEMMA SpaceFrame ==
  ASSUME Inv, pc \in OpStates, UNCHANGED <<exists, hdr, inuse, chk>>,
         pc' \in OpStates \ {"num_rec++", "fill"},
         \A a \in Addr : recs'[a].key = recs[a].key /\ recs'[a].val = recs[a].val,
         \A a \in Addr \ inuse : recs'[a] = recs[a]
  PROVE  FileInv'
<1> USE DEF Inv
<1>1. \A a \in Addr : SizeAt(a)' = SizeAt(a)
  BY DEF SizeAt
<1>2. db_file => SpaceInv'
  BY <1>1 DEF FileInv, SpaceInv, TypeOK
<1>3. db_file => HdrInv'
  BY DEF FileInv, HdrInv, InFileInit, OpStates, CreateStates
<1> QED BY <1>2, <1>3 DEF FileInv, InFileInit, OpStates, CreateStates

\* Filling in the new record keeps the invariant: no chain reaches it.
LEMMA CreateFillInv == Inv /\ create_fill => Inv'
<1> SUFFICES ASSUME Inv, create_fill PROVE Inv'
  OBVIOUS
<1> USE DEF Inv, create_fill, table, locals
<1>0. op.key \in Keys /\ op.val \in Vals
  BY DEF OpInv, CursorInv, Before, CreateStates
<1>1. CASE new_rec \notin Addr
  <2>1. pc' = "overwritten" /\ recs' = recs
    BY SMTT(30), <1>1
  <2>2. TypeOK'
    BY <2>1 DEF TypeOK, PcStates
  <2>3. TableInv'
    BY SMTT(30), <2>1, TableFrame
  <2>4. OpInv'
    BY SMTT(30), <2>1 DEF OpInv, CursorInv, RecInv, NewInv, Before, OpStates, CreateStates
  <2>5. FileInv'
    BY <2>1 DEF FileInv, HdrInv, SpaceInv, InFileInit, OpStates, CreateStates, SizeAt, NoChains
  <2> QED BY <2>2, <2>3, <2>4, <2>5
<1>2. CASE new_rec \in Addr
  <2> DEFINE r == [next |-> 0, del |-> FALSE, key |-> op.key, val |-> op.val]
  <2>0. /\ pc = "fill"
        /\ UNCHANGED <<exists, hdr, buckets, inuse, chain, op, pp, rec, new_rec, chk, reply>>
    OBVIOUS
  <2>1. pc' = "next" /\ recs' = [recs EXCEPT ![new_rec] = r]
    BY <1>2
  <2> USE <2>0
  <2> HIDE DEF create_fill, table, locals
  <2>2. new_rec \in inuse /\ Unlinked(new_rec)
    BY SMTT(30), <1>2 DEF OpInv, NewInv, CreateStates
  <2>3. r \in [next : Link, del : BOOLEAN, key : Bytes, val : Bytes]
    BY SMTT(30), <1>0 DEF Link, Bytes
  <2>4. recs'[new_rec] = r /\ \A a \in Addr \ {new_rec} : recs'[a] = recs[a]
    BY <1>2, <2>1 DEF TypeOK
  <2>5. r.next = 0 /\ r.key = op.key /\ r.val = op.val /\ ~r.del
    OBVIOUS
  <2> HIDE DEF r
  <2>6. TypeOK'
    <3>1. recs' \in [Addr -> [next : Link, del : BOOLEAN, key : Bytes, val : Bytes]]
      BY ZenonT(30), <2>1, <2>3 DEF TypeOK
    <3>2. pc' \in PcStates
      BY <2>1 DEF PcStates, OpStates, CreateStates
    <3> QED BY <3>1, <3>2 DEF TypeOK
  <2>7. TableInv'
    <3>1. \A b \in Bucket : \A i \in 1 .. Len(chain[b]) :
            chain[b][i] \in Addr \ {new_rec} /\ chain[b][i] \in inuse
      BY <2>2 DEF Unlinked, TableInv, LinkedRecordsLive, TypeOK
    <3> QED BY SMTT(30), <2>4, <3>1, RecordsFrame
  <2>8. OpInv'
    <3>1. pp # 0 => LinkedIn(idx, pp) /\ idx \in Bucket /\ pp # new_rec /\ pp \in Addr
      BY SMTT(30), AtLinked, <2>2 DEF OpInv, CursorInv, Before, CreateStates, LinkedIn, Unlinked, TypeOK, Link
    <3>2. At(pp)' = At(pp)
      BY SMTT(30), <3>1, <2>4 DEF At, idx
    <3>3. CursorInv'
      BY SMTT(30), <2>1, <3>1 DEF OpInv, CursorInv, Before, CreateStates, LinkedIn, idx
    <3>4. RecInv'
      BY SMTT(30), <2>1, <3>2 DEF OpInv, RecInv, Before, OpStates, CreateStates
    <3>5. NewInv'
      BY SMTT(30), <1>2, <2>1, <2>2, <2>4, <2>5 DEF NewInv, CreateStates, Unlinked
    <3> QED BY SMTT(30), <3>3, <3>4, <3>5 DEF OpInv
  <2>9. ASSUME db_file PROVE HdrInv' /\ SpaceInv'
    <3>1. HdrInv'
      BY SMTT(30), <2>1, <2>9 DEF FileInv, HdrInv, InFileInit, OpStates, CreateStates
    <3>2. SpaceInv /\ new_rec + rec_size <= hdr.next_offset
          /\ \A a \in inuse \ {new_rec} : a + SizeAt(a) <= new_rec
      BY SMTT(30), <2>9 DEF FileInv, SpaceInv
    <3>3. SizeAt(new_rec)' = rec_size
      BY SMTT(30), <2>4, <2>5 DEF SizeAt, rec_size
    <3>4. \A a \in Addr \ {new_rec} : SizeAt(a)' = SizeAt(a)
      BY SMTT(30), <2>4 DEF SizeAt
    <3>5. \A a \in inuse : a \in Addr /\ a \in Nat /\ SizeAt(a) \in Nat
      BY SMTT(30), SizeAtType, ConstFacts DEF TypeOK
    <3>6. rec_size \in Nat /\ hdr.next_offset \in Nat /\ new_rec \in Nat
      BY RecSizeType DEF TypeOK
    <3>7. ASSUME NEW a \in inuse, NEW b \in inuse, a < b PROVE a + SizeAt(a)' <= b
      <4>1. CASE a # new_rec
        BY SMTT(30), <3>2, <3>4, <3>5, <3>7, <4>1 DEF SpaceInv
      <4>2. CASE a = new_rec
        <5>1. b # new_rec
          BY <3>6, <3>7, <4>2
        <5>2. b + SizeAt(b) <= a
          BY <3>2, <4>2, <5>1
        <5> QED BY SMTT(30), <3>5, <3>6, <3>7, <5>2
      <4> QED BY SMTT(30), <4>1, <4>2
    <3>8. \A a \in inuse : a + SizeAt(a)' <= hdr.next_offset
      BY SMTT(30), <3>2, <3>3, <3>4, <3>5 DEF SpaceInv
    <3>9. \A a \in Addr \ inuse : recs'[a] = ZeroRec
      BY SMTT(30), <2>2, <2>4, <3>2 DEF SpaceInv
    <3>10. inuse' = inuse /\ hdr' = hdr /\ hdr.next_offset <= DbSize
      BY <3>2 DEF SpaceInv
    <3> QED BY <2>1, <3>1, <3>7, <3>8, <3>9, <3>10 DEF SpaceInv
  <2>10. pc' \notin InFileInit
    BY <2>1 DEF InFileInit
  <2> QED BY <2>6, <2>7, <2>8, <2>9, <2>10 DEF FileInv
<1> QED BY <1>1, <1>2

\* new_rec->next = ... keeps the invariant: no chain reaches new_rec.
LEMMA PutNextInv == Inv /\ put_next => Inv'
<1> SUFFICES ASSUME Inv, put_next PROVE Inv'
  OBVIOUS
<1> USE DEF Inv, put_next, Goto, locals
<1> DEFINE n == IF rec # 0 THEN recs[rec].next ELSE buckets[idx]
<1>1. /\ new_rec \in Addr /\ new_rec \in inuse /\ Unlinked(new_rec)
      /\ recs[new_rec].key = op.key /\ recs[new_rec].val = op.val /\ ~recs[new_rec].del
  BY DEF OpInv, NewInv, CreateStates
<1>2. idx \in Bucket /\ (At(pp) = 0 \/ LinkedIn(idx, At(pp)))
      /\ (pp # 0 => LinkedIn(idx, pp)) /\ (rec # 0 => rec = At(pp))
  BY AtLinked DEF OpInv, CursorInv, RecInv, Before, CreateStates
<1>3. rec # new_rec /\ pp # new_rec /\ rec \in Link /\ pp \in Link
  BY <1>1, <1>2, ConstFacts DEF Unlinked, LinkedIn, TypeOK
<1>4. n \in Link
  BY <1>2, <1>3 DEF TypeOK, Link
<1>5. recs' = [recs EXCEPT ![new_rec].next = n] /\ pc' = "link"
  OBVIOUS
<1> HIDE DEF n
<1>6. /\ recs'[new_rec].next = n
      /\ recs'[new_rec].key = op.key /\ recs'[new_rec].val = op.val /\ ~recs'[new_rec].del
      /\ \A a \in Addr \ {new_rec} : recs'[a] = recs[a]
  BY <1>1, <1>5 DEF TypeOK
<1>7. recs' \in [Addr -> [next : Link, del : BOOLEAN, key : Bytes, val : Bytes]]
  <2>1. recs[new_rec] \in [next : Link, del : BOOLEAN, key : Bytes, val : Bytes]
    BY <1>1 DEF TypeOK
  <2>2. [recs[new_rec] EXCEPT !.next = n] \in
          [next : Link, del : BOOLEAN, key : Bytes, val : Bytes]
    BY <1>4, <2>1
  <2>3. recs' = [recs EXCEPT ![new_rec] = [recs[new_rec] EXCEPT !.next = n]]
    BY <1>1, <1>5 DEF TypeOK
  <2> QED BY <2>2, <2>3 DEF TypeOK
<1>8. TypeOK'
  BY <1>5, <1>7 DEF TypeOK, PcStates, OpStates, CreateStates
<1>9. TableInv'
  <2>1. \A b \in Bucket : \A i \in 1 .. Len(chain[b]) :
          chain[b][i] \in Addr \ {new_rec} /\ chain[b][i] \in inuse
    BY <1>1 DEF Unlinked, TableInv, LinkedRecordsLive, TypeOK
  <2> QED BY <1>6, <2>1, RecordsFrame
<1>10. OpInv'
  <2>1. At(pp)' = At(pp)
    BY <1>3, <1>6 DEF At, idx, Link
  <2>2. CursorInv'
    BY <1>5 DEF OpInv, CursorInv, Before, CreateStates, LinkedIn, idx
  <2>3. RecInv'
    BY <1>5, <2>1 DEF OpInv, RecInv, Before, OpStates, CreateStates
  <2>4. n = IF rec # 0 THEN recs'[rec].next ELSE buckets[idx]
    BY <1>3, <1>6 DEF n, Link
  <2>5. NewInv'
    BY <1>1, <1>5, <1>6, <2>4 DEF NewInv, CreateStates, Unlinked, idx
  <2> QED BY <2>2, <2>3, <2>5 DEF OpInv
<1>11. FileInv'
  <2>1. \A a \in Addr : recs'[a].key = recs[a].key /\ recs'[a].val = recs[a].val
    BY <1>1, <1>6
  <2> QED BY <1>1, <1>5, <1>6, <2>1, SpaceFrame DEF OpStates, CreateStates
<1> QED BY <1>8, <1>9, <1>10, <1>11
=============================================================================
