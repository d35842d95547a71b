---------------------------- MODULE DbLinkProofs ----------------------------
(***************************************************************************)
(* Proofs about the stores to the links and del_rec, and the theorems:     *)
(* Inv is an invariant of Db, and so are the properties it implies.        *)
(***************************************************************************)
EXTENDS DbProofs

\* where the matched record stands in its chain, and the link that names it
LEMMA CursorPosition ==
  ASSUME Inv, pc \in Before, rec # 0,
         NEW c, c = chain[idx], NEW p, p = PosOf(c, rec)
  PROVE  /\ idx \in Bucket /\ c \in Seq(Addr)
         /\ p \in 1 .. Len(c) /\ c[p] = rec
         /\ rec \in Addr /\ rec \in inuse
         /\ recs[rec].next = LinkAt(c, p + 1)
         /\ pp = 0 => p = 1
         /\ pp # 0 => p > 1 /\ c[p - 1] = pp /\ pp \in Addr
         /\ \A i \in 1 .. Len(c) : c[i] = rec => i = p
         /\ pp # 0 => \A i \in 1 .. Len(c) : c[i] = pp => i = p - 1
<1> USE DEF Inv
<1>1. rec = At(pp) /\ idx \in Bucket /\ (pp # 0 => LinkedIn(idx, pp)) /\ LinkedIn(idx, rec)
  BY AtLinked DEF OpInv, RecInv, CursorInv
<1>2. c \in Seq(Addr) /\ Len(c) \in Nat
  BY <1>1 DEF TypeOK
<1>3. p \in 1 .. Len(c) /\ c[p] = rec
  BY <1>1, <1>2, PosOfProperties DEF LinkedIn
<1>4. rec \in Addr /\ rec \in inuse
  BY <1>1, LinkedLive
<1>5. recs[rec].next = LinkAt(c, p + 1)
  BY <1>1, <1>3 DEF TableInv, ChainsSound, LinksFollowChain
<1>6. \A i, j \in 1 .. Len(c) : c[i] = c[j] => i = j
  BY <1>1 DEF TableInv, ChainsSound, ChainsDisjoint
<1>7. pp = 0 => p = 1
  <2> SUFFICES ASSUME pp = 0 PROVE p = 1
    OBVIOUS
  <2>1. rec = LinkAt(c, 1)
    BY <1>1 DEF At, TableInv, ChainsSound, LinksFollowChain
  <2>2. 1 \in 1 .. Len(c) /\ c[1] = rec
    BY <1>2, <1>3, <2>1 DEF LinkAt
  <2> QED BY <1>3, <1>6, <2>2
<1>8. pp # 0 => p > 1 /\ c[p - 1] = pp /\ pp \in Addr
  <2> SUFFICES ASSUME pp # 0 PROVE p > 1 /\ c[p - 1] = pp /\ pp \in Addr
    OBVIOUS
  <2>1. PICK q \in 1 .. Len(c) : c[q] = pp
    BY <1>1 DEF LinkedIn
  <2>2. rec = LinkAt(c, q + 1)
    BY <1>1, <2>1 DEF At, TableInv, ChainsSound, LinksFollowChain
  <2>3. q + 1 \in 1 .. Len(c) /\ c[q + 1] = rec
    BY <1>2, <2>2, q \in 1 .. Len(c) DEF LinkAt
  <2>4. p = q + 1
    BY <1>3, <1>6, <2>3
  <2>5. pp \in Addr
    BY <1>1, LinkedLive
  <2> QED BY <2>1, <2>4, <2>5
<1>9. \A i \in 1 .. Len(c) : c[i] = rec => i = p
  BY <1>3, <1>6
<1>10. pp # 0 => \A i \in 1 .. Len(c) : c[i] = pp => i = p - 1
  <2> SUFFICES ASSUME pp # 0, NEW i \in 1 .. Len(c), c[i] = pp PROVE i = p - 1
    OBVIOUS
  <2>1. p - 1 \in 1 .. Len(c)
    BY <1>2, <1>3, <1>8
  <2> QED BY <1>6, <1>8, <2>1
<1> QED BY <1>1, <1>2, <1>3, <1>4, <1>5, <1>7, <1>8, <1>9, <1>10

\* one chain is replaced by d, the others stay
LEMMA RelinkTable ==
  ASSUME TypeOK, TableInv, NEW b0 \in Bucket, NEW d \in Seq(Addr),
         chain' = [chain EXCEPT ![b0] = d],
         buckets'[b0] = LinkAt(d, 1),
         \A b \in Bucket \ {b0} : buckets'[b] = buckets[b],
         \A i \in 1 .. Len(d) :
           /\ recs'[d[i]].next = LinkAt(d, i + 1)
           /\ d[i] \in inuse' /\ ~recs'[d[i]].del
           /\ recs'[d[i]].key \in Keys /\ recs'[d[i]].val \in Vals
           /\ Hash[recs'[d[i]].key] = b0,
         \A i, j \in 1 .. Len(d) : d[i] = d[j] => i = j,
         \A b \in Bucket \ {b0} : \A j \in 1 .. Len(chain[b]) :
           /\ recs'[chain[b][j]] = recs[chain[b][j]] /\ chain[b][j] \in inuse'
           /\ \A i \in 1 .. Len(d) : d[i] # chain[b][j]
  PROVE  TableInv'
<1>1. chain'[b0] = d /\ \A b \in Bucket \ {b0} : chain'[b] = chain[b]
  BY DEF TypeOK
<1>2. LinksFollowChain'
  <2> SUFFICES ASSUME NEW b \in Bucket
               PROVE  /\ buckets'[b] = LinkAt(chain'[b], 1)
                      /\ \A i \in 1 .. Len(chain'[b]) :
                           recs'[chain'[b][i]].next = LinkAt(chain'[b], i + 1)
    BY DEF LinksFollowChain, LinkAt
  <2>1. CASE b = b0
    BY <1>1, <2>1
  <2>2. CASE b # b0
    <3>1. chain'[b] = chain[b] /\ buckets'[b] = buckets[b]
      BY <1>1, <2>2
    <3>2. \A i \in 1 .. Len(chain[b]) : recs'[chain[b][i]].next = recs[chain[b][i]].next
      BY <2>2
    <3>3. /\ buckets[b] = LinkAt(chain[b], 1)
          /\ \A i \in 1 .. Len(chain[b]) : recs[chain[b][i]].next = LinkAt(chain[b], i + 1)
      BY DEF TableInv, ChainsSound, LinksFollowChain
    <3> QED BY <3>1, <3>2, <3>3
  <2> QED BY <2>1, <2>2
<1>3. ChainsDisjoint'
  <2> SUFFICES ASSUME NEW b \in Bucket, NEW c \in Bucket,
                      NEW i \in 1 .. Len(chain'[b]), NEW j \in 1 .. Len(chain'[c]),
                      chain'[b][i] = chain'[c][j]
               PROVE  b = c /\ i = j
    BY DEF ChainsDisjoint
  <2>1. CASE b = b0 /\ c = b0
    BY <1>1, <2>1
  <2>2. CASE b = b0 /\ c # b0
    BY <1>1, <2>2
  <2>3. CASE b # b0 /\ c = b0
    BY <1>1, <2>3
  <2>4. CASE b # b0 /\ c # b0
    BY SMTT(30), <1>1, <2>4 DEF TableInv, ChainsSound, ChainsDisjoint
  <2> QED BY <2>1, <2>2, <2>3, <2>4
<1>4. LinkedRecordsLive'
  <2> SUFFICES ASSUME NEW b \in Bucket, NEW i \in 1 .. Len(chain'[b])
               PROVE  /\ chain'[b][i] \in inuse' /\ ~recs'[chain'[b][i]].del
                      /\ recs'[chain'[b][i]].key \in Keys
                      /\ recs'[chain'[b][i]].val \in Vals
                      /\ Hash[recs'[chain'[b][i]].key] = b
    BY DEF LinkedRecordsLive
  <2>1. CASE b = b0
    BY <1>1, <2>1
  <2>2. CASE b # b0
    BY <1>1, <2>2 DEF TableInv, LinkedRecordsLive
  <2> QED BY SMTT(30), <2>1, <2>2
<1> QED BY <1>2, <1>3, <1>4 DEF TableInv, ChainsSound

\* db_buckets[idx] = new_rec keeps the invariant: the chain grows by a complete
\* record at its head.
LEMMA PutInsertInv == Inv /\ put_insert => Inv'
<1> SUFFICES ASSUME Inv, put_insert PROVE Inv'
  OBVIOUS
<1> USE DEF Inv
<1>1. /\ pc = "link" /\ pc' = "return" /\ rec = 0
      /\ buckets' = [buckets EXCEPT ![idx] = new_rec] /\ recs' = recs
      /\ chain' = [chain EXCEPT ![idx] = Cons(new_rec, chain[idx])]
      /\ reply' = NoReply
      /\ UNCHANGED <<exists, hdr, inuse, op, pp, rec, new_rec, chk>>
  BY DEF put_insert, Goto, Relink, locals
<1>2. idx \in Bucket /\ op.key \in Keys /\ op.val \in Vals /\ Hash[op.key] = idx
  BY <1>1, AtLinked DEF OpInv, CursorInv, Before, CreateStates, idx
<1>3. /\ new_rec \in Addr /\ new_rec \in inuse /\ Unlinked(new_rec)
      /\ recs[new_rec].key = op.key /\ recs[new_rec].val = op.val /\ ~recs[new_rec].del
      /\ recs[new_rec].next = buckets[idx]
  BY <1>1 DEF OpInv, NewInv, CreateStates
<1> DEFINE c == chain[idx]
           d == Cons(new_rec, c)
<1>4. c \in Seq(Addr)
  BY <1>2 DEF TypeOK
<1>5. /\ d \in Seq(Addr) /\ Len(d) = Len(c) + 1 /\ d[1] = new_rec
      /\ \A i \in 1 .. Len(c) : d[i + 1] = c[i]
  <2>1. \A s \in Seq(Addr), e \in Addr :
          /\ Cons(e, s) \in Seq(Addr) /\ Len(Cons(e, s)) = Len(s) + 1 /\ Cons(e, s)[1] = e
          /\ \A i \in 1 .. Len(s) : Cons(e, s)[i + 1] = s[i]
    BY ConsProperties
  <2> HIDE DEF c
  <2> QED BY <1>3, <1>4, <2>1
<1>6. \A i \in 1 .. Len(d) : i = 1 \/ (i - 1 \in 1 .. Len(c) /\ d[i] = c[i - 1])
  <2> SUFFICES ASSUME NEW i \in 1 .. Len(d), i # 1
               PROVE  i - 1 \in 1 .. Len(c) /\ d[i] = c[i - 1]
    OBVIOUS
  <2>1. i - 1 \in 1 .. Len(c) /\ (i - 1) + 1 = i
    BY <1>4, <1>5
  <2> HIDE DEF c, d
  <2> QED BY <1>5, <2>1
<1>7. \A i \in 1 .. Len(c) :
        /\ c[i] # new_rec /\ recs[c[i]].next = LinkAt(c, i + 1)
        /\ c[i] \in inuse /\ ~recs[c[i]].del
        /\ recs[c[i]].key \in Keys /\ recs[c[i]].val \in Vals /\ Hash[recs[c[i]].key] = idx
        /\ \A j \in 1 .. Len(c) : c[i] = c[j] => i = j
  BY <1>2, <1>3 DEF Unlinked, TableInv, ChainsSound, LinksFollowChain, ChainsDisjoint,
     LinkedRecordsLive
<1>8. chain' = [chain EXCEPT ![idx] = d]
  BY <1>1
<1>9. buckets[idx] = LinkAt(c, 1)
  BY <1>2 DEF TableInv, ChainsSound, LinksFollowChain
<1>10. \A b \in Bucket \ {idx} : \A j \in 1 .. Len(chain[b]) :
         /\ chain[b][j] \in inuse /\ chain[b][j] # new_rec
         /\ \A i \in 1 .. Len(c) : c[i] # chain[b][j]
  BY <1>2, <1>3 DEF Unlinked, TableInv, ChainsSound, ChainsDisjoint, LinkedRecordsLive
<1>11. buckets'[idx] = new_rec /\ \A b \in Bucket \ {idx} : buckets'[b] = buckets[b]
  BY <1>1, <1>2 DEF TypeOK
<1>12. TypeOK'
  BY ZenonT(30), <1>1, <1>3, <1>5 DEF TypeOK, PcStates, OpStates, Link, NoReply, Success
<1> HIDE DEF c, d
<1>13. TableInv'
  <2>1. buckets'[idx] = LinkAt(d, 1)
    BY <1>4, <1>5, <1>11 DEF LinkAt
  <2>2. \A i \in 1 .. Len(d) : recs[d[i]].next = LinkAt(d, i + 1)
    <3> SUFFICES ASSUME NEW i \in 1 .. Len(d) PROVE recs[d[i]].next = LinkAt(d, i + 1)
      OBVIOUS
    <3>1. CASE i = 1
      BY <1>3, <1>4, <1>5, <1>9, <3>1 DEF LinkAt
    <3>2. CASE i # 1
      <4>1. i - 1 \in 1 .. Len(c) /\ d[i] = c[i - 1] /\ (i - 1) + 1 = i
        BY <1>4, <1>5, <1>6, <3>2
      <4>2. recs[d[i]].next = LinkAt(c, i)
        BY <1>7, <4>1
      <4>3. LinkAt(c, i) = LinkAt(d, i + 1)
        BY <1>4, <1>5, <4>1 DEF LinkAt
      <4> QED BY <4>2, <4>3
    <3> QED BY <3>1, <3>2
  <2>3. ASSUME NEW i \in 1 .. Len(d), NEW j \in 1 .. Len(d), d[i] = d[j] PROVE i = j
    <3>1. CASE i = 1 /\ j = 1
      BY <3>1
    <3>2. CASE i = 1 /\ j # 1
      BY <1>5, <1>6, <1>7, <2>3, <3>2
    <3>3. CASE i # 1 /\ j = 1
      BY <1>5, <1>6, <1>7, <2>3, <3>3
    <3>4. CASE i # 1 /\ j # 1
      <4>1. /\ i - 1 \in 1 .. Len(c) /\ d[i] = c[i - 1]
            /\ j - 1 \in 1 .. Len(c) /\ d[j] = c[j - 1]
        BY <1>6, <3>4
      <4>2. i - 1 = j - 1
        BY <1>7, <2>3, <4>1
      <4> QED BY <4>2
    <3> QED BY <3>1, <3>2, <3>3, <3>4
  <2>4. \A i \in 1 .. Len(d) :
          /\ d[i] \in inuse /\ ~recs[d[i]].del
          /\ recs[d[i]].key \in Keys /\ recs[d[i]].val \in Vals /\ Hash[recs[d[i]].key] = idx
    BY SMTT(30), <1>2, <1>3, <1>5, <1>6, <1>7
  <2>5. \A b \in Bucket \ {idx} : \A j \in 1 .. Len(chain[b]) :
          \A i \in 1 .. Len(d) : d[i] # chain[b][j]
    <3> SUFFICES ASSUME NEW b \in Bucket \ {idx}, NEW j \in 1 .. Len(chain[b]),
                        NEW i \in 1 .. Len(d)
                 PROVE  d[i] # chain[b][j]
      OBVIOUS
    <3>1. CASE i = 1
      BY <1>5, <1>10, <3>1
    <3>2. CASE i # 1
      BY <1>6, <1>10, <3>2
    <3> QED BY <3>1, <3>2
  <2>6. recs' = recs /\ inuse' = inuse
    BY <1>1
  <2>7. \A i \in 1 .. Len(d) :
           /\ recs'[d[i]].next = LinkAt(d, i + 1)
           /\ d[i] \in inuse' /\ ~recs'[d[i]].del
           /\ recs'[d[i]].key \in Keys /\ recs'[d[i]].val \in Vals
           /\ Hash[recs'[d[i]].key] = idx
    BY <2>2, <2>4, <2>6
  <2>8. \A b \in Bucket \ {idx} : \A j \in 1 .. Len(chain[b]) :
           /\ recs'[chain[b][j]] = recs[chain[b][j]] /\ chain[b][j] \in inuse'
           /\ \A i \in 1 .. Len(d) : d[i] # chain[b][j]
    BY <1>10, <2>5, <2>6
  <2> QED BY <1>2, <1>5, <1>8, <1>11, <2>1, <2>3, <2>7, <2>8, RelinkTable
<1>14. OpInv'
  BY <1>1 DEF OpInv, CursorInv, RecInv, NewInv, Before, OpStates, CreateStates
<1>15. FileInv'
  BY <1>1, SpaceFrame DEF OpStates, CreateStates
<1> QED BY <1>12, <1>13, <1>14, <1>15

\* what the store *pp = link changes
LEMMA RelinkFacts ==
  ASSUME TypeOK, idx \in Bucket, pp \in Link, NEW link \in Link, NEW newchain,
         Relink(pp, link, newchain)
  PROVE  /\ buckets' \in [Bucket -> Link]
         /\ buckets'[idx] = IF pp = 0 THEN link ELSE buckets[idx]
         /\ \A b \in Bucket \ {idx} : buckets'[b] = buckets[b]
         /\ recs' \in [Addr -> [next : Link, del : BOOLEAN, key : Bytes, val : Bytes]]
         /\ \A a \in Addr :
              /\ recs'[a].next = IF a = pp THEN link ELSE recs[a].next
              /\ recs'[a].del = recs[a].del
              /\ recs'[a].key = recs[a].key
              /\ recs'[a].val = recs[a].val
              /\ a # pp => recs'[a] = recs[a]
         /\ chain' = [chain EXCEPT ![idx] = newchain]
         /\ reply' = NoReply
         /\ UNCHANGED <<exists, hdr, inuse, op, pp, rec, new_rec, chk>>
<1> USE DEF Relink, locals
<1>1. CASE pp = 0
  <2>1. buckets' = [buckets EXCEPT ![idx] = link] /\ recs' = recs
    BY <1>1
  <2> QED BY <1>1, <2>1, ConstFacts DEF TypeOK
<1>2. CASE pp # 0
  <2>1. recs' = [recs EXCEPT ![pp].next = link] /\ buckets' = buckets /\ pp \in Addr
    BY <1>2 DEF Link
  <2> DEFINE r == [recs[pp] EXCEPT !.next = link]
  <2>2. recs[pp] \in [next : Link, del : BOOLEAN, key : Bytes, val : Bytes]
    BY <2>1 DEF TypeOK
  <2>3. /\ r \in [next : Link, del : BOOLEAN, key : Bytes, val : Bytes]
        /\ r.next = link /\ r.del = recs[pp].del /\ r.key = recs[pp].key
        /\ r.val = recs[pp].val
    BY <2>2
  <2>4. recs' = [recs EXCEPT ![pp] = r]
    BY <2>1 DEF TypeOK
  <2> HIDE DEF r
  <2>5. recs' \in [Addr -> [next : Link, del : BOOLEAN, key : Bytes, val : Bytes]]
        /\ recs'[pp] = r /\ \A a \in Addr : a # pp => recs'[a] = recs[a]
    <3>1. recs \in [Addr -> [next : Link, del : BOOLEAN, key : Bytes, val : Bytes]]
      BY DEF TypeOK
    <3>2. recs' \in [Addr -> [next : Link, del : BOOLEAN, key : Bytes, val : Bytes]]
      BY <2>1, <2>3, <2>4, <3>1
    <3>3. recs'[pp] = r /\ \A a \in Addr : a # pp => recs'[a] = recs[a]
      BY <2>1, <2>4, <3>1
    <3> QED BY <3>2, <3>3
  <2>6. \A a \in Addr :
          /\ recs'[a].next = IF a = pp THEN link ELSE recs[a].next
          /\ recs'[a].del = recs[a].del
          /\ recs'[a].key = recs[a].key
          /\ recs'[a].val = recs[a].val
          /\ a # pp => recs'[a] = recs[a]
    BY SMTT(30), <2>3, <2>5
  <2> QED BY <1>2, <2>1, <2>5, <2>6 DEF TypeOK
<1> QED BY <1>1, <1>2

\* what holds of the chain an operation works on, and of the others
LEMMA ChainFacts ==
  ASSUME Inv, idx \in Bucket, NEW c, c = chain[idx]
  PROVE  /\ buckets[idx] = LinkAt(c, 1)
         /\ \A i \in 1 .. Len(c) :
              /\ c[i] \in Addr /\ recs[c[i]].next = LinkAt(c, i + 1)
              /\ c[i] \in inuse /\ ~recs[c[i]].del
              /\ recs[c[i]].key \in Keys /\ recs[c[i]].val \in Vals
              /\ Hash[recs[c[i]].key] = idx
              /\ \A j \in 1 .. Len(c) : c[i] = c[j] => i = j
         /\ \A b \in Bucket \ {idx} : \A j \in 1 .. Len(chain[b]) :
              /\ chain[b][j] \in Addr /\ chain[b][j] \in inuse
              /\ \A i \in 1 .. Len(c) : c[i] # chain[b][j]
  BY DEF Inv, TypeOK, TableInv, ChainsSound, LinksFollowChain, ChainsDisjoint,
     LinkedRecordsLive

\* *pp = new_rec keeps the invariant: new_rec takes the place of rec, which is
\* then in no chain.
LEMMA PutReplaceInv == Inv /\ put_replace => Inv'
<1> SUFFICES ASSUME Inv, put_replace PROVE Inv'
  OBVIOUS
<1> DEFINE c == chain[idx]
           p == PosOf(c, rec)
           d == ReplaceAt(c, p, new_rec)
<1>1. /\ pc = "link" /\ pc' = "delete" /\ rec # 0 /\ pc \in Before
      /\ Relink(pp, new_rec, d)
  BY SMTT(30) DEF put_replace, Goto, Before, CreateStates
<1>2. op.key \in Keys /\ op.val \in Vals /\ Hash[op.key] = idx
  BY SMTT(30), <1>1 DEF Inv, OpInv, CursorInv, CreateStates, idx
<1>3. /\ new_rec \in Addr /\ new_rec \in inuse /\ Unlinked(new_rec)
      /\ recs[new_rec].key = op.key /\ recs[new_rec].val = op.val /\ ~recs[new_rec].del
      /\ recs[new_rec].next = recs[rec].next
  BY SMTT(30), <1>1 DEF Inv, OpInv, NewInv, CreateStates
<1>4. /\ idx \in Bucket /\ c \in Seq(Addr)
      /\ p \in 1 .. Len(c) /\ c[p] = rec
      /\ rec \in Addr /\ rec \in inuse
      /\ recs[rec].next = LinkAt(c, p + 1)
      /\ pp = 0 => p = 1
      /\ pp # 0 => p > 1 /\ c[p - 1] = pp /\ pp \in Addr
      /\ \A i \in 1 .. Len(c) : c[i] = rec => i = p
      /\ pp # 0 => \A i \in 1 .. Len(c) : c[i] = pp => i = p - 1
  BY <1>1, CursorPosition
<1>5. /\ d \in Seq(Addr) /\ Len(d) = Len(c)
      /\ \A i \in 1 .. Len(c) : d[i] = IF i = p THEN new_rec ELSE c[i]
  <2>1. \A s \in Seq(Addr) : \A q \in 1 .. Len(s), e \in Addr :
          /\ ReplaceAt(s, q, e) \in Seq(Addr) /\ Len(ReplaceAt(s, q, e)) = Len(s)
          /\ \A i \in 1 .. Len(s) : ReplaceAt(s, q, e)[i] = IF i = q THEN e ELSE s[i]
    BY SMTT(30), ReplaceAtProperties
  <2> HIDE DEF c, p
  <2> QED BY <1>3, <1>4, <2>1
<1>6. /\ buckets[idx] = LinkAt(c, 1)
      /\ \A i \in 1 .. Len(c) :
           /\ c[i] \in Addr /\ recs[c[i]].next = LinkAt(c, i + 1)
           /\ c[i] \in inuse /\ ~recs[c[i]].del
           /\ recs[c[i]].key \in Keys /\ recs[c[i]].val \in Vals
           /\ Hash[recs[c[i]].key] = idx
           /\ \A j \in 1 .. Len(c) : c[i] = c[j] => i = j
      /\ \A b \in Bucket \ {idx} : \A j \in 1 .. Len(chain[b]) :
           /\ chain[b][j] \in Addr /\ chain[b][j] \in inuse
           /\ \A i \in 1 .. Len(c) : c[i] # chain[b][j]
  BY SMTT(30), <1>4, ChainFacts
<1>7. /\ \A i \in 1 .. Len(c) : c[i] # new_rec
      /\ \A b \in Bucket \ {idx} : \A j \in 1 .. Len(chain[b]) : chain[b][j] # new_rec
      /\ new_rec # pp
  BY <1>1, <1>3, <1>4, ConstFacts DEF Unlinked
<1> HIDE DEF c, p, d
<1>8. TypeOK /\ TableInv /\ pp \in Link /\ new_rec \in Link
  BY SMTT(30), <1>3 DEF Inv, TypeOK, Link
<1>9. /\ buckets' \in [Bucket -> Link]
      /\ buckets'[idx] = IF pp = 0 THEN new_rec ELSE buckets[idx]
      /\ \A b \in Bucket \ {idx} : buckets'[b] = buckets[b]
      /\ recs' \in [Addr -> [next : Link, del : BOOLEAN, key : Bytes, val : Bytes]]
      /\ \A a \in Addr :
           /\ recs'[a].next = IF a = pp THEN new_rec ELSE recs[a].next
           /\ recs'[a].del = recs[a].del
           /\ recs'[a].key = recs[a].key
           /\ recs'[a].val = recs[a].val
           /\ a # pp => recs'[a] = recs[a]
      /\ chain' = [chain EXCEPT ![idx] = d]
      /\ reply' = NoReply
      /\ UNCHANGED <<exists, hdr, inuse, op, pp, rec, new_rec, chk>>
  BY SMTT(30), <1>1, <1>4, <1>8, RelinkFacts
<1>10. TypeOK'
  BY ZenonT(30), <1>1, <1>5, <1>8, <1>9 DEF TypeOK, PcStates, OpStates, NoReply, Success
<1>11. TableInv'
  <2>1. buckets'[idx] = LinkAt(d, 1)
    BY <1>4, <1>5, <1>6, <1>9 DEF LinkAt
  <2>2. ASSUME NEW i \in 1 .. Len(d) PROVE recs'[d[i]].next = LinkAt(d, i + 1)
    <3>0. i \in 1 .. Len(c) /\ Len(c) \in Nat
      BY <1>4, <1>5
    <3>1. CASE i = p
      <4>1. recs'[d[i]].next = LinkAt(c, p + 1)
        BY <1>3, <1>4, <1>5, <1>7, <1>9, <3>0, <3>1
      <4>2. LinkAt(c, p + 1) = LinkAt(d, i + 1)
        BY <1>4, <1>5, <3>0, <3>1 DEF LinkAt
      <4> QED BY SMTT(30), <4>1, <4>2
    <3>2. CASE i # p /\ c[i] = pp
      <4>1. i + 1 = p
        BY SMTT(30), <1>4, <1>6, <3>0, <3>2, ConstFacts
      <4>2. recs'[d[i]].next = new_rec
        BY <1>5, <1>6, <1>9, <3>0, <3>2
      <4>3. LinkAt(d, i + 1) = new_rec
        BY <1>4, <1>5, <4>1 DEF LinkAt
      <4> QED BY SMTT(30), <4>2, <4>3
    <3>3. CASE i # p /\ c[i] # pp
      <4>1. i + 1 # p
        <5>1. CASE pp = 0
          BY <1>4, <3>0, <5>1
        <5>2. CASE pp # 0
          <6>1. i + 1 = p => i = p - 1
            BY SMTT(30), <1>4, <3>0
          <6> QED BY <1>4, <3>3, <5>2, <6>1
        <5> QED BY <5>1, <5>2
      <4>2. recs'[d[i]].next = LinkAt(c, i + 1)
        BY <1>5, <1>6, <1>9, <3>0, <3>3
      <4>3. LinkAt(c, i + 1) = LinkAt(d, i + 1)
        BY <1>4, <1>5, <3>0, <4>1 DEF LinkAt
      <4> QED BY <4>2, <4>3
    <3> QED BY <3>1, <3>2, <3>3
  <2>3. \A i, j \in 1 .. Len(d) : d[i] = d[j] => i = j
    BY SMTT(30), <1>5, <1>6, <1>7
  <2>4. \A i \in 1 .. Len(d) :
          /\ d[i] \in inuse /\ ~recs'[d[i]].del
          /\ recs'[d[i]].key \in Keys /\ recs'[d[i]].val \in Vals /\ Hash[recs'[d[i]].key] = idx
    BY SMTT(30), <1>2, <1>3, <1>5, <1>6, <1>9
  <2>5. \A i \in 1 .. Len(d) :
           /\ recs'[d[i]].next = LinkAt(d, i + 1)
           /\ d[i] \in inuse' /\ ~recs'[d[i]].del
           /\ recs'[d[i]].key \in Keys /\ recs'[d[i]].val \in Vals
           /\ Hash[recs'[d[i]].key] = idx
    BY SMTT(30), <1>9, <2>2, <2>4
  <2>6. ASSUME NEW b \in Bucket \ {idx}, NEW j \in 1 .. Len(chain[b])
        PROVE  /\ recs'[chain[b][j]] = recs[chain[b][j]] /\ chain[b][j] \in inuse'
               /\ \A i \in 1 .. Len(d) : d[i] # chain[b][j]
    <3>1. chain[b][j] # pp
      <4>1. p - 1 \in 1 .. Len(c) \/ pp = 0
        BY <1>4
      <4> QED BY <1>4, <1>6, <4>1, ConstFacts
    <3> QED BY <1>5, <1>6, <1>7, <1>9, <3>1
  <2> QED BY ZenonT(30), <1>4, <1>5, <1>8, <1>9, <2>1, <2>3, <2>5, <2>6, RelinkTable
<1>12. Unlinked(rec)'
  <2>1. \A i \in 1 .. Len(d) : d[i] # rec
    BY <1>3, <1>4, <1>5, <1>7
  <2>2. chain'[idx] = d /\ \A b \in Bucket \ {idx} : chain'[b] = chain[b]
    BY SMTT(30), <1>4, <1>8, <1>9 DEF TypeOK
  <2>3. \A b \in Bucket \ {idx} : \A j \in 1 .. Len(chain[b]) : chain[b][j] # rec
    BY SMTT(30), <1>4, <1>6
  <2> QED BY <1>9, <2>1, <2>2, <2>3 DEF Unlinked
<1>13. OpInv'
  BY SMTT(30), <1>1, <1>4, <1>9, <1>12 DEF OpInv, CursorInv, RecInv, NewInv, Before, OpStates, CreateStates
<1>14. FileInv'
  <2>1. \A a \in Addr \ inuse : recs'[a] = recs[a]
    <3>1. pp # 0 => pp \in inuse
      <4>1. pp # 0 => p - 1 \in 1 .. Len(c)
        BY <1>4
      <4> QED BY <1>4, <1>6, <4>1
    <3> QED BY <1>9, <3>1, ConstFacts
  <2> QED BY SMTT(30), <1>1, <1>9, <2>1, SpaceFrame DEF OpStates, CreateStates
<1> QED BY <1>10, <1>11, <1>13, <1>14 DEF Inv

\* *pp = rec->next keeps the invariant: the chain loses rec alone.
LEMMA DelUnlinkInv == Inv /\ del_unlink => Inv'
<1> SUFFICES ASSUME Inv, del_unlink PROVE Inv'
  OBVIOUS
<1> DEFINE c == chain[idx]
           p == PosOf(c, rec)
           d == RemoveAt(c, p)
           n == recs[rec].next
<1>1. /\ pc = "unlink" /\ pc' = "delete" /\ rec # 0 /\ pc \in Before
      /\ Relink(pp, n, d)
  BY SMTT(30) DEF del_unlink, Goto, Before, Inv, OpInv, RecInv
<1>2. /\ idx \in Bucket /\ c \in Seq(Addr)
      /\ p \in 1 .. Len(c) /\ c[p] = rec
      /\ rec \in Addr /\ rec \in inuse
      /\ recs[rec].next = LinkAt(c, p + 1)
      /\ pp = 0 => p = 1
      /\ pp # 0 => p > 1 /\ c[p - 1] = pp /\ pp \in Addr
      /\ \A i \in 1 .. Len(c) : c[i] = rec => i = p
      /\ pp # 0 => \A i \in 1 .. Len(c) : c[i] = pp => i = p - 1
  BY <1>1, CursorPosition
<1>3. /\ d \in Seq(Addr) /\ Len(d) = Len(c) - 1
      /\ \A i \in 1 .. Len(c) - 1 : d[i] = IF i < p THEN c[i] ELSE c[i + 1]
  <2>1. \A s \in Seq(Addr) : \A q \in 1 .. Len(s) :
          /\ RemoveAt(s, q) \in Seq(Addr) /\ Len(RemoveAt(s, q)) = Len(s) - 1
          /\ \A i \in 1 .. Len(s) - 1 : RemoveAt(s, q)[i] = IF i < q THEN s[i] ELSE s[i + 1]
    BY RemoveAtProperties
  <2> HIDE DEF c, p
  <2> QED BY <1>2, <2>1
<1>4. /\ buckets[idx] = LinkAt(c, 1)
      /\ \A i \in 1 .. Len(c) :
           /\ c[i] \in Addr /\ recs[c[i]].next = LinkAt(c, i + 1)
           /\ c[i] \in inuse /\ ~recs[c[i]].del
           /\ recs[c[i]].key \in Keys /\ recs[c[i]].val \in Vals
           /\ Hash[recs[c[i]].key] = idx
           /\ \A j \in 1 .. Len(c) : c[i] = c[j] => i = j
      /\ \A b \in Bucket \ {idx} : \A j \in 1 .. Len(chain[b]) :
           /\ chain[b][j] \in Addr /\ chain[b][j] \in inuse
           /\ \A i \in 1 .. Len(c) : c[i] # chain[b][j]
  BY <1>2, ChainFacts
<1>5. TypeOK /\ TableInv /\ pp \in Link /\ n \in Link
  BY SMTT(30), <1>2 DEF Inv, TypeOK
<1> HIDE DEF c, p, d
<1>6. /\ buckets' \in [Bucket -> Link]
      /\ buckets'[idx] = IF pp = 0 THEN n ELSE buckets[idx]
      /\ \A b \in Bucket \ {idx} : buckets'[b] = buckets[b]
      /\ recs' \in [Addr -> [next : Link, del : BOOLEAN, key : Bytes, val : Bytes]]
      /\ \A a \in Addr :
           /\ recs'[a].next = IF a = pp THEN n ELSE recs[a].next
           /\ recs'[a].del = recs[a].del
           /\ recs'[a].key = recs[a].key
           /\ recs'[a].val = recs[a].val
           /\ a # pp => recs'[a] = recs[a]
      /\ chain' = [chain EXCEPT ![idx] = d]
      /\ reply' = NoReply
      /\ UNCHANGED <<exists, hdr, inuse, op, pp, rec, new_rec, chk>>
  BY <1>1, <1>2, <1>5, RelinkFacts
<1>7. n = LinkAt(c, p + 1)
  BY SMTT(30), <1>2
<1> HIDE DEF n
<1>8. TypeOK'
  BY <1>1, <1>3, <1>5, <1>6 DEF TypeOK, PcStates, OpStates, NoReply, Success
<1>9. Len(c) \in Nat /\ p \in Nat /\ p >= 1 /\ p <= Len(c)
  BY <1>2
\* position k(i) in c of the i-th record of d
<1> DEFINE k(i) == IF i < p THEN i ELSE i + 1
<1>10. \A i \in 1 .. Len(d) : k(i) \in 1 .. Len(c) /\ k(i) # p /\ d[i] = c[k(i)] /\ i \in Nat
  BY <1>3, <1>9
<1> HIDE DEF k
<1>11. \A i \in 1 .. Len(d) : \E q \in 1 .. Len(c) : q # p /\ d[i] = c[q]
  BY <1>10
<1>12. \A i, j \in 1 .. Len(c) : c[i] = c[j] => i = j
  BY SMTT(30), <1>4
<1>13. TableInv'
  <2>1. buckets'[idx] = LinkAt(d, 1)
    <3>1. CASE pp = 0
      BY <1>2, <1>3, <1>6, <1>7, <1>9, <3>1 DEF LinkAt
    <3>2. CASE pp # 0
      BY <1>2, <1>3, <1>4, <1>6, <1>9, <3>2 DEF LinkAt
    <3> QED BY SMTT(30), <3>1, <3>2
  <2>2. ASSUME NEW i \in 1 .. Len(d) PROVE recs'[d[i]].next = LinkAt(d, i + 1)
    <3>1. CASE d[i] = pp
      <4>1. pp # 0
        BY <1>4, <1>10, <3>1, ConstFacts
      <4>2. k(i) = p - 1
        BY <1>2, <1>10, <3>1, <4>1
      <4>3. i = p - 1
        BY SMTT(30), <1>9, <1>10, <4>2 DEF k
      <4>4. recs'[d[i]].next = LinkAt(c, p + 1)
        BY <1>2, <1>6, <1>7, <3>1, <4>1
      <4>5. LinkAt(c, p + 1) = LinkAt(d, i + 1)
        BY <1>3, <1>9, <4>3 DEF LinkAt
      <4> QED BY <4>4, <4>5
    <3>2. CASE d[i] # pp
      <4>1. recs'[d[i]].next = LinkAt(c, k(i) + 1)
        BY <1>4, <1>6, <1>10, <3>2
      <4>2. k(i) + 1 # p
        <5>1. CASE pp = 0
          BY <1>2, <1>9, <1>10, <5>1
        <5>2. CASE pp # 0
          <6>1. k(i) + 1 = p => k(i) = p - 1
            BY SMTT(30), <1>9, <1>10
          <6> QED BY <1>2, <1>10, <3>2, <5>2, <6>1
        <5> QED BY <5>1, <5>2
      <4>3. CASE i < p
        <5>1. i + 1 < p
          BY SMTT(30), <1>9, <1>10, <4>2, <4>3 DEF k
        <5> QED BY <1>3, <1>9, <1>10, <4>1, <4>3, <5>1 DEF LinkAt, k
      <4>4. CASE ~(i < p)
        BY <1>3, <1>9, <1>10, <4>1, <4>4 DEF LinkAt, k
      <4> QED BY SMTT(30), <4>3, <4>4
    <3> QED BY SMTT(30), <3>1, <3>2
  <2>3. ASSUME NEW i \in 1 .. Len(d), NEW j \in 1 .. Len(d), d[i] = d[j] PROVE i = j
    <3>1. PICK q \in 1 .. Len(c) : q = k(i) /\ d[i] = c[q]
      BY <1>10
    <3>2. PICK r \in 1 .. Len(c) : r = k(j) /\ d[j] = c[r]
      BY <1>10
    <3>3. q = r
      <4>1. c[q] = c[r]
        BY ZenonT(30), <2>3, <3>1, <3>2
      <4> QED BY <1>12, <4>1
    <3> QED BY <1>9, <1>10, <3>1, <3>2, <3>3 DEF k
  <2>4. \A i \in 1 .. Len(d) :
           /\ recs'[d[i]].next = LinkAt(d, i + 1)
           /\ d[i] \in inuse' /\ ~recs'[d[i]].del
           /\ recs'[d[i]].key \in Keys /\ recs'[d[i]].val \in Vals
           /\ Hash[recs'[d[i]].key] = idx
    <3> SUFFICES ASSUME NEW i \in 1 .. Len(d)
                 PROVE  /\ d[i] \in inuse' /\ ~recs'[d[i]].del
                        /\ recs'[d[i]].key \in Keys /\ recs'[d[i]].val \in Vals
                        /\ Hash[recs'[d[i]].key] = idx
      BY <2>2
    <3>1. PICK q \in 1 .. Len(c) : d[i] = c[q]
      BY SMTT(30), <1>11
    <3> QED BY SMTT(30), <1>4, <1>6, <3>1
  <2>5. ASSUME NEW b \in Bucket \ {idx}, NEW j \in 1 .. Len(chain[b])
        PROVE  /\ recs'[chain[b][j]] = recs[chain[b][j]] /\ chain[b][j] \in inuse'
               /\ \A i \in 1 .. Len(d) : d[i] # chain[b][j]
    <3>1. chain[b][j] # pp
      <4>1. p - 1 \in 1 .. Len(c) \/ pp = 0
        BY <1>2
      <4> QED BY <1>2, <1>4, <4>1, ConstFacts
    <3>2. \A i \in 1 .. Len(d) : d[i] # chain[b][j]
      <4> SUFFICES ASSUME NEW i \in 1 .. Len(d) PROVE d[i] # chain[b][j]
        OBVIOUS
      <4>1. PICK q \in 1 .. Len(c) : d[i] = c[q]
        BY <1>11
      <4>2. c[q] # chain[b][j]
        BY SMTT(30), <1>4
      <4> QED BY <4>1, <4>2
    <3> QED BY <1>4, <1>6, <3>1, <3>2
  <2> QED BY ZenonT(30), <1>2, <1>3, <1>5, <1>6, <2>1, <2>3, <2>4, <2>5, RelinkTable
<1>14. Unlinked(rec)'
  <2>1. \A i \in 1 .. Len(d) : d[i] # rec
    BY <1>2, <1>10
  <2>2. chain'[idx] = d /\ \A b \in Bucket \ {idx} : chain'[b] = chain[b]
    BY SMTT(30), <1>2, <1>5, <1>6 DEF TypeOK
  <2>3. \A b \in Bucket \ {idx} : \A j \in 1 .. Len(chain[b]) : chain[b][j] # rec
    BY <1>2, <1>4
  <2> QED BY <1>6, <2>1, <2>2, <2>3 DEF Unlinked
<1>15. OpInv'
  BY SMTT(30), <1>1, <1>2, <1>6, <1>14 DEF OpInv, CursorInv, RecInv, NewInv, Before, OpStates, CreateStates
<1>16. FileInv'
  <2>1. \A a \in Addr \ inuse : recs'[a] = recs[a]
    <3>1. pp # 0 => pp \in inuse
      <4>1. pp # 0 => p - 1 \in 1 .. Len(c)
        BY <1>2
      <4> QED BY <1>2, <1>4, <4>1
    <3> QED BY <1>6, <3>1, ConstFacts
  <2> QED BY SMTT(30), <1>1, <1>6, <2>1, SpaceFrame DEF OpStates, CreateStates
<1> QED BY <1>8, <1>13, <1>15, <1>16 DEF Inv
-----------------------------------------------------------------------------
(***************************************************************************)
(* del_rec, return, db_deinit and the end of the process                   *)
(***************************************************************************)
\* DB_REC_DEL keeps the invariant: the record marked is in no chain.
LEMMA DelFlagInv == Inv /\ del_flag => Inv'
<1> SUFFICES ASSUME Inv, del_flag PROVE Inv'
  OBVIOUS
<1> USE DEF Inv, locals
<1>1. /\ pc = "delete" /\ pc' = "num_del++" /\ recs' = [recs EXCEPT ![rec].del = TRUE]
      /\ UNCHANGED <<exists, hdr, buckets, inuse, chain, op, pp, rec, new_rec, chk, reply>>
  BY DEF del_flag, Goto
<1>2. rec \in inuse /\ Unlinked(rec) /\ rec \in Addr
  BY <1>1 DEF OpInv, RecInv, TypeOK
<1> DEFINE r == [recs[rec] EXCEPT !.del = TRUE]
<1>3. /\ recs[rec] \in [next : Link, del : BOOLEAN, key : Bytes, val : Bytes]
      /\ recs' = [recs EXCEPT ![rec] = r]
  BY <1>1, <1>2 DEF TypeOK
<1>4. /\ r \in [next : Link, del : BOOLEAN, key : Bytes, val : Bytes]
      /\ r.key = recs[rec].key /\ r.val = recs[rec].val
  BY <1>3
<1> HIDE DEF r
<1>5. recs'[rec] = r /\ \A a \in Addr \ {rec} : recs'[a] = recs[a]
  BY <1>2, <1>3 DEF TypeOK
<1>6. TypeOK'
  <2>1. recs' \in [Addr -> [next : Link, del : BOOLEAN, key : Bytes, val : Bytes]]
    BY ZenonT(30), <1>3, <1>4 DEF TypeOK
  <2> QED BY <1>1, <2>1 DEF TypeOK, PcStates, OpStates
<1>7. TableInv'
  <2>1. \A b \in Bucket : \A i \in 1 .. Len(chain[b]) :
          chain[b][i] \in Addr \ {rec} /\ chain[b][i] \in inuse
    BY <1>2 DEF Unlinked, TableInv, LinkedRecordsLive, TypeOK
  <2> QED BY <1>1, <1>5, <2>1, RecordsFrame
<1>8. OpInv'
  BY <1>1, <1>2 DEF OpInv, CursorInv, RecInv, NewInv, Before, OpStates, CreateStates, Unlinked
<1>9. FileInv'
  BY <1>1, <1>2, <1>4, <1>5, SpaceFrame DEF OpStates, CreateStates
<1> QED BY <1>6, <1>7, <1>8, <1>9

\* num_del++ keeps the invariant.
LEMMA DelCountInv == Inv /\ del_count => Inv'
<1> SUFFICES ASSUME Inv, del_count PROVE Inv'
  OBVIOUS
<1> USE DEF Inv, del_count, SetHdr, Goto, table, locals
<1>1. /\ hdr' = [hdr EXCEPT !.num_del = hdr.num_del + 1]
      /\ hdr \in [magic : BOOLEAN, version : {0, 1}, num_rec : Nat, num_del : Nat,
                  next_offset : Nat]
  BY DEF TypeOK
<1>2. /\ hdr'.magic = hdr.magic /\ hdr'.version = hdr.version
      /\ hdr'.next_offset = hdr.next_offset
      /\ hdr' \in [magic : BOOLEAN, version : {0, 1}, num_rec : Nat, num_del : Nat,
                   next_offset : Nat]
  BY <1>1
<1>3. TypeOK'
  BY <1>2 DEF TypeOK, PcStates, OpStates
<1>4. TableInv'
  BY TableFrame
<1>5. OpInv'
  BY DEF OpInv, CursorInv, RecInv, NewInv, Before, OpStates, CreateStates
<1>6. FileInv'
  <2>1. db_file => HdrInv'
    BY <1>2 DEF FileInv, HdrInv, InFileInit, OpStates, CreateStates
  <2>2. db_file => SpaceInv'
    BY <1>2 DEF FileInv, SpaceInv, SizeAt
  <2> QED BY <2>1, <2>2 DEF FileInv, InFileInit
<1> QED BY <1>3, <1>4, <1>5, <1>6

\* free in del_rec keeps the invariant: the record freed is in no chain.
LEMMA DelFreeInv == Inv /\ del_free => Inv'
<1> SUFFICES ASSUME Inv, del_free PROVE Inv'
  OBVIOUS
<1> USE DEF Inv, del_free, Goto, locals
<1>1. rec \in inuse /\ Unlinked(rec) /\ rec \in Addr
  BY DEF OpInv, RecInv, TypeOK
<1>2. ZeroRec \in [next : Link, del : BOOLEAN, key : Bytes, val : Bytes]
  BY DEF ZeroRec, Link, Bytes
<1>3. \A a \in Addr \ {rec} : recs'[a] = recs[a]
  BY DEF TypeOK
<1>4. TypeOK'
  BY ZenonT(30), <1>2 DEF TypeOK, PcStates, OpStates
<1>5. TableInv'
  <2>1. \A b \in Bucket : \A i \in 1 .. Len(chain[b]) :
          chain[b][i] \in Addr \ {rec} /\ chain[b][i] \in inuse'
    BY SMTT(30), <1>1 DEF Unlinked, TableInv, LinkedRecordsLive, TypeOK
  <2> QED BY SMTT(30), <1>3, <2>1, RecordsFrame
<1>6. OpInv'
  BY DEF OpInv, CursorInv, RecInv, NewInv, Before, OpStates, CreateStates
<1>7. FileInv'
  BY DEF FileInv, InFileInit
<1> QED BY <1>4, <1>5, <1>6, <1>7

\* The return of an operation keeps the invariant.
LEMMA ReturnInv == Inv /\ return => Inv'
<1> SUFFICES ASSUME Inv, return PROVE Inv'
  OBVIOUS
<1> USE DEF Inv, return, Goto, ResetLocals, store, table, NoChk, NoOp
<1>1. TypeOK'
  BY ConstFacts DEF TypeOK, PcStates, Link, Bytes
<1>2. TableInv'
  BY SMTT(30), TableFrame
<1>3. OpInv'
  BY SMTT(30) DEF OpInv, CursorInv, RecInv, NewInv, Before, OpStates, CreateStates
<1>4. FileInv'
  BY DEF FileInv, HdrInv, SpaceInv, InFileInit, OpStates, CreateStates, SizeAt
<1> QED BY SMTT(30), <1>1, <1>2, <1>3, <1>4

\* Each step of hash_deinit keeps the invariant: the head of a chain is
\* unlinked, then freed.
LEMMA HashDeinitInv == Inv /\ hash_deinit => Inv'
<1> SUFFICES ASSUME Inv, hash_deinit PROVE Inv'
  OBVIOUS
<1> USE DEF Inv
<1>1. /\ ~db_file /\ pc \in {"idle", "deinit"} /\ pc' \in {"deinit", "deinit_done"}
      /\ reply' = NoReply
      /\ UNCHANGED <<exists, hdr, op, pp, rec, new_rec, chk>>
  BY DEF hash_deinit, locals
<1>2. FileInv'
  BY SMTT(30), <1>1 DEF FileInv, InFileInit
<1>3. OpInv'
  BY <1>1 DEF OpInv, CursorInv, RecInv, NewInv, Before, OpStates, CreateStates
<1>4. CASE UNCHANGED table
  BY ZenonT(30), <1>1, <1>2, <1>3, <1>4, TableFrame DEF table, TypeOK, PcStates, NoReply, Success
<1>5. CASE ~UNCHANGED table
  <2>1. PICK b \in Bucket :
          /\ buckets[b] # 0
          /\ buckets' = [buckets EXCEPT ![b] = recs[buckets[b]].next]
          /\ inuse' = inuse \ {buckets[b]}
          /\ recs' = [recs EXCEPT ![buckets[b]] = ZeroRec]
          /\ chain' = [chain EXCEPT ![b] = Tail(chain[b])]
    BY <1>5 DEF hash_deinit
  <2> DEFINE c == chain[b]
             a == buckets[b]
             d == Tail(c)
  <2>2. c \in Seq(Addr) /\ a = LinkAt(c, 1) /\ Len(c) \in Nat
    BY DEF TypeOK, TableInv, ChainsSound, LinksFollowChain
  <2>3. Len(c) >= 1 /\ a = c[1] /\ a \in Addr /\ c # <<>>
    BY <2>1, <2>2 DEF LinkAt
  <2>4. d \in Seq(Addr) /\ Len(d) = Len(c) - 1 /\ \A i \in 1 .. Len(d) : d[i] = c[i + 1]
    <3>1. \A s \in Seq(Addr) : s # <<>> =>
            /\ Tail(s) \in Seq(Addr) /\ Len(Tail(s)) = Len(s) - 1
            /\ \A i \in 1 .. Len(Tail(s)) : Tail(s)[i] = s[i + 1]
      BY SMTT(30), HeadTailProperties
    <3> HIDE DEF c
    <3> QED BY <2>2, <2>3, <3>1
  <2>5. /\ \A i \in 1 .. Len(c) :
             /\ c[i] \in Addr /\ recs[c[i]].next = LinkAt(c, i + 1)
             /\ c[i] \in inuse /\ ~recs[c[i]].del
             /\ recs[c[i]].key \in Keys /\ recs[c[i]].val \in Vals
             /\ Hash[recs[c[i]].key] = b
             /\ \A j \in 1 .. Len(c) : c[i] = c[j] => i = j
        /\ \A e \in Bucket \ {b} : \A j \in 1 .. Len(chain[e]) :
             /\ chain[e][j] \in Addr /\ chain[e][j] \in inuse
             /\ \A i \in 1 .. Len(c) : c[i] # chain[e][j]
    BY SMTT(30) DEF TypeOK, TableInv, ChainsSound, LinksFollowChain, ChainsDisjoint, LinkedRecordsLive
  <2>6. recs[a].next \in Link /\ recs[a].next = LinkAt(c, 2)
    <3>1. 1 \in 1 .. Len(c) /\ 1 + 1 = 2
      BY <2>2, <2>3
    <3> QED BY <2>3, <2>5, <3>1 DEF TypeOK
  <2>7. ZeroRec \in [next : Link, del : BOOLEAN, key : Bytes, val : Bytes]
    BY DEF ZeroRec, Link, Bytes
  <2>8. /\ buckets'[b] = recs[a].next
        /\ \A e \in Bucket \ {b} : buckets'[e] = buckets[e]
        /\ \A e \in Addr \ {a} : recs'[e] = recs[e]
    BY SMTT(30), <2>1 DEF TypeOK
  <2>9. TypeOK'
    <3>1. buckets' \in [Bucket -> Link]
      BY <2>1, <2>6 DEF TypeOK
    <3>2. recs' \in [Addr -> [next : Link, del : BOOLEAN, key : Bytes, val : Bytes]]
      BY ZenonT(30), <2>1, <2>7 DEF TypeOK
    <3>3. chain' \in [Bucket -> Seq(Addr)] /\ inuse' \in SUBSET Addr
      BY SMTT(30), <2>1, <2>4 DEF TypeOK
    <3> QED BY SMTT(30), <1>1, <3>1, <3>2, <3>3 DEF TypeOK, PcStates, NoReply, Success
  <2>10. chain' = [chain EXCEPT ![b] = d] /\ inuse' = inuse \ {a}
    BY SMTT(30), <2>1
  <2> HIDE DEF c, a, d
  <2>11. \A i \in 1 .. Len(d) : i + 1 \in 1 .. Len(c) /\ d[i] = c[i + 1] /\ d[i] # a
    <3> SUFFICES ASSUME NEW i \in 1 .. Len(d)
                 PROVE  i + 1 \in 1 .. Len(c) /\ d[i] = c[i + 1] /\ d[i] # a
      OBVIOUS
    <3>1. i + 1 \in 1 .. Len(c) /\ d[i] = c[i + 1] /\ 1 \in 1 .. Len(c) /\ i + 1 # 1
      BY SMTT(30), <2>2, <2>3, <2>4
    <3> QED BY <2>3, <2>5, <3>1
  <2>12. TableInv'
    <3>1. buckets'[b] = LinkAt(d, 1)
      BY SMTT(30), <2>2, <2>3, <2>4, <2>6, <2>8 DEF LinkAt
    <3>2. ASSUME NEW i \in 1 .. Len(d)
          PROVE  /\ recs'[d[i]].next = LinkAt(d, i + 1)
                 /\ d[i] \in inuse' /\ ~recs'[d[i]].del
                 /\ recs'[d[i]].key \in Keys /\ recs'[d[i]].val \in Vals
                 /\ Hash[recs'[d[i]].key] = b
      <4>1. i + 1 \in 1 .. Len(c) /\ d[i] = c[i + 1] /\ d[i] # a
        BY SMTT(30), <2>11
      <4>2. recs'[d[i]] = recs[c[i + 1]]
        BY <2>5, <2>8, <4>1
      <4>3. LinkAt(c, (i + 1) + 1) = LinkAt(d, i + 1)
        <5>1. i + 1 <= Len(d) <=> (i + 1) + 1 <= Len(c)
          BY <2>2, <2>4
        <5>2. i + 1 <= Len(d) => d[i + 1] = c[(i + 1) + 1]
          BY <2>2, <2>4
        <5> QED BY <5>1, <5>2 DEF LinkAt
      <4> QED BY <2>5, <2>10, <4>1, <4>2, <4>3
    <3>3. ASSUME NEW i \in 1 .. Len(d), NEW j \in 1 .. Len(d), d[i] = d[j] PROVE i = j
      <4>1. i + 1 = j + 1
        BY SMTT(30), <2>5, <2>11, <3>3
      <4> QED BY SMTT(30), <4>1
    <3>4. ASSUME NEW e \in Bucket \ {b}, NEW j \in 1 .. Len(chain[e])
          PROVE  /\ recs'[chain[e][j]] = recs[chain[e][j]] /\ chain[e][j] \in inuse'
                 /\ \A i \in 1 .. Len(d) : d[i] # chain[e][j]
      <4>1. chain[e][j] # a
        BY SMTT(30), <2>2, <2>3, <2>5
      <4> QED BY SMTT(30), <2>5, <2>8, <2>10, <2>11, <4>1
    <3> QED BY ZenonT(30), <2>4, <2>8, <2>10, <3>1, <3>2, <3>3, <3>4, RelinkTable
  <2> QED BY SMTT(30), <1>2, <1>3, <2>9, <2>12
<1> QED BY SMTT(30), <1>4, <1>5

\* The death of the process keeps the invariant: the file holds a whole table.
LEMMA DieInv == Inv /\ die => Inv'
<1> SUFFICES ASSUME Inv, die PROVE Inv'
  OBVIOUS
<1> USE DEF Inv, die, ResetLocals, table, NoChk, NoOp
<1>1. CASE db_file
  <2>1. TypeOK'
    BY ZenonT(30), <1>1, ConstFacts DEF TypeOK, PcStates, Link, Bytes, NoReply, Success
  <2>2. TableInv'
    BY SMTT(30), <1>1, TableFrame
  <2>3. OpInv'
    BY SMTT(30) DEF OpInv, CursorInv, RecInv, NewInv, Before, OpStates, CreateStates
  <2>4. FileInv'
    BY <1>1 DEF FileInv, HdrInv, SpaceInv, InFileInit, OpStates, CreateStates, SizeAt, NoChains
  <2> QED BY SMTT(30), <2>1, <2>2, <2>3, <2>4
<1>2. CASE ~db_file
  <2>1. buckets' = NoLinks /\ recs' = NoRecs /\ inuse' = {} /\ chain' = NoChains
    BY SMTT(30), <1>2
  <2>2. ZeroRec \in [next : Link, del : BOOLEAN, key : Bytes, val : Bytes]
    BY SMTT(30) DEF ZeroRec, Link, Bytes
  <2>3. /\ NoLinks \in [Bucket -> Link]
        /\ NoRecs \in [Addr -> [next : Link, del : BOOLEAN, key : Bytes, val : Bytes]]
        /\ NoChains \in [Bucket -> Seq(Addr)]
    BY SMTT(30), <2>2 DEF NoLinks, NoRecs, NoChains, Link
  <2>4. TypeOK'
    BY <2>1, <2>3, ConstFacts DEF TypeOK, PcStates, Link, Bytes, NoReply, Success
  <2>5. \A b \in Bucket : Len(NoChains[b]) = 0 /\ NoLinks[b] = 0
    BY SMTT(30) DEF NoChains, NoLinks
  <2>6. TableInv'
    BY <2>1, <2>5 DEF TableInv, ChainsSound, LinksFollowChain, ChainsDisjoint,
       LinkedRecordsLive, LinkAt
  <2>7. OpInv'
    BY DEF OpInv, CursorInv, RecInv, NewInv, Before, OpStates, CreateStates
  <2>8. FileInv'
    BY <1>2 DEF FileInv, InFileInit
  <2> QED BY <2>4, <2>6, <2>7, <2>8
<1> QED BY SMTT(30), <1>1, <1>2
-----------------------------------------------------------------------------
\* A stuttering step keeps the invariant.
LEMMA StutterInv == Inv /\ UNCHANGED vars => Inv'
<1> SUFFICES ASSUME Inv, UNCHANGED vars PROVE Inv'
  OBVIOUS
<1> USE DEF Inv, vars, store, table, locals
<1>1. TypeOK'
  BY DEF TypeOK
<1>2. TableInv'
  BY SMTT(30), TableFrame
<1>3. OpInv'
  BY SMTT(30) DEF OpInv, CursorInv, RecInv, NewInv, LinkedIn, Unlinked, idx, At
<1>4. FileInv'
  BY SMTT(30) DEF FileInv, HdrInv, SpaceInv, SizeAt, rec_size, LinkedIn
<1> QED BY <1>1, <1>2, <1>3, <1>4

\* The invariant is inductive: every step of db.c keeps it.
LEMMA NextInv == Inv /\ [Next]_vars => Inv'
  BY HashInitInv, FileOpenInv, FileNewInv, FileCheckInv, CallInv, WalkNextInv,
     WalkFoundInv, WalkEndInv, CreateFailsInv, CreateFileInv, CreateCountInv,
     CreateMemInv, CreateFillInv, PutNextInv, PutInsertInv, PutReplaceInv,
     DelUnlinkInv, DelFlagInv, DelCountInv, DelFreeInv, ReturnInv, HashDeinitInv,
     DieInv, StutterInv
  DEF Next, db_init, walk, create_rec, relink, del_rec, operation

(***************************************************************************)
(* The strengthened invariant holds of every state of db.c, whatever the   *)
(* keys, the hash function and the file size, through any crashes.         *)
(***************************************************************************)
THEOREM InvHolds == Spec => []Inv
<1>1. Init => Inv
  BY InitInv
<1>2. Inv /\ [Next]_vars => Inv'
  BY NextInv
<1> QED BY <1>1, <1>2, PTL DEF Spec

(***************************************************************************)
(* Type correctness of the store.                                          *)
(***************************************************************************)
THEOREM TypeCorrect == Spec => []TypeOK
<1>1. Inv => TypeOK
  BY DEF Inv
<1> QED BY <1>1, InvHolds, PTL

(***************************************************************************)
(* The chains of db_buckets are whole between any two stores of hash_put,  *)
(* hash_del and db_deinit, and hence after a crash at any point.           *)
(***************************************************************************)
THEOREM ChainsAlwaysSound == Spec => []ChainsSound
<1>1. Inv => ChainsSound
  BY DEF Inv, TableInv
<1> QED BY <1>1, InvHolds, PTL

(***************************************************************************)
(* No chain reaches a freed, deleted or half-written record.               *)
(***************************************************************************)
THEOREM LinkedAlwaysLive == Spec => []LinkedRecordsLive
<1>1. Inv => LinkedRecordsLive
  BY DEF Inv, TableInv
<1> QED BY <1>1, InvHolds, PTL

(***************************************************************************)
(* create_rec never hands out the bytes of another record of the file.     *)
(***************************************************************************)
THEOREM RecordsAlwaysDisjoint == Spec => []RecordsDisjoint
<1>1. Inv => RecordsDisjoint
  <2> SUFFICES ASSUME Inv, db_file
               PROVE  /\ \A a \in inuse : a + SizeAt(a) <= DbSize
                      /\ \A a, b \in inuse : a < b => a + SizeAt(a) <= b
    BY DEF RecordsDisjoint
  <2>1. SpaceInv
    BY DEF Inv, FileInv
  <2>2. ASSUME NEW a \in inuse PROVE a + SizeAt(a) <= DbSize
    <3>1. /\ a \in Nat /\ SizeAt(a) \in Nat /\ hdr.next_offset \in Nat /\ DbSize \in Nat
      BY SizeAtType, ConstFacts DEF Inv, TypeOK
    <3>2. a + SizeAt(a) <= hdr.next_offset /\ hdr.next_offset <= DbSize
      BY <2>1 DEF SpaceInv
    <3> QED BY SMTT(30), <3>1, <3>2
  <2> QED BY <2>1, <2>2 DEF SpaceInv
<1> QED BY <1>1, InvHolds, PTL

(***************************************************************************)
(* file_check accepts every file whose header was completely written.      *)
(***************************************************************************)
THEOREM InitialisedFileAlwaysOpens == Spec => []InitialisedFileOpens
<1>1. Inv => InitialisedFileOpens
  <2> SUFFICES ASSUME Inv, db_file, hdr.next_offset >= Base, pc = "failed" PROVE FALSE
    BY DEF InitialisedFileOpens
  <2>1. hdr.next_offset = 0
    BY DEF Inv, FileInv, HdrInv
  <2> QED BY <2>1, ConstFacts
<1> QED BY <1>1, InvHolds, PTL
=============================================================================
