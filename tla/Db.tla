--------------------------------- MODULE Db ---------------------------------
(***************************************************************************)
(* The key-value store of db.c: a chained hash table whose records live    *)
(* either in a memory-mapped file (db_file) or on the heap.                *)
(*                                                                         *)
(* Every action ends with at most one store that outlives the process, in  *)
(* the order of the source, so that a crash can fall between any two       *)
(* stores.  The mapping is MAP_SHARED: a killed process loses nothing it   *)
(* has stored.                                                             *)
(*                                                                         *)
(* A link is the offset (file) or address (heap) of a record, 0 is the end *)
(* of a chain.  `chain' is a history variable: the sequence of records     *)
(* linked in each bucket, updated by the store that links or unlinks.      *)
(***************************************************************************)
EXTENDS Integers, Sequences, SequencesExt, FiniteSets

CONSTANTS
  Keys,        \* byte strings used as keys
  Vals,        \* byte strings used as values
  NumBuckets,  \* DB_NUM_BUCKETS
  Hash,        \* calc_hash: key -> bucket
  RecHdr,      \* sizeof(struct db_rec)
  Base,        \* offset of the first record: sizeof(struct db_hdr) + table
  DbSize,      \* db_size
  db_file,     \* TRUE: mmap file, FALSE: heap
  InitFaults   \* TRUE: the process may die, or a call fail, inside file_init

Bucket == 0 .. NumBuckets - 1
Addr == Base .. DbSize - 1
Link == {0} \cup Addr
Bytes == Keys \cup Vals \cup {<<>>}

ASSUME DbConstants ==
  /\ NumBuckets \in Nat \ {0}
  /\ Hash \in [Keys -> Bucket]
  /\ RecHdr \in Nat \ {0}
  /\ Base \in Nat \ {0}
  /\ DbSize \in Nat
  /\ Base <= DbSize
  /\ db_file \in BOOLEAN
  /\ InitFaults \in BOOLEAN
  /\ \A b \in Bytes : b \in Seq(Int)

VARIABLES
  exists,   \* the file exists (a new or extended file reads as zeros)
  hdr,      \* struct db_hdr
  buckets,  \* db_buckets
  recs,     \* the records
  inuse,    \* addresses handed out by create_rec and not freed
  chain,    \* history: the records linked in each bucket, in order
  pc,       \* where the process is
  op,       \* the running operation and its arguments
  pp,       \* the link being looked at: 0 is &db_buckets[idx], else &rec->next
  rec,      \* the record that matched the key
  new_rec,  \* the record being created
  chk,      \* file_check: current bucket and link
  reply     \* what the last completed operation returned

table == <<buckets, recs, inuse, chain>>
store == <<exists, hdr, table>>
locals == <<op, pp, rec, new_rec, chk>>
vars == <<store, locals, pc, reply>>

NoOp == [cmd |-> "none", key |-> <<>>, val |-> <<>>]
NoChk == [b |-> 0, link |-> 0]
Success(v) == [rc |-> 0, val |-> v]
Failure == [rc |-> -1, val |-> {}]
NoReply == Success({})

ZeroRec == [next |-> 0, del |-> FALSE, key |-> <<>>, val |-> <<>>]
RecSize(k, v) == RecHdr + Len(k) + Len(v)

NoLinks == [b \in Bucket |-> 0]
NoRecs == [a \in Addr |-> ZeroRec]
NoChains == [b \in Bucket |-> <<>>]

ResetLocals == op' = NoOp /\ pp' = 0 /\ rec' = 0 /\ new_rec' = 0 /\ chk' = NoChk

Init ==
  /\ exists = FALSE
  /\ hdr = [magic |-> FALSE, version |-> 0, num_rec |-> 0, num_del |-> 0,
            next_offset |-> 0]
  /\ buckets = NoLinks /\ recs = NoRecs /\ inuse = {} /\ chain = NoChains
  /\ pc = "down"
  /\ op = NoOp /\ pp = 0 /\ rec = 0 /\ new_rec = 0 /\ chk = NoChk
  /\ reply = NoReply

Goto(from, to) == pc = from /\ pc' = to

\* a step whose only lasting effect is on the file header
SetHdr(from, to, h) ==
  Goto(from, to) /\ hdr' = h /\ UNCHANGED <<exists, table, locals, reply>>
-----------------------------------------------------------------------------
(***************************************************************************)
(* db_init                                                                 *)
(***************************************************************************)
\* an empty table on the heap
hash_init ==
  /\ ~db_file
  /\ Goto("down", "idle")
  /\ UNCHANGED <<store, locals, reply>>

\* open(O_CREAT|O_EXCL), or open what is there; ftruncate; mmap
file_open ==
  /\ db_file
  /\ pc \in {"down", "failed"}
  /\ exists' = TRUE
  /\ \/ pc' = IF exists THEN "check" ELSE "magic"
     \/ InitFaults /\ pc' = "down"  \* fstat, ftruncate or mmap fails: exit
  /\ UNCHANGED <<hdr, table, locals, reply>>

\* a new file: the header is stored field by field, then the table
file_new ==
  \/ SetHdr("magic", "version", [hdr EXCEPT !.magic = TRUE])
  \/ SetHdr("version", "num_rec", [hdr EXCEPT !.version = 1])
  \/ SetHdr("num_rec", "next_offset", [hdr EXCEPT !.num_rec = 0])
  \/ SetHdr("next_offset", "memset", [hdr EXCEPT !.next_offset = Base])
  \/ /\ Goto("memset", "idle")
     /\ buckets' = NoLinks
     /\ UNCHANGED <<exists, hdr, recs, inuse, chain, locals, reply>>

Truncated(a) ==
  \/ a + RecHdr > DbSize
  \/ a + RecSize(recs[a].key, recs[a].val) > DbSize

\* magic and version, then one record of one chain at a time
file_check ==
  /\ \/ /\ pc = "check"
        /\ pc' = IF hdr.magic /\ hdr.version = 1 THEN "check_chain" ELSE "failed"
        /\ chk' = [b |-> 0, link |-> buckets[0]]
     \/ /\ pc = "check_chain" /\ chk.link # 0
        /\ pc' = IF Truncated(chk.link) THEN "failed" ELSE pc
        /\ chk' = [chk EXCEPT !.link = recs[chk.link].next]
     \/ /\ pc = "check_chain" /\ chk.link = 0 /\ chk.b + 1 \in Bucket
        /\ pc' = pc
        /\ chk' = [b |-> chk.b + 1, link |-> buckets[chk.b + 1]]
     \/ /\ Goto("check_chain", "idle") /\ chk.link = 0 /\ chk.b + 1 \notin Bucket
        /\ chk' = NoChk
  /\ UNCHANGED <<store, op, pp, rec, new_rec, reply>>
-----------------------------------------------------------------------------
(***************************************************************************)
(* db_set, db_get and db_del: the walk along the chain                     *)
(***************************************************************************)
idx == Hash[op.key]
At(link) == IF link = 0 THEN buckets[idx] ELSE recs[link].next  \* *pp

\* the server calls db_set, db_get or db_del
call ==
  /\ Goto("idle", "walk")
  /\ \E k \in Keys :
       \/ \E v \in Vals : op' = [cmd |-> "set", key |-> k, val |-> v]
       \/ \E cmd \in {"get", "del"} : op' = [cmd |-> cmd, key |-> k, val |-> <<>>]
  /\ reply' = NoReply
  /\ UNCHANGED <<store, pp, rec, new_rec, chk>>

\* mutant: the key is compared with the whole record
CmpWholeRecord(key, a) == {key = recs[a].key \o recs[a].val}

(***************************************************************************)
(* slice_cmpmem(key, rec->data, key.len): key.len bytes are compared with  *)
(* the key and value stored one after the other.  When the record holds    *)
(* fewer bytes the comparison runs on into whatever follows it: then the   *)
(* answer is not determined by the record.                                 *)
(***************************************************************************)
CmpOutcomes(key, a) ==
  LET data == recs[a].key \o recs[a].val
  IN  IF Len(key) <= Len(data)
        THEN {IsPrefix(key, data)}
        ELSE IF IsPrefix(data, key) THEN BOOLEAN ELSE {FALSE}

\* mutant: pp is not advanced
walk_next_stuck ==
  /\ pc = "walk"
  /\ At(pp) # 0
  /\ FALSE \in CmpOutcomes(op.key, At(pp))
  /\ pp' = pp
  /\ UNCHANGED <<store, op, rec, new_rec, chk, pc, reply>>

\* the record at *pp has another key
walk_next ==
  /\ pc = "walk"
  /\ At(pp) # 0
  /\ FALSE \in CmpOutcomes(op.key, At(pp))
  /\ pp' = At(pp)
  /\ UNCHANGED <<store, op, rec, new_rec, chk, pc, reply>>

\* mutant: db_get forgets to skip the key in rec->data
walk_found_data ==
  /\ pc = "walk"
  /\ At(pp) # 0
  /\ TRUE \in CmpOutcomes(op.key, At(pp))
  /\ rec' = At(pp)
  /\ pc' = [set |-> "create", del |-> "unlink", get |-> "return"][op.cmd]
  /\ reply' = IF op.cmd = "get"
                THEN Success({recs[At(pp)].key \o recs[At(pp)].val}) ELSE reply
  /\ UNCHANGED <<store, op, pp, new_rec, chk>>

\* the record at *pp matches; db_get returns its value
walk_found ==
  /\ pc = "walk"
  /\ At(pp) # 0
  /\ TRUE \in CmpOutcomes(op.key, At(pp))
  /\ rec' = At(pp)
  /\ pc' = [set |-> "create", del |-> "unlink", get |-> "return"][op.cmd]
  /\ reply' = IF op.cmd = "get" THEN Success({recs[At(pp)].val}) ELSE reply
  /\ UNCHANGED <<store, op, pp, new_rec, chk>>

walk_end ==
  /\ pc = "walk"
  /\ At(pp) = 0
  /\ pc' = IF op.cmd = "set" THEN "create" ELSE "return"
  /\ reply' = IF op.cmd = "set" THEN reply ELSE Failure
  /\ UNCHANGED <<store, locals>>
-----------------------------------------------------------------------------
(***************************************************************************)
(* create_rec                                                              *)
(***************************************************************************)
\* mutant: the record's size leaves out the value
rec_size_of_key == RecHdr + Len(op.key)

rec_size == RecSize(op.key, op.val)

\* mutant: hash_put ignores that create_rec failed
create_fails_unseen ==
  /\ Goto("create", "return")
  /\ db_file => hdr.next_offset + rec_size > DbSize
  /\ reply' = NoReply
  /\ UNCHANGED <<store, locals>>

\* the file is full, or malloc fails
create_fails ==
  /\ Goto("create", "return")
  /\ db_file => hdr.next_offset + rec_size > DbSize
  /\ reply' = Failure
  /\ UNCHANGED <<store, locals>>

\* db_hdr->next_offset += rec_size
create_file ==
  /\ db_file
  /\ Goto("create", "num_rec++")
  /\ hdr.next_offset + rec_size <= DbSize
  /\ new_rec' = hdr.next_offset
  /\ hdr' = [hdr EXCEPT !.next_offset = @ + rec_size]
  /\ inuse' = inuse \cup ({hdr.next_offset} \cap Addr)
  /\ UNCHANGED <<exists, buckets, recs, chain, op, pp, rec, chk, reply>>

\* mutant: records are not counted
create_uncounted == SetHdr("num_rec++", "fill", hdr)

\* db_hdr->num_rec++
create_count == SetHdr("num_rec++", "fill", [hdr EXCEPT !.num_rec = @ + 1])

\* malloc
create_mem ==
  /\ ~db_file
  /\ Goto("create", "fill")
  /\ \E a \in Addr \ inuse : new_rec' = a /\ inuse' = inuse \cup {a}
  /\ UNCHANGED <<exists, hdr, buckets, recs, chain, op, pp, rec, chk, reply>>

\* mutant: a value is replaced in place
create_in_place ==
  /\ pc = "fill"
  /\ pc' = "next"
  /\ recs' = [recs EXCEPT ![IF rec # 0 THEN rec ELSE new_rec] =
               [next |-> @.next, del |-> FALSE, key |-> op.key, val |-> op.val]]
  /\ UNCHANGED <<exists, hdr, buckets, inuse, chain, locals, reply>>

\* the fields of a record no link reaches yet; at an offset below Base the
\* stores hit the header and the table instead, and nothing is known any more
create_fill ==
  /\ pc = "fill"
  /\ \/ /\ new_rec \in Addr
        /\ pc' = "next"
        /\ recs' = [recs EXCEPT ![new_rec] =
                     [next |-> 0, del |-> FALSE, key |-> op.key, val |-> op.val]]
     \/ new_rec \notin Addr /\ pc' = "overwritten" /\ recs' = recs
  /\ UNCHANGED <<exists, hdr, buckets, inuse, chain, locals, reply>>
-----------------------------------------------------------------------------
(***************************************************************************)
(* hash_put and hash_del: the stores to the links                          *)
(***************************************************************************)
\* mutant: new_rec->next is loaded from the link after it was set
put_next_late ==
  /\ Goto("next", "link")
  /\ recs' = [recs EXCEPT ![new_rec].next = new_rec]
  /\ UNCHANGED <<exists, hdr, buckets, inuse, chain, locals, reply>>

\* new_rec->next
put_next ==
  /\ Goto("next", "link")
  /\ recs' = [recs EXCEPT ![new_rec].next =
               IF rec # 0 THEN recs[rec].next ELSE buckets[idx]]
  /\ UNCHANGED <<exists, hdr, buckets, inuse, chain, locals, reply>>

PosOf(s, a) == CHOOSE i \in 1 .. Len(s) : s[i] = a

\* the store that makes a db_set or db_del effective: *at = link
Relink(at, link, newchain) ==
  /\ IF at = 0
       THEN buckets' = [buckets EXCEPT ![idx] = link] /\ recs' = recs
       ELSE recs' = [recs EXCEPT ![at].next = link] /\ buckets' = buckets
  /\ chain' = [chain EXCEPT ![idx] = newchain]
  /\ reply' = NoReply
  /\ UNCHANGED <<exists, hdr, inuse, locals>>

\* a new key: the record becomes the head of its bucket
put_insert ==
  /\ rec = 0
  /\ Goto("link", "return")
  /\ Relink(0, new_rec, Cons(new_rec, chain[idx]))

\* mutant: the old record is deleted but stays linked
put_replace_unlinked ==
  /\ rec # 0
  /\ Goto("link", "delete")
  /\ Relink(pp, At(pp), chain[idx])

\* a known key: the new record takes the place of the old one
put_replace ==
  /\ rec # 0
  /\ Goto("link", "delete")
  /\ Relink(pp, new_rec, ReplaceAt(chain[idx], PosOf(chain[idx], rec), new_rec))

\* mutant: hash_del forgets del_rec
del_unlink_only ==
  /\ Goto("unlink", "return")
  /\ Relink(pp, recs[rec].next, RemoveAt(chain[idx], PosOf(chain[idx], rec)))

\* hash_del: *pp = rec->next
del_unlink ==
  /\ Goto("unlink", "delete")
  /\ Relink(pp, recs[rec].next, RemoveAt(chain[idx], PosOf(chain[idx], rec)))

\* del_rec, file: rec->flags |= DB_REC_DEL, then num_del++
del_flag ==
  /\ db_file
  /\ Goto("delete", "num_del++")
  /\ recs' = [recs EXCEPT ![rec].del = TRUE]
  /\ UNCHANGED <<exists, hdr, buckets, inuse, chain, locals, reply>>
del_count == SetHdr("num_del++", "return", [hdr EXCEPT !.num_del = @ + 1])

\* del_rec, heap: free
del_free ==
  /\ ~db_file
  /\ Goto("delete", "return")
  /\ inuse' = inuse \ {rec}
  /\ recs' = [recs EXCEPT ![rec] = ZeroRec]
  /\ UNCHANGED <<exists, hdr, buckets, chain, locals, reply>>

\* the operation returns to the server
return ==
  /\ Goto("return", "idle")
  /\ ResetLocals
  /\ UNCHANGED <<store, reply>>
-----------------------------------------------------------------------------
(***************************************************************************)
(* The end of the process                                                  *)
(***************************************************************************)
\* db_deinit on the heap: free the head of the first chain until all are empty
hash_deinit ==
  /\ ~db_file
  /\ pc \in {"idle", "deinit"}
  /\ \/ \E b \in Bucket :
          /\ buckets[b] # 0
          /\ \A c \in Bucket : c < b => buckets[c] = 0
          /\ pc' = "deinit"
          /\ buckets' = [buckets EXCEPT ![b] = recs[@].next]
          /\ inuse' = inuse \ {buckets[b]}
          /\ recs' = [recs EXCEPT ![buckets[b]] = ZeroRec]
          /\ chain' = [chain EXCEPT ![b] = Tail(@)]
     \/ /\ \A b \in Bucket : buckets[b] = 0
        /\ pc' = "deinit_done"
        /\ UNCHANGED table
  /\ reply' = NoReply
  /\ UNCHANGED <<exists, hdr, locals>>

InFileInit == {"magic", "version", "num_rec", "next_offset", "memset"}

\* the process is killed, or exits: the file keeps what has been stored
die ==
  /\ pc \notin {"down", "failed", "overwritten"}
  /\ pc \in InFileInit => InitFaults
  /\ pc' = "down"
  /\ ResetLocals
  /\ reply' = NoReply
  /\ IF db_file
       THEN UNCHANGED table
       ELSE buckets' = NoLinks /\ recs' = NoRecs /\ inuse' = {} /\ chain' = NoChains
  /\ UNCHANGED <<exists, hdr>>

db_init == hash_init \/ file_open \/ file_new \/ file_check
walk == walk_next \/ walk_found \/ walk_end
create_rec == create_fails \/ create_file \/ create_count \/ create_mem \/ create_fill
relink == put_next \/ put_insert \/ put_replace \/ del_unlink
del_rec == del_flag \/ del_count \/ del_free
operation == walk \/ create_rec \/ relink \/ del_rec \/ return

Next == db_init \/ call \/ operation \/ hash_deinit \/ die

Spec == Init /\ [][Next]_vars

\* one thread that never blocks inside an operation
FairSpec == Spec /\ WF_vars(operation)
-----------------------------------------------------------------------------
(***************************************************************************)
(* Properties                                                              *)
(***************************************************************************)
CreateStates == {"num_rec++", "fill", "next", "link"}
OpStates == {"walk", "create", "unlink", "delete", "num_del++", "return"} \cup CreateStates
PcStates == OpStates \cup InFileInit \cup {"down", "check", "check_chain", "failed",
              "idle", "deinit", "deinit_done", "overwritten"}

\* Every variable has its C type.
TypeOK ==
  /\ exists \in BOOLEAN
  /\ hdr \in [magic : BOOLEAN, version : {0, 1}, num_rec : Nat, num_del : Nat,
              next_offset : Nat]
  /\ buckets \in [Bucket -> Link]
  /\ recs \in [Addr -> [next : Link, del : BOOLEAN, key : Bytes, val : Bytes]]
  /\ inuse \in SUBSET Addr
  /\ chain \in [Bucket -> Seq(Addr)]
  /\ pc \in PcStates
  /\ op \in [cmd : {"none", "set", "get", "del"}, key : Bytes, val : Bytes]
  /\ pp \in Link /\ rec \in Link /\ new_rec \in Nat
  /\ chk \in [b : Bucket, link : Link]
  /\ reply \in [rc : {0, -1}, val : SUBSET Vals]

Linked == UNION {{chain[b][i] : i \in 1 .. Len(chain[b])} : b \in Bucket}
LinkAt(s, i) == IF i <= Len(s) THEN s[i] ELSE 0

(***************************************************************************)
(* Following the links from db_buckets[b], at any instant and after any    *)
(* crash, visits the records of chain[b] once each and ends: no store of   *)
(* hash_put or hash_del, taken alone, breaks, loops or crosses a chain.    *)
(***************************************************************************)
LinksFollowChain ==
  \A b \in Bucket :
    /\ buckets[b] = LinkAt(chain[b], 1)
    /\ \A i \in 1 .. Len(chain[b]) :
         recs[chain[b][i]].next = LinkAt(chain[b], i + 1)
ChainsDisjoint ==
  \A b, c \in Bucket :
    \A i \in 1 .. Len(chain[b]), j \in 1 .. Len(chain[c]) :
      chain[b][i] = chain[c][j] => b = c /\ i = j
ChainsSound == LinksFollowChain /\ ChainsDisjoint

(***************************************************************************)
(* A record a chain reaches is allocated (not freed, on the heap), not     *)
(* marked DB_REC_DEL, completely written and in the bucket of its key.     *)
(***************************************************************************)
LinkedRecordsLive ==
  \A b \in Bucket : \A i \in 1 .. Len(chain[b]) :
    LET a == chain[b][i]
    IN  /\ a \in inuse
        /\ ~recs[a].del
        /\ recs[a].key \in Keys
        /\ recs[a].val \in Vals
        /\ Hash[recs[a].key] = b

(***************************************************************************)
(* File: create_rec never hands out bytes of another record, of the header *)
(* or of the bucket table, however often the process crashed before.       *)
(***************************************************************************)
SizeAt(a) == RecSize(recs[a].key, recs[a].val)
RecordsDisjoint ==
  db_file => /\ \A a \in inuse : a + SizeAt(a) <= DbSize
             /\ \A a, b \in inuse : a < b => a + SizeAt(a) <= b

(***************************************************************************)
(* file_check accepts every file whose file_init once ran to its end.      *)
(***************************************************************************)
InitialisedFileOpens == db_file /\ hdr.next_offset >= Base => pc # "failed"

(***************************************************************************)
(* File: the records a chain reaches are all counted, and num_del counts   *)
(* only records already unlinked, so num_rec - num_del is an upper bound   *)
(* of the live records after any crash.                                    *)
(***************************************************************************)
CountersBoundLive ==
  db_file => Cardinality(Linked) + hdr.num_del <= hdr.num_rec

(***************************************************************************)
(* Heap: between operations every allocated record is reachable, and       *)
(* db_deinit leaves none allocated.                                        *)
(***************************************************************************)
NoLeak ==
  ~db_file => /\ pc \in {"down", "idle", "deinit"} => inuse = Linked
              /\ pc = "deinit_done" => inuse = {}

(***************************************************************************)
(* A step never changes the key or the value of a record that readers can  *)
(* reach before and after it: hash_put replaces a record, never edits it.  *)
(***************************************************************************)
LinkedRecordsConstant ==
  [][\A a \in Linked \cap Linked' :
       recs'[a].key = recs[a].key /\ recs'[a].val = recs[a].val]_vars

(***************************************************************************)
(* Every db_set, db_get and db_del returns unless the process dies first:  *)
(* no walk runs in a circle.                                               *)
(***************************************************************************)
OperationsReturn == (pc \in OpStates) ~> (pc \notin OpStates)

(***************************************************************************)
(* db.h states db_set, db_get and db_del "for key": the record an          *)
(* operation replaces, returns or deletes was stored under that key.       *)
(***************************************************************************)
MatchedRecordHasKey ==
  rec # 0 /\ pc \in {"create", "unlink", "return"} => recs[rec].key = op.key

(***************************************************************************)
(* README: "crash proof database file (mmap)".  The file a process leaves  *)
(* behind, whenever it stops, is one the next process opens, and no record *)
(* is then written over its header and its bucket table.                   *)
(***************************************************************************)
CrashProofFile == pc \notin {"failed", "overwritten"}
=============================================================================
