------------------------------- MODULE DbInv --------------------------------
(***************************************************************************)
(* The inductive invariant of Db: what holds of the table, of the file and *)
(* of the variables of a running operation at each of its steps.           *)
(***************************************************************************)
EXTENDS Db

Unlinked(a) == \A b \in Bucket : \A i \in 1 .. Len(chain[b]) : chain[b][i] # a
LinkedIn(b, a) == \E i \in 1 .. Len(chain[b]) : chain[b][i] = a

Before == {"walk", "create", "unlink"} \cup CreateStates

\* the running operation has arguments, and pp is a link of its bucket
CursorInv ==
  pc \in Before =>
    /\ op.key \in Keys
    /\ op.cmd \in {"set", "get", "del"}
    /\ op.cmd = "set" => op.val \in Vals
    /\ pc \in CreateStates \cup {"create"} => op.cmd = "set"
    /\ pp # 0 => LinkedIn(idx, pp)

\* the matched record is the one *pp names, until it is unlinked
RecInv ==
  /\ pc \notin OpStates \cup {"overwritten"} => pp = 0 /\ rec = 0
  /\ pc = "walk" => rec = 0
  /\ pc = "unlink" => rec # 0
  /\ pc \in Before /\ rec # 0 => rec = At(pp)
  /\ pc \in {"delete", "num_del++"} => rec \in inuse /\ Unlinked(rec)

\* the new record belongs to no chain and is complete before it is linked
NewInv ==
  /\ pc \in CreateStates /\ new_rec \in Addr => new_rec \in inuse /\ Unlinked(new_rec)
  /\ pc \in {"next", "link"} =>
       /\ new_rec \in Addr
       /\ recs[new_rec].key = op.key
       /\ recs[new_rec].val = op.val
       /\ ~recs[new_rec].del
  /\ pc = "link" =>
       recs[new_rec].next = IF rec # 0 THEN recs[rec].next ELSE buckets[idx]

TableInv == ChainsSound /\ LinkedRecordsLive
OpInv == CursorInv /\ RecInv /\ NewInv

\* the file: what each store of file_init has established, and that the bytes
\* below next_offset are shared out among the records
HdrInv ==
  /\ hdr.next_offset # 0 => hdr.magic /\ hdr.version = 1
  /\ pc \in InFileInit \ {"magic"} => hdr.magic
  /\ pc \in {"num_rec", "next_offset", "memset"} => hdr.version = 1
  /\ pc \in OpStates \cup {"idle", "check_chain"} => hdr.magic /\ hdr.version = 1
  /\ pc = "failed" => hdr.next_offset = 0
  /\ pc # "down" => exists
  /\ ~exists \/ pc \in InFileInit => chain = NoChains /\ inuse = {}
  /\ chk.link # 0 => pc = "check_chain" /\ \E b \in Bucket : LinkedIn(b, chk.link)
SpaceInv ==
  /\ hdr.next_offset <= DbSize
  /\ \A a \in inuse : a + SizeAt(a) <= hdr.next_offset
  /\ \A a, b \in inuse : a < b => a + SizeAt(a) <= b
  /\ \A a \in Addr \ inuse : recs[a] = ZeroRec
  /\ pc \in {"num_rec++", "fill"} =>
       /\ new_rec + rec_size <= hdr.next_offset
       /\ new_rec \in Addr => recs[new_rec] = ZeroRec
       /\ \A a \in inuse \ {new_rec} : a + SizeAt(a) <= new_rec
FileInv ==
  /\ pc \in InFileInit => db_file
  /\ db_file => HdrInv /\ SpaceInv

(***************************************************************************)
(* The strengthening that makes the invariants of Db inductive: between    *)
(* two stores of an operation the table is whole, pp still names a link of *)
(* the bucket, and a record is linked only once complete and deleted only  *)
(* once unlinked; the file's space below next_offset is shared out.        *)
(***************************************************************************)
Inv == TypeOK /\ TableInv /\ OpInv /\ FileInv
=============================================================================
