--------------------------- MODULE PutToolProofs ---------------------------
(***************************************************************************)
(* Proofs about PutTool: dzfile-put as a whole, with the life cycle of the *)
(* library and its database around the copy, implements Put, so the copies *)
(* of concurrent processes stay apart; and what the processes leave in the *)
(* database and report by their exit status agrees with what they wrote.   *)
(***************************************************************************)
EXTENDS PutTool, PutProofs, FoldFacts

(* The rows: nobody opens the destination without having gone through the  *)
(* insert, having found the file there, or having failed to look for it.   *)
RowInv ==
    /\ \A p \in Puts : main[p] = "add_filenum" => rows > 0
    /\ (\E p \in Puts : main[p] = "open") \/ name # "missing" =>
         /\ rows > 0 \/ dbfails > 0 \/ unlooked
         /\ space.filenum > 0 \/ dbfails > 0 \/ unlooked

(* What a process that has not opened the destination, or that has no priv,*)
(* cannot have done.                                                       *)
CleanInv ==
    /\ \A p \in Puts : pc[p] = "open" => total[p] = 0
    /\ \A p \in Puts : pc[p] \in {"open", "done"} => locks[p] = {}
    /\ \A p \in Puts : main[p] \in {"copy", "count"} => name # "missing"
    /\ \A p \in Puts : total[p] > 0 => name # "missing" /\ priv[p]
    /\ \A p \in Puts : main[p] \in (Before \ {"start"}) \cup {"copy", "count"}
                         => priv[p]
    /\ \A p \in Puts : main[p] \in {"out", "exited", "failed"} /\ ret[p] = -1
                         => total[p] = 0
    /\ \A p \in Puts : main[p] = "crashed" => ~priv[p]

ToolInv == TTypeOK /\ RowInv /\ CleanInv

(* What a turn of the loop of dzfile_put changes, besides the destination. *)
LEMMA LoopStep ==
  ASSUME PutInv, NEW p \in Puts, Loop(p)
  PROVE  /\ pc[p] \notin {"open", "done"}
         /\ \E l \in {"read", "getlk", "setlk", "write", "close"} :
              /\ pc' = [pc EXCEPT ![p] = l]
              /\ total' # total => l = "read"
         /\ \E s \in SUBSET Nat : locks' = [locks EXCEPT ![p] = s]
         /\ \E n \in Nat : total' = [total EXCEPT ![p] = n]
         /\ pos'[p] - pos[p] \in 0 .. BUFLEN
<1>1. /\ total \in [Puts -> Nat] /\ pos \in [Puts -> Nat]
      /\ locks \in [Puts -> SUBSET Nat] /\ BUFLEN \in Nat
  BY PutAssumption DEF PutAssumption, PutInv, TypeOK
<1>2. /\ locks = [locks EXCEPT ![p] = locks[p]]
      /\ total = [total EXCEPT ![p] = total[p]]
  BY <1>1
<1>3. CASE put_read(p)
  BY <1>1, <1>2, <1>3 DEF put_read, Goto
<1>4. CASE lockw_getlk(p)
  BY <1>1, <1>2, <1>4 DEF lockw_getlk, Goto
<1>5. CASE lockw_setlk(p)
  <2>1. locks[p] \cup Region(p) \in SUBSET Nat
    BY <1>1 DEF Region
  <2> QED
    BY <1>1, <1>2, <1>5, <2>1 DEF lockw_setlk, Goto
<1>6. CASE put_write(p)
  <2>1. nbread(p) \in 1 .. BUFLEN
    BY <1>6, BufferSize DEF put_write
  <2> QED
    BY <1>1, <1>2, <1>6, <2>1 DEF put_write, Goto
<1> QED
  BY <1>3, <1>4, <1>5, <1>6 DEF Loop

(* The invariant of the program holds at the start.                        *)
LEMMA ToolInit == TInit => ToolInv
<1> SUFFICES ASSUME TInit
             PROVE  ToolInv
  OBVIOUS
<1>1. TTypeOK
  <2>1. /\ main \in [Puts -> Mains] /\ priv \in [Puts -> BOOLEAN]
        /\ ret \in [Puts -> {0, -1}] /\ unlooked \in BOOLEAN
        /\ \A p \in Puts : /\ pc[p] = "open" <=> main[p] \in Before
                           /\ pc[p] = "done" <=> main[p] \in {"out"} \cup Ended
                           /\ main[p] = "count" => pc[p] = "read"
    BY DEF TInit, Init, Mains, Before, Ended
  <2>2. /\ wrote \in [Puts -> 0 .. BUFLEN] /\ dbfails \in 0 .. MaxDbFaults
        /\ rows \in Nat /\ space \in [filenum : Nat, written : Nat]
        /\ name \in {"missing", "plain", "compressed"}
    BY ToolAssumption, PutAssumption DEF ToolAssumption, PutAssumption, TInit
  <2> QED
    BY <2>1, <2>2 DEF TTypeOK
<1>2. RowInv /\ CleanInv
  BY DEF TInit, Init, RowInv, CleanInv, Before
<1> QED
  BY <1>1, <1>2 DEF ToolInv

(* dzfile_open of the destination, or dzfile_init, succeeds or fails.      *)
LEMMA OpenStep ==
  ASSUME TypeOK, NEW p \in Puts, put_open(p)
  PROVE  /\ pc[p] = "open"
         /\ \E l \in {"read", "done"} : pc' = [pc EXCEPT ![p] = l]
         /\ UNCHANGED <<source, dst, total, pos, locks, kills>>
  BY DEF put_open, Goto, TypeOK

(* What main and the copy may say of a process, together.                  *)
InStep(l, k) ==
    /\ k = "open" <=> l \in Before
    /\ k = "done" <=> l \in {"out"} \cup Ended
    /\ l = "count" => k = "read"

(* p moves on in main, to l, and in the copy, to k.                        *)
LEMMA TypeMove ==
  ASSUME TypeOK, TTypeOK, NEW p \in Puts, NEW l \in Mains, NEW k \in Labels,
         main' = [main EXCEPT ![p] = l], pc' = [pc EXCEPT ![p] = k],
         InStep(l, k),
         priv' \in [Puts -> BOOLEAN], ret' \in [Puts -> {0, -1}],
         wrote' \in [Puts -> 0 .. BUFLEN],
         name' \in {"missing", "plain", "compressed"}, rows' \in Nat,
         space' \in [filenum : Nat, written : Nat],
         dbfails' \in 0 .. MaxDbFaults, unlooked' \in BOOLEAN
  PROVE  TTypeOK'
<1>1. main' \in [Puts -> Mains]
  BY DEF TTypeOK
<1>2. ASSUME NEW q \in Puts
      PROVE  InStep(main'[q], pc'[q])
  <2>1. CASE q = p
    BY <2>1 DEF TTypeOK, TypeOK
  <2>2. CASE q # p
    BY <2>2 DEF TTypeOK, TypeOK, InStep, Before
  <2> QED
    BY <2>1, <2>2
<1> QED
  BY <1>1, <1>2 DEF TTypeOK, InStep, Before

(* What CleanInv says of a process that is at l in main and at k in the    *)
(* copy, has copied n units and locked s, has priv v and result r, when    *)
(* the destination is c.                                                   *)
Clean(l, k, n, s, v, r, c) ==
    /\ k = "open" => n = 0
    /\ k \in {"open", "done"} => s = {}
    /\ l \in {"copy", "count"} => c # "missing"
    /\ n > 0 => c # "missing" /\ v
    /\ l \in (Before \ {"start"}) \cup {"copy", "count"} => v
    /\ l \in {"out", "exited", "failed"} /\ r = -1 => n = 0
    /\ l = "crashed" => ~v

(* A process that moves keeps CleanInv when it is in a clean state itself. *)
LEMMA CleanMove ==
  ASSUME TypeOK, TTypeOK, CleanInv, NEW p \in Puts,
         NEW l, NEW k, NEW n, NEW s, NEW v, NEW r,
         main' = [main EXCEPT ![p] = l], pc' = [pc EXCEPT ![p] = k],
         total' = [total EXCEPT ![p] = n], locks' = [locks EXCEPT ![p] = s],
         priv' = [priv EXCEPT ![p] = v], ret' = [ret EXCEPT ![p] = r],
         name' = name \/ name' = "plain", Clean(l, k, n, s, v, r, name')
  PROVE  CleanInv'
<1>1. ASSUME NEW q \in Puts
      PROVE  Clean(main'[q], pc'[q], total'[q], locks'[q], priv'[q], ret'[q], name')
  <2>1. CASE q = p
    BY <2>1 DEF TTypeOK, TypeOK
  <2>2. CASE q # p
    BY <2>2 DEF TTypeOK, TypeOK, CleanInv, Clean
  <2> QED
    BY <2>1, <2>2
<1> QED
  BY <1>1 DEF CleanInv, Clean

(* A process that goes on without the database being changed, and that is  *)
(* not between the insert and the open afterwards.                         *)
LEMMA RowMove ==
  ASSUME TTypeOK, RowInv, NEW p \in Puts,
         NEW l \in Mains \ {"add_filenum", "open"},
         main' = [main EXCEPT ![p] = l], UNCHANGED <<rows, space, dbfails, unlooked>>,
         name' # "missing" => name # "missing" \/ main[p] = "open"
  PROVE  RowInv'
<1>1. \A q \in Puts : main'[q] \in {"add_filenum", "open"} => main'[q] = main[q]
  BY DEF TTypeOK
<1>2. (\E q \in Puts : main'[q] = "open") \/ name' # "missing" =>
        (\E q \in Puts : main[q] = "open") \/ name # "missing"
  BY <1>1
<1> QED
  BY <1>1, <1>2 DEF RowInv

(* An action that changes nothing of the copy and of p but its place in    *)
(* main and the database.                                                  *)
LEMMA MainMove ==
  ASSUME PutInv, ToolInv, NEW p \in Puts, NEW l \in Mains,
         \/ main[p] \in Before \ {"start"} /\ l \in Before \ {"start"}
         \/ main[p] = "count" /\ l = "copy",
         To(p, l), UNCHANGED <<vars, priv, ret, wrote, name>>,
         rows' \in Nat, space' \in [filenum : Nat, written : Nat],
         dbfails' \in 0 .. MaxDbFaults, unlooked' \in BOOLEAN
  PROVE  TTypeOK' /\ CleanInv'
<1>1. TypeOK /\ TTypeOK /\ CleanInv
  BY DEF PutInv, ToolInv
<1>2. /\ main' = [main EXCEPT ![p] = l] /\ pc' = [pc EXCEPT ![p] = pc[p]]
      /\ total' = [total EXCEPT ![p] = total[p]]
      /\ locks' = [locks EXCEPT ![p] = locks[p]]
      /\ priv' = [priv EXCEPT ![p] = priv[p]]
      /\ ret' = [ret EXCEPT ![p] = ret[p]]
      /\ pc[p] \in Labels /\ name' = name
  BY <1>1 DEF To, vars, TypeOK, TTypeOK
<1>3. InStep(l, pc[p])
  BY <1>1 DEF TTypeOK, InStep, Before, Ended
<1>4. Clean(l, pc[p], total[p], locks[p], priv[p], ret[p], name')
  BY <1>1, <1>2 DEF CleanInv, Clean, TTypeOK, Before, vars
<1>5. /\ priv' \in [Puts -> BOOLEAN] /\ ret' \in [Puts -> {0, -1}]
      /\ wrote' \in [Puts -> 0 .. BUFLEN]
      /\ name' \in {"missing", "plain", "compressed"}
  BY <1>1 DEF TTypeOK
<1>6. TTypeOK'
  BY <1>1, <1>2, <1>3, <1>5, TypeMove
<1> DEFINE k == pc[p]   n == total[p]   s == locks[p]   v == priv[p]   r == ret[p]
<1>7. CleanInv'
  <2>1. Clean(l, k, n, s, v, r, name')
    BY <1>4
  <2>2. /\ pc' = [pc EXCEPT ![p] = k] /\ total' = [total EXCEPT ![p] = n]
        /\ locks' = [locks EXCEPT ![p] = s] /\ priv' = [priv EXCEPT ![p] = v]
        /\ ret' = [ret EXCEPT ![p] = r]
    BY <1>2
  <2>3. main' = [main EXCEPT ![p] = l] /\ name' = name
    BY <1>2
  <2> HIDE DEF k, n, s, v, r
  <2> QED
    BY <1>1, <2>1, <2>2, <2>3, CleanMove
<1> QED
  BY <1>6, <1>7

(* Every action of the tool keeps its invariant.                           *)
LEMMA ToolStep ==
  ASSUME PutInv, ToolInv, [TNext]_tvars
  PROVE  ToolInv'
<1>0. /\ TypeOK /\ TTypeOK /\ CleanInv /\ RowInv
      /\ \A p \in Puts : /\ pc[p] \in Labels /\ main[p] \in Mains
                         /\ InStep(main[p], pc[p])
                         /\ Clean(main[p], pc[p], total[p], locks[p], priv[p],
                                  ret[p], name)
  BY DEF PutInv, ToolInv, TypeOK, TTypeOK, InStep, Before, CleanInv, Clean
<1>t. TypeOK /\ TTypeOK /\ CleanInv
  BY <1>0
<1> USE DEF To, At
<1>1. ASSUME NEW p \in Puts, NEW r \in {0, -1}, Fail(p, r), main[p] \in Before,
             UNCHANGED <<priv, wrote, name, dbvars>>
      PROVE  ToolInv'
  <2>1. RowInv'
    BY <1>0, <1>1 DEF Fail, TTypeOK, RowInv, dbvars
  <2>2. /\ main' = [main EXCEPT ![p] = "out"]
        /\ pc' = [pc EXCEPT ![p] = "done"]
        /\ total' = [total EXCEPT ![p] = 0]
        /\ locks' = [locks EXCEPT ![p] = {}]
        /\ priv' = [priv EXCEPT ![p] = priv[p]]
        /\ ret' = [ret EXCEPT ![p] = r]
        /\ UNCHANGED <<priv, wrote, name, rows, space, dbfails, unlooked>>
    BY <1>0, <1>1, OpenStep DEF Fail, dbvars, TypeOK, TTypeOK, Clean
  <2>3. InStep("out", "done")
    BY DEF InStep, Before, Ended
  <2>4. Clean("out", "done", 0, {}, priv[p], r, name')
    BY DEF Clean, Before
  <2>5. TTypeOK'
    BY <1>0, <2>2, <2>3, TypeMove DEF TTypeOK, Mains, Labels
  <2>6. CleanInv'
    BY <1>0, <2>2, <2>4, CleanMove
  <2> QED
    BY <2>1, <2>5, <2>6 DEF ToolInv
<1>2. ASSUME NEW p \in Puts, dzfile_init(p)
      PROVE  ToolInv'
  <2>1. CASE Fail(p, -1) /\ UNCHANGED <<priv, wrote, name, dbvars>>
    BY <1>1, <1>2, <2>1
    DEF dzfile_init, dz_openlog, dz_openmq, dz_opendb, Before
  <2>2. CASE /\ dz_openlog(p) /\ To(p, "mq") /\ UNCHANGED <<ret, vars>>
             /\ priv' = [priv EXCEPT ![p] = TRUE]
    <3>1. /\ main' = [main EXCEPT ![p] = "mq"]
          /\ pc' = [pc EXCEPT ![p] = "open"]
          /\ total' = [total EXCEPT ![p] = 0]
          /\ locks' = [locks EXCEPT ![p] = {}]
          /\ ret' = [ret EXCEPT ![p] = ret[p]]
          /\ UNCHANGED <<ret, wrote, name, rows, space, dbfails, unlooked>>
      BY <1>0, <2>2
      DEF dz_openlog, vars, dbvars, TypeOK, TTypeOK, InStep, Before, Clean
    <3>2. InStep("mq", "open")
      BY DEF InStep, Before, Ended
    <3>3. Clean("mq", "open", 0, {}, TRUE, ret[p], name')
      BY DEF Clean
    <3>4. TTypeOK'
      <4>1. "mq" \in Mains /\ "open" \in Labels
        BY DEF Mains, Before, Labels
      <4>2. /\ wrote' \in [Puts -> 0 .. BUFLEN] /\ rows' \in Nat
            /\ name' \in {"missing", "plain", "compressed"}
            /\ space' \in [filenum : Nat, written : Nat]
            /\ dbfails' \in 0 .. MaxDbFaults
            /\ priv' \in [Puts -> BOOLEAN] /\ ret' \in [Puts -> {0, -1}]
            /\ unlooked' \in BOOLEAN
        BY <1>t, <2>2, <3>1 DEF TTypeOK
      <4> QED
        BY <1>t, <3>1, <3>2, <4>1, <4>2, TypeMove
    <3>5. CleanInv'
      BY <1>t, <2>2, <3>1, <3>3, CleanMove
    <3>6. RowInv'
      BY <1>0, <3>1 DEF TTypeOK, RowInv
    <3> QED
      BY <3>4, <3>5, <3>6 DEF ToolInv
  <2>3. ASSUME NEW l \in {"db", "find"}, To(p, l), UNCHANGED <<ret, vars>>,
               dz_openmq(p) \/ dz_opendb(p)
        PROVE  ToolInv'
    <3>1. UNCHANGED <<priv, wrote, name, rows, space, dbfails, unlooked>>
      BY <2>3 DEF dz_openmq, dz_opendb, dbvars
    <3>2. TTypeOK' /\ CleanInv'
      BY <1>0, <2>3, <3>1, MainMove
      DEF dz_openmq, dz_opendb, Before, Mains, TTypeOK
    <3>3. RowInv'
      BY <1>0, <2>3, <3>1 DEF TTypeOK, RowInv
    <3> QED
      BY <3>2, <3>3 DEF ToolInv
  <2> QED
    BY <1>2, <2>1, <2>2, <2>3 DEF dzfile_init, dz_openlog, dz_openmq, dz_opendb
<1>3. ASSUME NEW p \in Puts, open_find(p)
      PROVE  ToolInv'
  <2>1. CASE Fail(p, 0) /\ UNCHANGED unlooked
    BY <1>1, <1>3, <2>1 DEF open_find, Before, dbvars
  <2>2. ASSUME NEW l \in {"insert", "open"}, To(p, l), UNCHANGED <<ret, vars>>,
               unlooked' \in {unlooked, TRUE},
               l = "open" => name = "plain" \/ unlooked'
        PROVE  ToolInv'
    <3>1. TTypeOK' /\ CleanInv'
      BY <1>0, <1>3, <2>2, MainMove
      DEF open_find, Before, Mains, dbvars, TTypeOK
    <3>2. RowInv'
      BY <1>0, <1>3, <2>2 DEF open_find, TTypeOK, RowInv, dbvars
    <3> QED
      BY <3>1, <3>2 DEF ToolInv
  <2> QED
    BY <1>3, <2>1, <2>2 DEF open_find
<1>4. ASSUME NEW p \in Puts, fmt_entry_insert(p)
      PROVE  ToolInv'
  <2>1. /\ rows' \in Nat /\ space' \in [filenum : Nat, written : Nat]
        /\ dbfails' \in 0 .. MaxDbFaults
    BY <1>0, <1>4, ToolAssumption
    DEF fmt_entry_insert, DbFail, TTypeOK, ToolAssumption
  <2>2. TTypeOK' /\ CleanInv'
    BY <1>0, <1>4, <2>1, MainMove DEF fmt_entry_insert, Before, Mains, TTypeOK
  <2>3. RowInv'
    BY <1>0, <1>4 DEF fmt_entry_insert, DbFail, TTypeOK, RowInv
  <2> QED
    BY <2>2, <2>3 DEF ToolInv
<1>5. ASSUME NEW p \in Puts, add_filenum(p)
      PROVE  ToolInv'
  <2>1. /\ rows' \in Nat /\ space' \in [filenum : Nat, written : Nat]
        /\ dbfails' \in 0 .. MaxDbFaults
    <3>1. CASE DbFail
      BY <1>0, <3>1, ToolAssumption DEF DbFail, TTypeOK, ToolAssumption
    <3>2. CASE /\ space' = [space EXCEPT !["filenum"] = @ + 1]
               /\ UNCHANGED <<rows, dbfails>>
      <4>1. rows \in Nat /\ space \in [filenum : Nat, written : Nat]
            /\ dbfails \in 0 .. MaxDbFaults
        BY <1>0 DEF TTypeOK
      <4>2. space.filenum + 1 \in Nat
        BY <4>1
      <4> QED
        BY <3>2, <4>1, <4>2
    <3> QED
      BY <1>5, <3>1, <3>2 DEF add_filenum, space_update
  <2>2. TTypeOK' /\ CleanInv'
    BY <1>0, <1>5, <2>1, MainMove DEF add_filenum, Before, Mains, TTypeOK
  <2>3. RowInv'
    BY <1>0, <1>5 DEF add_filenum, space_update, DbFail, TTypeOK, RowInv
  <2> QED
    BY <2>2, <2>3 DEF ToolInv
<1>6. ASSUME NEW p \in Puts, open_dst(p)
      PROVE  ToolInv'
  <2>1. CASE Fail(p, 0) /\ UNCHANGED name
    BY <1>1, <1>6, <2>1 DEF open_dst, Before
  <2>2. CASE /\ put_open(p) /\ pc'[p] = "read" /\ To(p, "copy")
             /\ name' = "plain" /\ UNCHANGED ret
    <3>1. /\ main' = [main EXCEPT ![p] = "copy"]
          /\ pc' = [pc EXCEPT ![p] = "read"]
          /\ total' = [total EXCEPT ![p] = 0]
          /\ locks' = [locks EXCEPT ![p] = {}]
          /\ priv' = [priv EXCEPT ![p] = TRUE]
          /\ ret' = [ret EXCEPT ![p] = ret[p]]
          /\ UNCHANGED <<priv, ret, wrote, rows, space, dbfails, unlooked>>
      BY <1>0, <1>6, <2>2, OpenStep DEF open_dst, dbvars, TypeOK, TTypeOK, Clean
    <3>2. InStep("copy", "read")
      BY DEF InStep, Before, Ended
    <3>3. Clean("copy", "read", 0, {}, TRUE, ret[p], name')
      BY <2>2 DEF Clean
    <3>4. TTypeOK'
      <4>1. "copy" \in Mains /\ "read" \in Labels
        BY DEF Mains, Labels
      <4>2. /\ wrote' \in [Puts -> 0 .. BUFLEN] /\ rows' \in Nat
            /\ space' \in [filenum : Nat, written : Nat]
            /\ dbfails' \in 0 .. MaxDbFaults
            /\ priv' \in [Puts -> BOOLEAN] /\ ret' \in [Puts -> {0, -1}]
            /\ unlooked' \in BOOLEAN
        BY <1>t, <3>1 DEF TTypeOK
      <4>3. /\ main' = [main EXCEPT ![p] = "copy"]
            /\ pc' = [pc EXCEPT ![p] = "read"]
            /\ name' \in {"missing", "plain", "compressed"}
        BY <2>2, <3>1
      <4> QED
        BY <1>t, <3>2, <4>1, <4>2, <4>3, TypeMove
    <3>5. CleanInv'
      <4>1. name' = "plain"
        BY <2>2
      <4> QED
        BY <1>t, <3>1, <3>3, <4>1, CleanMove
    <3>6. RowInv'
      <4>1. main[p] = "open"
        BY <1>6 DEF open_dst, At
      <4> QED
        BY <1>0, <3>1, <4>1, RowMove DEF Mains
    <3> QED
      BY <3>4, <3>5, <3>6 DEF ToolInv
  <2> QED
    BY <1>6, <2>1, <2>2 DEF open_dst
<1>7. ASSUME NEW p \in Puts, copy(p)
      PROVE  ToolInv'
  <2>1. RowInv'
    BY <1>0, <1>7 DEF copy, TTypeOK, RowInv, dbvars
  <2>2. CASE Loop(p) /\ To(p, IF total' = total THEN "copy" ELSE "count")
             /\ UNCHANGED ret
    <3> DEFINE l == IF total' = total THEN "copy" ELSE "count"
    <3>1. PICK k \in {"read", "getlk", "setlk", "write", "close"} :
                 pc' = [pc EXCEPT ![p] = k] /\ (total' # total => k = "read")
      BY <2>2, LoopStep
    <3>2. PICK s \in SUBSET Nat : locks' = [locks EXCEPT ![p] = s]
      BY <2>2, LoopStep
    <3>3. PICK n \in Nat : total' = [total EXCEPT ![p] = n]
      BY <2>2, LoopStep
    <3>4. wrote' \in [Puts -> 0 .. BUFLEN]
      BY <1>0, <1>7, <2>2, LoopStep DEF copy, Wrote, TTypeOK
    <3>5. /\ main' = [main EXCEPT ![p] = l]
          /\ priv' = [priv EXCEPT ![p] = priv[p]]
          /\ ret' = [ret EXCEPT ![p] = ret[p]]
          /\ UNCHANGED <<priv, ret, name, rows, space, dbfails, unlooked>>
          /\ priv[p] /\ name # "missing"
      BY <1>0, <1>7, <2>2 DEF copy, dbvars, TTypeOK, Clean
    <3>6. l \in Mains /\ k \in Labels
      BY DEF Mains, Labels
    <3>7. InStep(l, k)
      BY <3>1 DEF InStep, Before, Ended
    <3>8. Clean(l, k, n, s, priv[p], ret[p], name')
      BY <3>5 DEF Clean
    <3> HIDE DEF l
    <3>9. TTypeOK'
      BY <1>0, <3>1, <3>4, <3>5, <3>6, <3>7, TypeMove DEF TTypeOK
    <3>10. CleanInv'
      BY <1>0, <3>1, <3>2, <3>3, <3>5, <3>8, CleanMove
    <3> QED
      BY <2>1, <3>9, <3>10 DEF ToolInv
  <2>3. CASE put_close(p) /\ To(p, "out") /\ ret' = [ret EXCEPT ![p] = 0]
    <3>1. wrote' \in [Puts -> 0 .. BUFLEN]
      BY <1>0, <1>7, <2>3, PutAssumption
      DEF copy, Wrote, put_close, TTypeOK, TypeOK, PutAssumption
    <3>2. /\ pc' = [pc EXCEPT ![p] = "done"]
          /\ total' = [total EXCEPT ![p] = total[p]]
          /\ locks' = [locks EXCEPT ![p] = {}]
          /\ priv' = [priv EXCEPT ![p] = priv[p]]
          /\ UNCHANGED <<priv, name, rows, space, dbfails, unlooked>>
          /\ priv[p] /\ name # "missing"
      BY <1>0, <1>7, <2>3
      DEF copy, put_close, Goto, dbvars, TypeOK, TTypeOK, Clean
    <3>3. InStep("out", "done")
      BY DEF InStep, Before, Ended
    <3>4. Clean("out", "done", total[p], {}, priv[p], 0, name')
      BY <3>2 DEF Clean
    <3>5. TTypeOK'
      BY <1>0, <2>3, <3>1, <3>2, <3>3, TypeMove DEF TTypeOK, Mains, Labels
    <3>6. CleanInv'
      BY <1>0, <2>3, <3>2, <3>4, CleanMove
    <3> QED
      BY <2>1, <3>5, <3>6 DEF ToolInv
  <2> QED
    BY <1>7, <2>2, <2>3 DEF copy
<1>8. ASSUME NEW p \in Puts, copy_lockfail(p)
      PROVE  ToolInv'
  <2>1. TTypeOK'
    BY <1>0, <1>8
    DEF copy_lockfail, lockw_getlk_fail, Goto, TTypeOK, TypeOK, procvars, dbvars
  <2>2. RowInv'
    BY <1>0, <1>8 DEF copy_lockfail, RowInv, procvars, dbvars
  <2>3. CleanInv'
    BY <1>0, <1>8
    DEF copy_lockfail, lockw_getlk_fail, Goto, CleanInv, TypeOK, procvars
  <2> QED
    BY <2>1, <2>2, <2>3 DEF ToolInv
<1>9. ASSUME NEW p \in Puts, add_writtenbytes(p)
      PROVE  ToolInv'
  <2>1. /\ rows' \in Nat /\ space' \in [filenum : Nat, written : Nat]
        /\ dbfails' \in 0 .. MaxDbFaults
    <3>1. CASE DbFail
      BY <1>0, <3>1, ToolAssumption DEF DbFail, TTypeOK, ToolAssumption
    <3>2. CASE /\ space' = [space EXCEPT !["written"] = @ + wrote[p]]
               /\ UNCHANGED <<rows, dbfails>>
      <4>1. wrote[p] \in Nat
        BY <1>0, PutAssumption DEF TTypeOK, PutAssumption
      <4> QED
        BY <1>0, <3>2, <4>1 DEF TTypeOK
    <3> QED
      BY <1>9, <3>1, <3>2 DEF add_writtenbytes, space_update
  <2>2. TTypeOK' /\ CleanInv'
    BY <1>0, <1>9, <2>1, MainMove DEF add_writtenbytes, Mains, TTypeOK
  <2>3. RowInv'
    BY <1>0, <1>9 DEF add_writtenbytes, space_update, DbFail, TTypeOK, RowInv
  <2> QED
    BY <2>2, <2>3 DEF ToolInv
<1>10. ASSUME NEW p \in Puts, main_out(p)
       PROVE  ToolInv'
  <2> DEFINE r == ret[p]
  <2>0. PICK l \in {"exited", "failed", "crashed"} :
          /\ main' = [main EXCEPT ![p] = l]
          /\ l = "crashed" <=> ~priv[p]
    BY <1>10 DEF main_out, dzfile_fini
  <2>1. /\ main' = [main EXCEPT ![p] = l] /\ ret' = [ret EXCEPT ![p] = r]
        /\ pc' = [pc EXCEPT ![p] = "done"]
        /\ total' = [total EXCEPT ![p] = total[p]]
        /\ locks' = [locks EXCEPT ![p] = {}]
        /\ priv' = [priv EXCEPT ![p] = priv[p]]
        /\ UNCHANGED <<priv, wrote, name, rows, space, dbfails, unlooked>>
        /\ main[p] = "out" /\ total[p] \in Nat /\ r \in {0, -1}
    BY <1>0, <1>10, <2>0
    DEF main_out, vars, dbvars, TypeOK, TTypeOK, InStep, Clean
  <2>2. InStep(l, "done") /\ l \in Mains
    BY <2>0 DEF InStep, Before, Ended, Mains
  <2>3. Clean(l, "done", total[p], {}, priv[p], r, name')
    BY <1>0, <2>0, <2>1 DEF Clean, Before
  <2> HIDE DEF r
  <2>4. TTypeOK'
    BY <1>0, <2>1, <2>2, TypeMove DEF TTypeOK, Labels
  <2>5. CleanInv'
    BY <1>0, <2>1, <2>3, CleanMove
  <2>6. l # "add_filenum" /\ l # "open"
    BY <2>0
  <2>7. RowInv'
    BY <1>0, <2>1, <2>6 DEF TTypeOK, RowInv
  <2> QED
    BY <2>4, <2>5, <2>7 DEF ToolInv
<1>11. ASSUME NEW p \in Puts, TKill(p)
       PROVE  ToolInv'
  <2>1. /\ main' = [main EXCEPT ![p] = "killed"]
        /\ pc' = [pc EXCEPT ![p] = "done"]
        /\ total' = [total EXCEPT ![p] = total[p]]
        /\ locks' = [locks EXCEPT ![p] = {}]
        /\ priv' = [priv EXCEPT ![p] = priv[p]]
        /\ ret' = [ret EXCEPT ![p] = ret[p]]
        /\ UNCHANGED <<priv, ret, wrote, name, rows, space, dbfails, unlooked>>
    BY <1>0, <1>11 DEF TKill, Kill, Goto, dbvars, TypeOK, TTypeOK
  <2>2. InStep("killed", "done")
    BY DEF InStep, Before, Ended
  <2>3. Clean("killed", "done", total[p], {}, priv[p], ret[p], name')
    BY <1>0, <2>1 DEF Clean, Before
  <2>4. TTypeOK'
    <3>1. "killed" \in Mains /\ "done" \in Labels
      BY DEF Mains, Ended, Labels
    <3>2. /\ wrote' \in [Puts -> 0 .. BUFLEN] /\ rows' \in Nat
          /\ name' \in {"missing", "plain", "compressed"}
          /\ space' \in [filenum : Nat, written : Nat]
          /\ dbfails' \in 0 .. MaxDbFaults
          /\ priv' \in [Puts -> BOOLEAN] /\ ret' \in [Puts -> {0, -1}]
          /\ unlooked' \in BOOLEAN
      BY <1>t, <2>1 DEF TTypeOK
    <3>3. /\ main' = [main EXCEPT ![p] = "killed"]
          /\ pc' = [pc EXCEPT ![p] = "done"]
      BY <2>1
    <3> QED
      BY <1>t, <2>2, <3>1, <3>2, <3>3, TypeMove
  <2>5. CleanInv'
    <3>1. /\ main' = [main EXCEPT ![p] = "killed"]
          /\ pc' = [pc EXCEPT ![p] = "done"]
          /\ total' = [total EXCEPT ![p] = total[p]]
          /\ locks' = [locks EXCEPT ![p] = {}]
      BY <2>1
    <3>2. /\ priv' = [priv EXCEPT ![p] = priv[p]]
          /\ ret' = [ret EXCEPT ![p] = ret[p]]
          /\ name' = name
      BY <2>1
    <3> QED
      BY <1>t, <2>3, <3>1, <3>2, CleanMove
  <2>6. RowInv'
    BY <1>0, <2>1, RowMove DEF Mains, Ended
  <2> QED
    BY <2>4, <2>5, <2>6 DEF ToolInv
<1>12. CASE UNCHANGED tvars
  BY <1>0, <1>12
  DEF tvars, vars, procvars, dbvars, TTypeOK, RowInv, CleanInv, ToolInv
<1> QED
  BY <1>2, <1>3, <1>4, <1>5, <1>6, <1>7, <1>8, <1>9, <1>10, <1>11, <1>12
  DEF TNext, main_put, AllEnded

-----------------------------------------------------------------------------
(* BytesCounted, with the sums as FoldFacts has them: what is written but  *)
(* not yet counted is wrote of the processes in Counting.                  *)
CountInv ==
    LET counted == space.written + SumOver(wrote, Counting)
        copied  == SumOver(pos, Puts) IN
    counted <= copied /\ copied <= counted + BUFLEN * (dbfails + kills)

(* CountInv is BytesCounted with its sums written as SumOver.              *)
LEMMA CountIs == CountInv <=> BytesCounted
<1>1. MapThenSumSet(LAMBDA p : wrote[p], Counting) = SumOver(wrote, Counting)
  BY SumIsMapThenSumSet
<1>2. MapThenSumSet(LAMBDA p : pos[p], Puts) = SumOver(pos, Puts)
  BY SumIsMapThenSumSet
<1> QED
  BY <1>1, <1>2 DEF CountInv, BytesCounted

(* Nothing is written or counted at the start.                             *)
LEMMA CountInit == TInit => CountInv
<1> SUFFICES ASSUME TInit
             PROVE  CountInv
  OBVIOUS
<1>1. Counting = {}
  BY DEF TInit, Counting
<1>2. SumOver(wrote, Counting) = 0
  BY <1>1, SumEmpty
<1>3. SumOver(pos, Puts) = 0
  BY SumZero, ToolAssumption DEF TInit, Init, ToolAssumption
<1>4. space.written = 0 /\ dbfails = 0 /\ kills = 0
  BY DEF TInit, Init
<1> QED
  BY <1>2, <1>3, <1>4, PutAssumption DEF CountInv, PutAssumption

(* What p has not counted yet, when it is at l and has written v.          *)
Uncounted(l, v) == IF l = "count" THEN v ELSE 0

(* The sums before and after a step of p, from w bytes written to v and    *)
(* from position pos[p] to n: what the others have to count stays.         *)
LEMMA CountMove ==
  ASSUME wrote \in [Puts -> Nat], pos \in [Puts -> Nat], NEW p \in Puts,
         main \in [Puts -> Mains],
         NEW l, NEW v \in Nat, NEW n \in Nat, main' = [main EXCEPT ![p] = l],
         wrote' = [wrote EXCEPT ![p] = v], pos' = [pos EXCEPT ![p] = n]
  PROVE  /\ SumOver(wrote, Counting \ {p}) \in Nat
         /\ SumOver(wrote, Counting) =
              Uncounted(main[p], wrote[p]) + SumOver(wrote, Counting \ {p})
         /\ SumOver(wrote, Counting)' =
              Uncounted(l, v) + SumOver(wrote, Counting \ {p})
         /\ SumOver(pos, Puts) \in Nat
         /\ SumOver(pos, Puts)' \in Nat
         /\ SumOver(pos, Puts)' + pos[p] = SumOver(pos, Puts) + n
<1> DEFINE O == Counting \ {p}
           rest == SumOver(wrote, O)
<1>1. /\ IsFiniteSet(Puts) /\ O \in SUBSET Puts /\ IsFiniteSet(O)
      /\ \A q \in O : wrote[q] \in Nat
  BY ToolAssumption, FS_Subset DEF ToolAssumption, Counting
<1>2. rest \in Nat
  <2> HIDE DEF O
  <2> QED
    BY <1>1, SumType
<1>3. SumOver(wrote, Counting) =
        (IF main[p] = "count" THEN wrote[p] ELSE 0) + rest
  <2>1. CASE main[p] = "count"
    <3>1. Counting = O \cup {p} /\ p \notin O
      BY <2>1 DEF Counting
    <3> HIDE DEF O
    <3> QED
      BY <1>1, <2>1, <3>1, SumAdd
  <2>2. CASE main[p] # "count"
    <3>1. Counting = O
      BY <2>2 DEF Counting
    <3> QED
      BY <1>2, <2>2, <3>1
  <2> QED
    BY <2>1, <2>2
<1>4. SumOver(wrote', O) = rest
  <2>1. \A q \in O : wrote'[q] = wrote[q]
    BY <1>1
  <2> HIDE DEF O
  <2> QED
    BY <1>1, <2>1, SumCongruent
<1>5. SumOver(wrote', Counting') = (IF l = "count" THEN v ELSE 0) + rest
  <2>1. CASE l = "count"
    <3>1. Counting' = O \cup {p} /\ p \notin O
      BY <2>1 DEF Counting
    <3>2. \A q \in O \cup {p} : wrote'[q] \in Nat
      BY <1>1
    <3>3. wrote'[p] = v
      OBVIOUS
    <3> HIDE DEF O
    <3> QED
      BY <1>1, <1>4, <2>1, <3>1, <3>2, <3>3, SumAdd
  <2>2. CASE l # "count"
    <3>1. Counting' = O
      BY <2>2 DEF Counting
    <3> QED
      BY <1>2, <1>4, <2>2, <3>1
  <2> QED
    BY <2>1, <2>2
<1>6. SumOver(pos, Puts) \in Nat /\ SumOver(pos', Puts) \in Nat
  BY <1>1, SumType
<1>7. SumOver(pos', Puts) + pos[p] = SumOver(pos, Puts) + n
  <2>1. pos \in [Puts -> Nat] /\ n \in Nat
    OBVIOUS
  <2>2. SumOver([pos EXCEPT ![p] = n], Puts) + pos[p] = SumOver(pos, Puts) + n
    BY ONLY <1>1, <2>1, p \in Puts, SumExcept
  <2> QED
    BY <2>2
<1> HIDE DEF rest
<1>8. SumOver(wrote, Counting) = Uncounted(main[p], wrote[p]) + rest
  BY <1>3 DEF Uncounted
<1>9. SumOver(wrote', Counting') = Uncounted(l, v) + rest
  BY <1>5 DEF Uncounted
<1> QED
  BY <1>2, <1>6, <1>7, <1>8, <1>9 DEF rest

(* A step of p keeps CountInv if what it copies is counted, or about to be,*)
(* but for at most a buffer when e = 1 more transaction or process fails.  *)
LEMMA CountKeep ==
  ASSUME PutInv, ToolInv, CountInv, NEW p \in Puts,
         NEW l, NEW v \in Nat, NEW n \in Nat, NEW c \in Nat, NEW e \in {0, 1},
         main' = [main EXCEPT ![p] = l],
         wrote' = [wrote EXCEPT ![p] = v], pos' = [pos EXCEPT ![p] = n],
         space.written' = space.written + c,
         dbfails' \in Nat, kills' \in Nat,
         dbfails' + kills' = dbfails + kills + e,
         (n - pos[p]) - (c + Uncounted(l, v) - Uncounted(main[p], wrote[p]))
           \in 0 .. (IF e = 0 THEN 0 ELSE BUFLEN)
  PROVE  CountInv'
<1>1. /\ wrote \in [Puts -> Nat] /\ pos \in [Puts -> Nat]
      /\ main \in [Puts -> Mains]
      /\ space.written \in Nat /\ dbfails \in Nat /\ kills \in Nat
      /\ wrote[p] \in Nat /\ pos[p] \in Nat /\ BUFLEN \in Nat
  BY PutAssumption, ToolAssumption
  DEF PutInv, TypeOK, ToolInv, TTypeOK, PutAssumption, ToolAssumption
<1> DEFINE rest == SumOver(wrote, Counting \ {p})
<1>2. /\ rest \in Nat
      /\ SumOver(wrote, Counting) = Uncounted(main[p], wrote[p]) + rest
      /\ SumOver(wrote, Counting)' = Uncounted(l, v) + rest
      /\ SumOver(pos, Puts) \in Nat
      /\ SumOver(pos, Puts)' \in Nat
      /\ SumOver(pos, Puts)' + pos[p] = SumOver(pos, Puts) + n
  BY <1>1, CountMove, ZenonT(30)
<1> HIDE DEF rest
<1>3. Uncounted(main[p], wrote[p]) \in Nat /\ Uncounted(l, v) \in Nat
  BY <1>1 DEF Uncounted
<1> DEFINE A == SumOver(wrote, Counting)
           B == SumOver(pos, Puts)
           F == dbfails + kills
<1>4. A \in Nat /\ A' \in Nat
  BY <1>2, <1>3
<1>5. /\ space.written + A <= B
      /\ B <= space.written + A + BUFLEN * F
  BY DEF CountInv
<1>6. /\ space.written' + A' <= B'
      /\ B' <= space.written' + A' + BUFLEN * F
                 + (IF e = 0 THEN 0 ELSE BUFLEN)
  <2>1. BUFLEN * F \in Nat
    BY <1>1
  <2> HIDE DEF A, B
  <2> QED
    BY <1>1, <1>2, <1>3, <1>4, <1>5, <2>1 DEF A, B
<1>7. BUFLEN * F' = BUFLEN * F + (IF e = 0 THEN 0 ELSE BUFLEN)
  <2>1. F' = F + e
    OBVIOUS
  <2>2. F \in Nat /\ BUFLEN \in Nat
    BY <1>1
  <2> HIDE DEF F
  <2>3. CASE e = 0
    <3>1. F' = F
      BY <2>1, <2>2, <2>3
    <3> QED
      BY <2>2, <2>3, <3>1
  <2>4. CASE e = 1
    <3>1. F' = F + 1
      BY <2>1, <2>4
    <3>2. BUFLEN * (F + 1) = BUFLEN * F + BUFLEN
      BY <2>2
    <3> QED
      BY <2>4, <3>1, <3>2
  <2> QED
    BY <2>3, <2>4
<1>8. B' <= space.written' + A' + BUFLEN * F'
  <2>1. BUFLEN * F \in Nat
    BY <1>1
  <2> HIDE DEF A, B, F
  <2> QED
    BY <1>1, <1>2, <1>4, <1>6, <1>7, <2>1 DEF B
<1> QED
  BY <1>6, <1>8 DEF CountInv

(* How a turn of the loop of dzfile_put moves in the destination.          *)
LEMMA LoopPos ==
  ASSUME PutInv, NEW p \in Puts, Loop(p)
  PROVE  /\ \E n \in Nat : pos' = [pos EXCEPT ![p] = n]
         /\ total' = total => pos' = pos
         /\ kills' = kills
<1>1. /\ total \in [Puts -> Nat] /\ pos \in [Puts -> Nat] /\ BUFLEN \in Nat
      /\ source \in [Puts -> Seq(Unit)]
  BY PutAssumption DEF PutAssumption, PutInv, TypeOK
<1>2. pos = [pos EXCEPT ![p] = pos[p]] /\ pos[p] \in Nat
  BY <1>1
<1>3. CASE put_read(p) \/ lockw_getlk(p) \/ lockw_setlk(p)
  BY <1>2, <1>3 DEF put_read, lockw_getlk, lockw_setlk
<1>4. CASE put_write(p)
  <2>1. nbread(p) \in 1 .. BUFLEN
    BY <1>4, BufferSize DEF put_write
  <2>2. CASE /\ total' = [total EXCEPT ![p] = @ + nbread(p)]
             /\ \E n \in 1 .. nbread(p) : pos' = [pos EXCEPT ![p] = @ + n]
    <3>1. PICK n \in 1 .. nbread(p) : pos' = [pos EXCEPT ![p] = pos[p] + n]
      BY <2>2
    <3>2. pos[p] + n \in Nat
      BY <1>2, <2>1
    <3>3. total'[p] = total[p] + nbread(p)
      BY <1>1, <2>2
    <3>4. total' # total
      BY <1>1, <2>1, <3>3
    <3> QED
      BY <1>4, <3>1, <3>2, <3>4 DEF put_write
  <2>3. CASE UNCHANGED <<dst, total, pos>>
    BY <1>2, <1>4, <2>3 DEF put_write
  <2> QED
    BY <1>4, <2>2, <2>3 DEF put_write
<1> QED
  BY <1>3, <1>4 DEF Loop

(* The numbers of failures that a step adds.                               *)
LEMMA Zero == 0 \in Nat /\ 0 \in {0, 1} /\ 1 \in {0, 1}
OBVIOUS

(* Every step keeps the counter in line with what has been written.        *)
LEMMA CountStep ==
  ASSUME PutInv, ToolInv, CountInv, [TNext]_tvars
  PROVE  CountInv'
<1>1. /\ TypeOK /\ TTypeOK
      /\ wrote \in [Puts -> Nat] /\ pos \in [Puts -> Nat]
      /\ main \in [Puts -> Mains] /\ BUFLEN \in Nat
      /\ space \in [filenum : Nat, written : Nat]
      /\ dbfails \in Nat /\ kills \in Nat
      /\ \A p \in Puts : wrote[p] \in 0 .. BUFLEN
  BY PutAssumption, ToolAssumption
  DEF PutInv, TypeOK, ToolInv, TTypeOK, PutAssumption, ToolAssumption
<1> USE DEF To, At
<1>2. ASSUME NEW p \in Puts, NEW l, main' = [main EXCEPT ![p] = l],
             main[p] # "count", l # "count", UNCHANGED <<pos, wrote, kills>>,
             space.written' = space.written,
             dbfails' \in {dbfails, dbfails + 1}
      PROVE  CountInv'
  <2>1. /\ pos' = [pos EXCEPT ![p] = pos[p]] /\ pos[p] \in Nat
        /\ wrote' = [wrote EXCEPT ![p] = wrote[p]] /\ wrote[p] \in Nat
    BY <1>1, <1>2
  <2>2. PICK e \in {0, 1} : dbfails' = dbfails + e
    BY <1>1, <1>2
  <2>3. /\ dbfails' \in Nat /\ kills' \in Nat
        /\ dbfails' + kills' = dbfails + kills + e
    BY <1>1, <1>2, <2>2
  <2>4. /\ Uncounted(l, wrote[p]) = 0 /\ Uncounted(main[p], wrote[p]) = 0
        /\ space.written' = space.written + 0
    BY <1>1, <1>2 DEF Uncounted
  <2>5. (pos[p] - pos[p])
          - (0 + Uncounted(l, wrote[p]) - Uncounted(main[p], wrote[p]))
        \in 0 .. (IF e = 0 THEN 0 ELSE BUFLEN)
    BY <1>1, <2>1, <2>4
  <2> QED
    <3>1. e \in {0, 1} /\ wrote[p] \in Nat /\ pos[p] \in Nat
      BY <2>1
    <3>2. main' = [main EXCEPT ![p] = l]
      BY <1>2
    <3> QED
      BY <2>1, <2>3, <2>4, <2>5, <3>1, <3>2, Zero, CountKeep, ZenonT(30)
<1>3. ASSUME NEW p \in Puts, NEW r, Fail(p, r), main[p] # "count",
             UNCHANGED <<wrote, space, dbfails>>
      PROVE  CountInv'
  BY <1>1, <1>2, <1>3, OpenStep DEF Fail
<1>4. ASSUME NEW p \in Puts, dzfile_init(p) \/ open_find(p) \/ open_dst(p)
      PROVE  CountInv'
  <2>1. main[p] # "count" /\ UNCHANGED <<wrote, rows, space, dbfails>>
    BY <1>4
    DEF dzfile_init, dz_openlog, dz_openmq, dz_opendb, open_find, open_dst,
        dbvars
  <2>2. CASE \E r \in {0, -1} : Fail(p, r)
    BY <1>3, <2>1, <2>2
  <2>3. CASE \E l \in Mains \ {"count"} :
               To(p, l) /\ UNCHANGED <<pos, kills>>
    BY <1>1, <1>2, <2>1, <2>3
  <2>4. \/ \E r \in {0, -1} : Fail(p, r)
        \/ \E l \in Mains \ {"count"} : To(p, l) /\ UNCHANGED <<pos, kills>>
    BY <1>1, <1>4, OpenStep
    DEF dzfile_init, dz_openlog, dz_openmq, dz_opendb, open_find, open_dst,
        vars, Mains, Before
  <2> QED
    BY <2>2, <2>3, <2>4
<1>5. ASSUME NEW p \in Puts, fmt_entry_insert(p) \/ add_filenum(p) \/ main_out(p)
      PROVE  CountInv'
  <2>1. main[p] # "count" /\ UNCHANGED <<pos, wrote, kills>>
    BY <1>5 DEF fmt_entry_insert, add_filenum, main_out, vars
  <2>2. \E l \in Mains \ {"count"} : main' = [main EXCEPT ![p] = l]
    BY <1>5
    DEF fmt_entry_insert, add_filenum, main_out, dzfile_fini, Mains, Before, Ended
  <2>3. space.written' = space.written /\ dbfails' \in {dbfails, dbfails + 1}
    BY <1>1, <1>5
    DEF fmt_entry_insert, add_filenum, space_update, DbFail, main_out, dbvars
  <2> QED
    BY <1>2, <2>1, <2>2, <2>3
<1>6. ASSUME NEW p \in Puts, copy(p)
      PROVE  CountInv'
  <2>1. /\ main[p] = "copy" /\ UNCHANGED <<rows, space, dbfails, unlooked>>
        /\ wrote' = [wrote EXCEPT ![p] = pos'[p] - pos[p]]
    BY <1>6 DEF copy, Wrote, dbvars
  <2>2. CASE Loop(p) /\ To(p, IF total' = total THEN "copy" ELSE "count")
    <3> DEFINE l == IF total' = total THEN "copy" ELSE "count"
               v == pos'[p] - pos[p]
    <3>1. PICK n \in Nat : pos' = [pos EXCEPT ![p] = n]
      BY <2>2, LoopPos
    <3>2. /\ total' = total => pos' = pos
          /\ kills' = kills
          /\ v \in 0 .. BUFLEN
      BY <2>2, LoopPos, LoopStep
    <3>3. /\ pos'[p] = n /\ pos[p] \in Nat /\ v \in Nat /\ v = n - pos[p]
          /\ v <= BUFLEN
      BY <1>1, <3>1, <3>2
    <3>4. Uncounted(l, v) = v
      BY <1>1, <3>2, <3>3 DEF Uncounted
    <3>5. Uncounted(main[p], wrote[p]) = 0
      BY <2>1 DEF Uncounted
    <3>6. (n - pos[p]) - (0 + Uncounted(l, v) - Uncounted(main[p], wrote[p]))
            \in 0 .. (IF 0 = 0 THEN 0 ELSE BUFLEN)
      BY <3>3, <3>4, <3>5
    <3>7. /\ main' = [main EXCEPT ![p] = l] /\ wrote' = [wrote EXCEPT ![p] = v]
          /\ space.written' = space.written + 0
          /\ dbfails' \in Nat /\ kills' \in Nat
          /\ dbfails' + kills' = dbfails + kills + 0
      BY <1>1, <2>1, <2>2, <3>2
    <3>8. v \in Nat
      BY <3>3
    <3> HIDE DEF l, v
    <3> QED
      BY <3>1, <3>6, <3>7, <3>8, Zero, CountKeep, ZenonT(30)
  <2>3. CASE put_close(p) /\ To(p, "out")
    <3>1. UNCHANGED <<pos, kills>> /\ pos[p] \in Nat
      BY <1>1, <2>3 DEF put_close
    <3>2. /\ main' = [main EXCEPT ![p] = "out"]
          /\ wrote' = [wrote EXCEPT ![p] = 0]
          /\ pos' = [pos EXCEPT ![p] = pos[p]]
          /\ space.written' = space.written + 0
          /\ dbfails' \in Nat /\ kills' \in Nat
          /\ dbfails' + kills' = dbfails + kills + 0
      <4>1. pos'[p] - pos[p] = 0
        BY <3>1
      <4>2. pos' = [pos EXCEPT ![p] = pos[p]]
        BY <1>1, <3>1
      <4>3. wrote' = [wrote EXCEPT ![p] = 0]
        BY <2>1, <4>1
      <4>4. main' = [main EXCEPT ![p] = "out"]
        BY <2>3
      <4>5. /\ space.written' = space.written + 0
            /\ dbfails' \in Nat /\ kills' \in Nat
            /\ dbfails' + kills' = dbfails + kills + 0
        BY <1>1, <2>1, <3>1
      <4> QED
        BY <4>2, <4>3, <4>4, <4>5
    <3>3. Uncounted("out", 0) = 0 /\ Uncounted(main[p], wrote[p]) = 0
      BY <2>1 DEF Uncounted
    <3>4. (pos[p] - pos[p])
            - (0 + Uncounted("out", 0) - Uncounted(main[p], wrote[p]))
          \in 0 .. (IF 0 = 0 THEN 0 ELSE BUFLEN)
      BY <3>1, <3>3
    <3> QED
      BY <3>1, <3>2, <3>4, Zero, CountKeep, ZenonT(30)
  <2> QED
    BY <1>6, <2>2, <2>3 DEF copy
<1>7. ASSUME NEW p \in Puts, add_writtenbytes(p)
      PROVE  CountInv'
  <2> DEFINE w == wrote[p]
  <2>1. /\ main[p] = "count" /\ main' = [main EXCEPT ![p] = "copy"]
        /\ UNCHANGED <<pos, wrote, kills>>
        /\ w \in Nat /\ w <= BUFLEN /\ pos[p] \in Nat
        /\ wrote' = [wrote EXCEPT ![p] = w] /\ pos' = [pos EXCEPT ![p] = pos[p]]
    BY <1>1, <1>7 DEF add_writtenbytes, vars
  <2>2. Uncounted("copy", w) = 0 /\ Uncounted(main[p], wrote[p]) = w
    BY <2>1 DEF Uncounted
  <2>3. CASE /\ space' = [space EXCEPT !["written"] = @ + wrote[p]]
             /\ UNCHANGED <<rows, dbfails>>
    <3>1. /\ space.written' = space.written + w
          /\ dbfails' \in Nat /\ kills' \in Nat
          /\ dbfails' + kills' = dbfails + kills + 0
      BY <1>1, <2>1, <2>3
    <3>2. (pos[p] - pos[p])
            - (w + Uncounted("copy", w) - Uncounted(main[p], wrote[p]))
          \in 0 .. (IF 0 = 0 THEN 0 ELSE BUFLEN)
      BY <2>1, <2>2
    <3> HIDE DEF w
    <3> QED
      BY <2>1, <3>1, <3>2, Zero, CountKeep, ZenonT(30)
  <2>4. CASE DbFail
    <3>1. /\ space.written' = space.written + 0
          /\ dbfails' \in Nat /\ kills' \in Nat
          /\ dbfails' + kills' = dbfails + kills + 1
      BY <1>1, <2>1, <2>4 DEF DbFail
    <3>2. (pos[p] - pos[p])
            - (0 + Uncounted("copy", w) - Uncounted(main[p], wrote[p]))
          \in 0 .. (IF 1 = 0 THEN 0 ELSE BUFLEN)
      BY <1>1, <2>1, <2>2
    <3> HIDE DEF w
    <3> QED
      BY <2>1, <3>1, <3>2, Zero, CountKeep, ZenonT(30)
  <2> QED
    BY <1>7, <2>3, <2>4 DEF add_writtenbytes, space_update
<1>8. ASSUME NEW p \in Puts, TKill(p)
      PROVE  CountInv'
  <2> DEFINE w == wrote[p]
  <2>1. /\ main' = [main EXCEPT ![p] = "killed"]
        /\ w \in Nat /\ w <= BUFLEN /\ pos[p] \in Nat
        /\ wrote' = [wrote EXCEPT ![p] = w] /\ pos' = [pos EXCEPT ![p] = pos[p]]
        /\ space.written' = space.written + 0
        /\ dbfails' \in Nat /\ kills' \in Nat
        /\ dbfails' + kills' = dbfails + kills + 1
    BY <1>1, <1>8 DEF TKill, Kill, dbvars
  <2>2. /\ Uncounted("killed", w) = 0
        /\ Uncounted(main[p], wrote[p]) \in 0 .. BUFLEN
    BY <1>1, <2>1 DEF Uncounted
  <2>3. (pos[p] - pos[p])
          - (0 + Uncounted("killed", w) - Uncounted(main[p], wrote[p]))
        \in 0 .. (IF 1 = 0 THEN 0 ELSE BUFLEN)
    BY <1>1, <2>1, <2>2
  <2> HIDE DEF w
  <2> QED
    BY <2>1, <2>3, Zero, CountKeep, ZenonT(30)
<1>9. CASE \/ \E p \in Puts : copy_lockfail(p)
           \/ UNCHANGED tvars
  BY <1>9
  DEF copy_lockfail, lockw_getlk_fail, tvars, vars, procvars, dbvars,
      CountInv, Counting
<1> QED
  BY <1>3, <1>4, <1>5, <1>6, <1>7, <1>8, <1>9
  DEF TNext, main_put, AllEnded

-----------------------------------------------------------------------------
(* Every behaviour of the programs is one of the copies of Put: dzfile_init*)
(* failing is a copy that does not begin, the rest of main stutters.       *)
THEOREM ToolImplementsPut == TSpec => Spec
<1>1. TInit => Init
  BY DEF TInit
<1>2. [TNext]_tvars => [Next]_vars
  <2> SUFFICES ASSUME [TNext]_tvars
               PROVE  [Next]_vars
    OBVIOUS
  <2>1. ASSUME NEW p \in Puts, main_put(p)
        PROVE  [Next]_vars
    BY <2>1
    DEF main_put, dzfile_init, dz_openlog, dz_openmq, dz_opendb, open_find,
        fmt_entry_insert, add_filenum, open_dst, Fail, copy, Loop,
        add_writtenbytes, main_out, Next, dzfile_put
  <2>2. ASSUME NEW p \in Puts, copy_lockfail(p) \/ TKill(p)
        PROVE  [Next]_vars
    BY <2>2 DEF copy_lockfail, TKill, Next, dzfile_put
  <2>3. CASE UNCHANGED tvars
    BY <2>3 DEF tvars
  <2> QED
    BY <2>1, <2>2, <2>3 DEF TNext, AllEnded
<1> QED
  BY <1>1, <1>2, PTL DEF TSpec, Spec

(* The invariants hold throughout.                                         *)
LEMMA ToolInvariant == TSpec => [](PutInv /\ ToolInv)
<1>1. TSpec => []PutInv
  BY ToolImplementsPut, PutInvariant, PTL
<1> QED
  BY <1>1, ToolInit, ToolStep, PTL DEF TSpec

(* No update of writtenbytes is lost, for any number of processes: the     *)
(* counter differs from what they have written by at most a buffer for     *)
(* each write being counted, failed transaction and killed process.        *)
THEOREM ToolBytesCounted == TSpec => []BytesCounted
<1>1. TSpec => []CountInv
  BY ToolInvariant, CountInit, CountStep, PTL DEF TSpec
<1> QED
  BY <1>1, CountIs, PTL

(* The programs are type correct: main and the copy stay in step, whatever *)
(* fails.                                                                  *)
THEOREM ToolTypeCorrect == TSpec => []TTypeOK
<1>1. ToolInv => TTypeOK
  BY DEF ToolInv
<1> QED
  BY <1>1, ToolInvariant, PTL

(* Whole copies are serialised and come out whole, for the programs too.   *)
COROLLARY ToolSerial == TSpec => [](OneWriter /\ PutCopied)
  BY ToolImplementsPut, PutSerial, PutWhole, PTL

(* No destination exists without its row and its count in filenum, but for *)
(* failed transactions and lstats: not for any number of processes that    *)
(* find it missing at once, nor for kills anywhere in dzfile_open.         *)
THEOREM ToolCreatesRow == TSpec => []CreatedRow
<1>1. ToolInv => CreatedRow
  BY DEF ToolInv, RowInv, CreatedRow
<1> QED
  BY <1>1, ToolInvariant, PTL

(* A dzfile-put that reports that its dzfile_put failed, or left no file,  *)
(* or that crashes in dzfile_fini, has written nothing and holds no lock.  *)
THEOREM ToolFailsClean == TSpec => []FailureIsClean
<1>1. PutInv /\ ToolInv => FailureIsClean
  <2> SUFFICES ASSUME PutInv, ToolInv, NEW p \in Puts,
                      \/ main[p] = "crashed"
                      \/ main[p] = "failed" /\ (ret[p] = -1 \/ name = "missing")
               PROVE  total[p] = 0 /\ locks[p] = {}
    BY DEF FailureIsClean
  <2>1. total[p] \in Nat /\ pc[p] = "done"
    BY DEF PutInv, TypeOK, ToolInv, TTypeOK, Ended
  <2> QED
    BY <2>1 DEF ToolInv, CleanInv
<1> QED
  BY <1>1, ToolInvariant, PTL
=============================================================================
