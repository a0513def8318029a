---------------------------- MODULE ReleaseProofs ----------------------------
(* What a published release may rely on, for every bound on the chain and the  *)
(* workspace and every number of house blueprints: the state it names is final *)
(* and stays canonical, its receipts stand in their order, its code was built  *)
(* from the reviewed sources, its canary went to a final deployment, and no    *)
(* record the manifest file ever held is lost or replaced.  Of the utilities:  *)
(* a candidate's commit holds what it was built from, and the rewards their    *)
(* contracts owe are covered.                                                  *)
EXTENDS UtilitySystem, AccountingLaws, SequenceTheorems, FiniteSetTheorems, TLAPS

\* A sequence, of whatever its elements are.
IsSeq(s) == s \in Seq(ToSet(s))

\* The proofs' notion of a sequence covers the library's.
LEMMA SeqIsSeq ==
  ASSUME NEW S, NEW s \in Seq(S)
  PROVE  IsSeq(s) /\ Len(s) \in Nat /\ ToSet(s) = {s[i] : i \in 1..Len(s)}
  <1>1. Len(s) \in Nat /\ DOMAIN s = 1..Len(s) /\ s \in [1..Len(s) -> S]
    BY LenProperties
  <1>2. s \in [1..Len(s) -> ToSet(s)]
    BY <1>1 DEF ToSet
  <1>3. s \in UNION {[1..n -> ToSet(s)] : n \in Nat}
    BY <1>1, <1>2
  <1> QED
    BY <1>1, <1>3, SeqDef DEF IsSeq, ToSet

\* The same, for what is known to be one.
LEMMA IsSeqFacts ==
  ASSUME NEW s, IsSeq(s)
  PROVE  Len(s) \in Nat /\ DOMAIN s = 1..Len(s) /\ ToSet(s) = {s[i] : i \in 1..Len(s)}
  <1>1. s \in Seq(ToSet(s))
    BY DEF IsSeq
  <1>2. Len(s) \in Nat /\ DOMAIN s = 1..Len(s)
    BY <1>1, LenProperties
  <1> QED
    BY <1>1, <1>2, SeqIsSeq

\* Appending to a sequence.
LEMMA AppendIsSeq ==
  ASSUME NEW s, IsSeq(s), NEW e
  PROVE  /\ IsSeq(Append(s, e)) /\ Len(Append(s, e)) = Len(s) + 1
         /\ \A i \in 1..Len(s) : Append(s, e)[i] = s[i]
  <1>1. s \in Seq(ToSet(s) \cup {e})
    BY SeqMonotonic DEF IsSeq
  <1>2. Append(s, e) \in Seq(ToSet(s) \cup {e})
    BY <1>1
  <1>3. Len(Append(s, e)) = Len(s) + 1 /\ \A i \in 1..Len(s) : Append(s, e)[i] = s[i]
    BY <1>1
  <1> QED
    BY <1>2, <1>3, SeqIsSeq

\* A prefix of a sequence.
LEMMA PrefixIsSeq ==
  ASSUME NEW s, IsSeq(s), NEW n \in 0..Len(s)
  PROVE  /\ IsSeq(SubSeq(s, 1, n)) /\ Len(SubSeq(s, 1, n)) = n
         /\ \A i \in 1..n : SubSeq(s, 1, n)[i] = s[i]
  <1>1. Len(s) \in Nat /\ \A i \in 1..n : s[i] \in ToSet(s)
    BY ElementOfSeq, LenProperties DEF IsSeq
  <1>2. SubSeq(s, 1, n) \in Seq(ToSet(s)) /\ Len(SubSeq(s, 1, n)) = n
    BY <1>1, SubSeqProperties
  <1>3. \A i \in 1..n : SubSeq(s, 1, n)[i] = s[i]
    BY <1>1, SubSeqProperties
  <1> QED
    BY <1>2, <1>3, SeqIsSeq

\* An element put in front of a sequence.
LEMMA InFrontIsSeq ==
  ASSUME NEW e, NEW s, IsSeq(s)
  PROVE  IsSeq(<<e>> \o s) /\ ToSet(<<e>> \o s) = {e} \cup ToSet(s)
  <1> DEFINE S == ToSet(s) \cup {e}
             t == <<e>> \o s
  <1>1. s \in Seq(S) /\ <<e>> \in Seq(S) /\ Len(<<e>>) = 1 /\ <<e>>[1] = e
    BY SeqMonotonic DEF IsSeq
  <1> HIDE DEF S
  <1>2. t \in Seq(S) /\ Len(t) = Len(s) + 1 /\ Len(s) \in Nat
    BY <1>1, ConcatProperties, LenProperties
  <1>3. \A i \in 1..Len(t) : t[i] = IF i = 1 THEN e ELSE s[i - 1]
    BY <1>1, <1>2, ConcatProperties
  <1>4. IsSeq(t) /\ ToSet(t) = {t[i] : i \in 1..Len(t)} /\ ToSet(s) = {s[i] : i \in 1..Len(s)}
    BY <1>1, <1>2, SeqIsSeq
  <1> HIDE DEF t
  <1>5. ToSet(t) \subseteq {e} \cup ToSet(s)
    BY <1>2, <1>3, <1>4
  <1>6. e \in ToSet(t)
    <2>1. 1 \in 1..Len(t)
      BY <1>2
    <2> QED
      BY <2>1, <1>3, <1>4
  <1>7. ASSUME NEW i \in 1..Len(s) PROVE s[i] \in ToSet(t)
    <2>1. i + 1 \in 1..Len(t) /\ t[i + 1] = s[i]
      BY <1>2, <1>3
    <2> QED
      BY <2>1, <1>4
  <1> QED
    BY <1>4, <1>5, <1>6, <1>7 DEF t

-----------------------------------------------------------------------------
(* The chain.                                                                 *)

\* The heads are in order, and the finalized one is on the chain.
ChainOK ==
  /\ IsSeq(chain)
  /\ safe \in Nat /\ final \in Nat \ {0}
  /\ final <= safe /\ safe <= Len(chain)

\* A header of the finalized part of the chain.
Published(header) == header.number \in 1..final /\ Header(header.number) = header

\* Whatever the chain does, its heads stay in order and what is published stays
\* published.
LEMMA ChainSteps ==
  ASSUME ChainOK,
         ChainNext \/ UtilityMine \/ AdvanceSafe \/ AdvanceFinal \/ Reorganise \/ (\E txs : Send(txs)) \/ UNCHANGED chainVars
  PROVE  ChainOK' /\ \A header : Published(header) => Published(header)'
  <1> USE DEF ChainOK, Published, Header
  <1>0. Len(chain) \in Nat
    BY SeqIsSeq DEF IsSeq
  <1>1. CASE Mine \/ UtilityMine
    <2>1. PICK next, strangers, clock : Grow(strangers, next, clock)
      BY <1>1 DEF Mine, UtilityMine
    <2>2. PICK block : chain' = Append(chain, block) /\ UNCHANGED <<safe, final>>
      BY <2>1 DEF Grow
    <2> QED
      BY <1>0, <2>2, AppendIsSeq
  <1>2. CASE AdvanceSafe \/ AdvanceFinal
    BY <1>0, <1>2 DEF AdvanceSafe, AdvanceFinal, Latest
  <1>3. CASE Reorganise
    <2>1. PICK n \in final..Len(chain) - 1 :
            chain' = SubSeq(chain, 1, n) /\ safe' = (IF safe > n THEN n ELSE safe) /\ final' = final
      BY <1>3 DEF Reorganise, ChainThrough, Latest
    <2>2. n \in 0..Len(chain)
      BY <1>0, <2>1
    <2> QED
      BY <1>0, <2>1, <2>2, PrefixIsSeq
  <1>4. CASE (\E txs : Send(txs)) \/ UNCHANGED chainVars
    BY <1>4 DEF Send, chainVars
  <1> QED
    BY <1>1, <1>2, <1>3, <1>4 DEF ChainNext

-----------------------------------------------------------------------------
(* The manifest file.                                                         *)

Records(f) == {r \in ToSet(f.retained) \cup {f.current} : r.form = "expanded"}

\* The registry lists what is retained, one record to a generation, and CURRENT comes after
\* them all or is the alias of the newest.
FileOK(f) ==
  /\ f = [retained |-> f.retained, registry |-> f.registry, current |-> f.current]
  /\ IsSeq(f.retained) /\ IsSeq(f.registry)
  /\ f.current.version \in Int /\ f.current.form \in {"alias", "expanded"}
  /\ \A r \in ToSet(f.retained) :
       /\ r.form = "expanded" /\ r.version \in Int
       /\ r.version <= f.current.version
       /\ f.current.form = "expanded" => r.version < f.current.version
  /\ \A r, q \in ToSet(f.retained) : r.version = q.version => r = q
  /\ {r.version : r \in ToSet(f.retained)} = ToSet(f.registry)

\* What RecordsStand asks of a change to the file.
RecordsKept(f, g) ==
  /\ Records(f) \subseteq Records(g)
  /\ \A r, q \in Records(g) : r.version = q.version => r = q
  /\ ToSet(f.registry) \subseteq ToSet(g.registry)
  /\ {r.version : r \in ToSet(g.retained)} = ToSet(g.registry)

\* A file left alone keeps its records.
LEMMA UntouchedKeeps == ASSUME NEW f, FileOK(f) PROVE RecordsKept(f, f)
  BY DEF FileOK, RecordsKept, Records

\* Retaining CURRENT as a record of its own loses and doubles none.
LEMMA RetainingKeeps ==
  ASSUME FileOK(file), RetainRelease
  PROVE  FileOK(file') /\ RecordsKept(file, file') /\ Records(file') \subseteq Records(file)
  <1> DEFINE c == file.current
  <1>1. /\ c.form = "expanded"
        /\ file' = [retained |-> <<c>> \o file.retained, registry |-> <<c.version>> \o file.registry,
                    current |-> Alias(c.version)]
    BY DEF RetainRelease
  <1>2. /\ IsSeq(file'.retained) /\ ToSet(file'.retained) = {c} \cup ToSet(file.retained)
        /\ IsSeq(file'.registry) /\ ToSet(file'.registry) = {c.version} \cup ToSet(file.registry)
    BY <1>1, InFrontIsSeq DEF FileOK
  <1>3. file'.current = [form |-> "alias", version |-> c.version, release |-> <<>>]
    BY <1>1 DEF Alias
  <1>4. Records(file') = Records(file)
    BY <1>1, <1>2, <1>3 DEF Records
  <1>5. FileOK(file')
    <2>1. \A r \in ToSet(file.retained) : r.form = "expanded" /\ r.version \in Int /\ r.version < c.version
      BY <1>1 DEF FileOK
    <2>2. \A r, q \in ToSet(file'.retained) : r.version = q.version => r = q
      BY <1>2, <2>1 DEF FileOK
    <2>3. {r.version : r \in ToSet(file'.retained)} = ToSet(file'.registry)
      BY <1>2 DEF FileOK
    <2>4. c.version \in Int
      BY DEF FileOK
    <2>5. file'.current.version = c.version /\ file'.current.form = "alias"
      BY <1>3
    <2>6. file' = [retained |-> file'.retained, registry |-> file'.registry, current |-> file'.current]
      BY <1>1
    <2>7. ASSUME NEW r \in ToSet(file'.retained)
          PROVE  r.form = "expanded" /\ r.version \in Int /\ r.version <= c.version
      <3>1. r = c \/ r \in ToSet(file.retained)
        BY <1>2
      <3> QED
        BY <1>1, <2>1, <2>4, <3>1
    <2> HIDE DEF c
    <2> QED
      BY <1>2, <2>2, <2>3, <2>4, <2>5, <2>6, <2>7 DEF FileOK
  <1>6. Records(file') = ToSet(file'.retained)
    BY <1>3, <1>5 DEF Records, FileOK
  <1>7. \A r, q \in Records(file') : r.version = q.version => r = q
    BY <1>5, <1>6 DEF FileOK
  <1>8. {r.version : r \in ToSet(file'.retained)} = ToSet(file'.registry)
    BY <1>5 DEF FileOK
  <1>9. RecordsKept(file, file')
    BY <1>2, <1>4, <1>7, <1>8 DEF RecordsKept
  <1> QED
    BY <1>4, <1>5, <1>9

\* Nor does replacing CURRENT by the release.
LEMMA ReplacingKeeps ==
  ASSUME NEW f, FileOK(f), NEW v \in Int, NEW release
  PROVE  LET g == ReplaceCurrentReleaseManifest(f, Expanded(v, release))
         IN FileOK(g) /\ RecordsKept(f, g) /\ Records(g) \subseteq Records(f) \cup {Expanded(v, release)}
  <1> DEFINE e == Expanded(v, release)
             g == ReplaceCurrentReleaseManifest(f, e)
  <1>1. e.form = "expanded" /\ e.version = v
    BY DEF Expanded
  <1>2. CASE g = f
    BY <1>2, UntouchedKeeps
  <1>3. CASE g # f
    <2>1. /\ f.current.form = "alias" /\ v = f.current.version + 1
          /\ g = [f EXCEPT !.current = e]
      <3>1. CASE f.current.form = "expanded"
        <4>1. f.current = e
          BY <1>3, <3>1 DEF ReplaceCurrentReleaseManifest, ReplacementAllowed
        <4>2. g = f
          BY <4>1 DEF ReplaceCurrentReleaseManifest, Patched, FileOK
        <4> QED
          BY <1>3, <4>2
      <3>2. CASE f.current.form = "alias"
        BY <1>1, <1>3, <3>2 DEF ReplaceCurrentReleaseManifest, ReplacementAllowed, Patched, AssignmentVersion
      <3> QED
        BY <3>1, <3>2 DEF FileOK
    <2>2. g = [retained |-> f.retained, registry |-> f.registry, current |-> e]
      BY <2>1 DEF FileOK
    <2> HIDE DEF g, e
    <2>3. FileOK(g)
      BY <1>1, <2>1, <2>2 DEF FileOK
    <2>4. Records(f) = ToSet(f.retained) /\ Records(g) = ToSet(f.retained) \cup {e}
      BY <1>1, <2>1, <2>2 DEF FileOK, Records
    <2>5. \A r \in ToSet(f.retained) : r.version \in Int /\ r.version < v
      BY <2>1 DEF FileOK
    <2>6. RecordsKept(f, g)
      BY <1>1, <2>2, <2>4, <2>5 DEF FileOK, RecordsKept
    <2> QED
      BY <2>3, <2>4, <2>6 DEF e, g
  <1> QED
    BY <1>2, <1>3

-----------------------------------------------------------------------------
(* The script that is running.                                                *)

\* A header as Header returns it, of a block there may be.
IsHeader(h) == h = [number |-> h.number, hash |-> h.hash] /\ h.number \in Nat \ {0}

\* The promoter knows its state head once it has pinned it, and only a dry run
\* comes to the write without having seen that head final.
RunOK(r) ==
  /\ {"script", "stage"} \subseteq DOMAIN r /\ r = [x \in DOMAIN r |-> r[x]]
  /\ r.script = "promote" =>
       /\ {"remote", "dry"} \subseteq DOMAIN r
       /\ r.dry \/ r.remote
       /\ r.stage \notin {"receiptHead", "stateHead"} => "stateHead" \in DOMAIN r /\ IsHeader(r.stateHead)
       /\ r.stage = "write" /\ ~r.dry => Published(r.stateHead)

\* No script runs at the start.
LEMMA IdleOK == RunOK(Idle)
  BY DEF RunOK, Idle

\* A passed check leads to the next stage; only a fork's answer may pass a failing one.
LEMMA Proceeds ==
  ASSUME NEW check, NEW next, Proceed(check, next)
  PROVE  run' = Idle \/ (run' = next /\ (run.remote => check))
  BY DEF Proceed, Verdicts

\* A script that goes to its next stage without reading keeps what it has read.
LEMMA StageMoves ==
  ASSUME RunOK(run), NEW stage
  PROVE  LET r == [run EXCEPT !.stage = stage]
         IN r.stage = stage /\ DOMAIN r = DOMAIN run /\ r = [x \in DOMAIN r |-> r[x]]
            /\ \A x \in DOMAIN run \ {"stage"} : r[x] = run[x]
  BY DEF RunOK

\* Facts do not touch which script is running.
LEMMA ScriptStays ==
  ASSUME RunOK(run), NEW stage, NEW facts, "script" \notin DOMAIN facts
  PROVE  LET r == Reached(stage, facts)
         IN {"script", "stage"} \subseteq DOMAIN r /\ r = [x \in DOMAIN r |-> r[x]] /\ r.script = run.script
  <1> DEFINE r == Reached(stage, facts)
  <1>1. {"script", "stage"} \subseteq DOMAIN run
    BY DEF RunOK
  <1>2. DOMAIN r = DOMAIN run \cup DOMAIN facts /\ r = [x \in DOMAIN r |-> r[x]]
    BY DEF RunOK, Reached
  <1>3. r["script"] = run["script"]
    BY <1>1 DEF Reached
  <1> QED
    BY <1>1, <1>2, <1>3

\* The steps of the preflight leave the promoter alone.
LEMMA PreflightRuns ==
  ASSUME RunOK(run), PreflightNext
  PROVE  RunOK(run') /\ run'.script # "promote"
  <1>0. ASSUME run' = Idle PROVE RunOK(run') /\ run'.script # "promote"
    BY <1>0, IdleOK DEF Idle
  <1>1. ASSUME run'.script = "preflight", {"script", "stage"} \subseteq DOMAIN run',
               run' = [x \in DOMAIN run' |-> run'[x]]
        PROVE  RunOK(run') /\ run'.script # "promote"
    BY <1>1 DEF RunOK, Idle
  <1>2. CASE \E rehearsal, remote \in BOOLEAN : StartPreflight(rehearsal, remote)
    BY <1>1, <1>2 DEF StartPreflight
  <1>3. CASE PreflightReceiptHead
    <2>1. PICK n : run' = Reached("stateHead", [receiptHead |-> Header(n)]) /\ run.script = "preflight"
      BY <1>3 DEF PreflightReceiptHead, In
    <2> QED
      BY <1>1, <2>1, ScriptStays
  <1>4. CASE PreflightStateHead
    <2>1. PICK n : run' = Idle \/ run' = Reached("receipts", [stateHead |-> Header(n), view |-> ChainThrough(n)])
      BY <1>4, Proceeds DEF PreflightStateHead
    <2>2. run.script = "preflight"
      BY <1>4 DEF PreflightStateHead, In
    <2> QED
      BY <1>0, <1>1, <2>1, <2>2, ScriptStays
  <1>5. CASE PreflightReceipts
    <2>1. PICK receipts : run' = Idle \/ run' = Reached("state", [receipts |-> receipts])
      BY <1>5, Proceeds DEF PreflightReceipts
    <2>2. run.script = "preflight"
      BY <1>5 DEF PreflightReceipts, In
    <2> QED
      BY <1>0, <1>1, <2>1, <2>2, ScriptStays
  <1>6. CASE PreflightState
    <2>1. run' = Idle \/ run' = [run EXCEPT !.stage = "recheck"]
      BY <1>6, Proceeds DEF PreflightState
    <2>2. run.script = "preflight"
      BY <1>6 DEF PreflightState, In
    <2> QED
      BY <1>0, <1>1, <2>1, <2>2, StageMoves DEF RunOK
  <1>7. CASE PreflightRecheck
    <2>1. run' = Idle \/ run' = [script |-> "preflight", stage |-> IF run.remote THEN "passed" ELSE "rehearsed"]
      BY <1>7, Proceeds DEF PreflightRecheck
    <2> QED
      BY <1>0, <1>1, <2>1
  <1>8. CASE PreflightEnds
    BY <1>0, <1>8 DEF PreflightEnds
  <1> QED
    BY <1>2, <1>3, <1>4, <1>5, <1>6, <1>7, <1>8 DEF PreflightNext

\* The promoter's invariant at every stage but the write.
LEMMA PromoterReaches ==
  ASSUME RunOK(run), run.script = "promote", NEW stage, NEW facts, stage # "write",
         DOMAIN facts \cap {"script", "stage", "remote", "dry"} = {},
         stage \in {"receiptHead", "stateHead"} \/
           IF "stateHead" \in DOMAIN facts THEN IsHeader(facts["stateHead"])
           ELSE "stateHead" \in DOMAIN run /\ IsHeader(run["stateHead"])
  PROVE  RunOK(Reached(stage, facts))
  <1> DEFINE r == Reached(stage, facts)
  <1>1. {"script", "stage", "remote", "dry"} \subseteq DOMAIN run /\ (run["dry"] \/ run["remote"])
    BY DEF RunOK
  <1>2. /\ DOMAIN r = DOMAIN run \cup DOMAIN facts /\ r = [x \in DOMAIN r |-> r[x]]
        /\ r["stage"] = stage /\ r["script"] = "promote"
        /\ r["remote"] = run["remote"] /\ r["dry"] = run["dry"]
    BY <1>1 DEF RunOK, Reached
  <1>3. stage \notin {"receiptHead", "stateHead"} => "stateHead" \in DOMAIN r /\ IsHeader(r["stateHead"])
    BY DEF Reached
  <1> HIDE DEF r
  <1>4. RunOK(r)
    BY <1>1, <1>2, <1>3 DEF RunOK
  <1> QED
    BY <1>4 DEF r

\* The promoter's own steps, from the pinning of the state head to the write.
LEMMA PromotionRuns ==
  ASSUME ChainOK, RunOK(run), PromotionNext
  PROVE  RunOK(run')
  <1>0. ASSUME run' = Idle PROVE RunOK(run')
    BY <1>0, IdleOK
  <1>1. CASE \E dry, remote \in BOOLEAN : StartPromotion(dry, remote)
    BY <1>1 DEF StartPromotion, EndpointAllowed, RunOK
  <1>2. CASE PromotionReceiptHead
    <2>1. PICK n : run' = Reached("stateHead", [receiptHead |-> Header(n)])
      BY <1>2 DEF PromotionReceiptHead
    <2>2. run.script = "promote"
      BY <1>2 DEF PromotionReceiptHead, In
    <2> QED
      BY <2>1, <2>2, PromoterReaches
  <1>3. CASE PromotionStateHead
    <2>1. PICK n \in {safe, Latest} :
            run' = Idle \/ run' = Reached("firstPass", [stateHead |-> Header(n), view |-> ChainThrough(n)])
      BY <1>3, Proceeds DEF PromotionStateHead
    <2>2. run.script = "promote"
      BY <1>3 DEF PromotionStateHead, In
    <2>3. IsHeader(Header(n))
      BY SeqIsSeq DEF ChainOK, IsSeq, Latest, Header, IsHeader
    <2> DEFINE facts == [stateHead |-> Header(n), view |-> ChainThrough(n)]
    <2>4. /\ DOMAIN facts \cap {"script", "stage", "remote", "dry"} = {}
          /\ "stateHead" \in DOMAIN facts /\ facts["stateHead"] = Header(n)
      OBVIOUS
    <2> HIDE DEF facts
    <2>5. RunOK(Reached("firstPass", facts))
      BY <2>2, <2>3, <2>4, PromoterReaches
    <2> QED
      BY <1>0, <2>1, <2>5 DEF facts
  <1>4. ASSUME NEW from, NEW to, run.script = "promote", run.stage = from, run' = [run EXCEPT !.stage = to],
               from \in {"firstPass", "runtimes", "receipts", "state", "recheck"},
               to \in {"runtimes", "receipts", "state", "recheck", "finality"}
        PROVE  RunOK(run')
    BY <1>4, StageMoves DEF RunOK
  <1>5. CASE PromotionFirstPass
    <2>1. run.script = "promote" /\ run.stage = "firstPass"
      BY <1>5 DEF PromotionFirstPass, In
    <2>2. run' = Idle \/ run' = [run EXCEPT !.stage = "runtimes"]
      BY <1>5, Proceeds DEF PromotionFirstPass
    <2> QED
      BY <1>0, <1>4, <2>1, <2>2
  <1>6. CASE PromotionRuntimes
    <2>1. run.script = "promote" /\ run.stage = "runtimes"
      BY <1>6 DEF PromotionRuntimes, In
    <2>2. run' = Idle \/ run' = [run EXCEPT !.stage = "receipts"]
      BY <1>6, Proceeds DEF PromotionRuntimes
    <2> QED
      BY <1>0, <1>4, <2>1, <2>2
  <1>7. CASE PromotionReceipts
    <2>1. run.script = "promote" /\ run.stage = "receipts"
      BY <1>7 DEF PromotionReceipts, In
    <2>2. PICK receipts : run' = Idle \/ run' = Reached("state", [receipts |-> receipts])
      BY <1>7, Proceeds DEF PromotionReceipts
    <2> DEFINE facts == [receipts |-> receipts]
    <2>3. DOMAIN facts \cap {"script", "stage", "remote", "dry"} = {} /\ "stateHead" \notin DOMAIN facts
      OBVIOUS
    <2>4. "stateHead" \in DOMAIN run /\ IsHeader(run["stateHead"])
      BY <2>1 DEF RunOK
    <2> HIDE DEF facts
    <2>5. RunOK(Reached("state", facts))
      BY <2>1, <2>3, <2>4, PromoterReaches
    <2> QED
      BY <1>0, <2>2, <2>5 DEF facts
  <1>8. CASE PromotionState
    <2>1. run.script = "promote" /\ run.stage = "state"
      BY <1>8 DEF PromotionState, In
    <2>2. run' = Idle \/ run' = [run EXCEPT !.stage = "recheck"]
      BY <1>8, Proceeds DEF PromotionState
    <2> QED
      BY <1>0, <1>4, <2>1, <2>2
  <1>9. CASE PromotionRecheck
    <2>1. run.script = "promote" /\ run.stage = "recheck"
      BY <1>9 DEF PromotionRecheck, In
    <2>2. run' = Idle \/ run' = [run EXCEPT !.stage = IF run.remote THEN "finality" ELSE "write"]
      BY <1>9, Proceeds DEF PromotionRecheck
    <2>3. CASE run.remote
      BY <1>0, <1>4, <2>1, <2>2, <2>3
    <2>4. CASE ~run.remote
      <3>1. run["dry"] /\ {"script", "dry"} \subseteq DOMAIN run
        BY <2>1, <2>4 DEF RunOK
      <3>2. CASE run' = [run EXCEPT !.stage = "write"]
        BY <2>1, <3>1, <3>2, StageMoves DEF RunOK
      <3> QED
        BY <1>0, <2>2, <2>4, <3>2
    <2> QED
      BY <2>3, <2>4
  <1>10. CASE ConfirmFinality
    <2>1. run.script = "promote" /\ run.stage = "finality" /\ UNCHANGED chainVars
      BY <1>10 DEF ConfirmFinality, In, OnlyRunChanges
    <2> DEFINE h == run.stateHead
    <2>2. \/ run' = Idle
          \/ /\ run' = [run EXCEPT !.stage = "write"]
             /\ run.remote => AssertStateEvidenceFinalized(Header(final), h, Header(h.number))
      BY <1>10, Proceeds DEF ConfirmFinality
    <2>3. IsHeader(h)
      BY <2>1 DEF RunOK
    <2>4. AssertStateEvidenceFinalized(Header(final), h, Header(h.number)) => Published(h)
      BY <2>3 DEF AssertStateEvidenceFinalized, Header, Published, IsHeader, ChainOK
    <2>5. CASE run' = [run EXCEPT !.stage = "write"] /\ (run.remote => Published(h))
      BY <2>1, <2>5, StageMoves DEF RunOK
    <2> QED
      BY <1>0, <2>2, <2>4, <2>5
  <1>11. CASE FinalityTimeout \/ WriteManifest
    BY <1>0, <1>11 DEF FinalityTimeout, WriteManifest
  <1> QED
    BY <1>1, <1>2, <1>3, <1>5, <1>6, <1>7, <1>8, <1>9, <1>10, <1>11 DEF PromotionNext

-----------------------------------------------------------------------------
(* The release.                                                               *)

\* PublishedStateIsFinal holds because the write only follows the sight of a finalized head
\* at or above the pinned block, whose hash is read again under it; and because nothing below
\* the finalized head changes.
ReleaseInvariant ==
  /\ ChainOK
  /\ RunOK(run)
  /\ FileOK(file)
  /\ \A release \in Releases : Published(release.readback)

\* The invariant holds at the start.
LEMMA InvariantStarts == ReleaseInit => ReleaseInvariant
  <1> SUFFICES ASSUME ReleaseInit PROVE ReleaseInvariant
    OBVIOUS
  <1> DEFINE block == [hash |-> <<1, 0>>, txs |-> <<>>, clock |-> 1]
             old == Expanded(Promotes - 1, <<>>)
  <1>1. chain \in Seq({block}) /\ Len(chain) = 1
    BY DEF ReleaseInit
  <1>2. ChainOK
    <2>1. IsSeq(chain)
      BY <1>1, SeqIsSeq
    <2> QED
      BY <1>1, <2>1 DEF ReleaseInit, ChainOK
  <1>3. RunOK(run)
    BY IdleOK DEF ReleaseInit
  <1>4. file = [retained |-> <<old>>, registry |-> <<Promotes - 1>>, current |-> Alias(Promotes - 1)]
    BY DEF ReleaseInit
  <1>5. /\ IsSeq(<<old>>) /\ ToSet(<<old>>) = {old}
        /\ IsSeq(<<Promotes - 1>>) /\ ToSet(<<Promotes - 1>>) = {Promotes - 1}
    <2>1. ASSUME NEW e PROVE IsSeq(<<e>>) /\ ToSet(<<e>>) = {e}
      <3> DEFINE t == <<e>>
      <3>1. t \in Seq({e}) /\ Len(t) = 1 /\ t[1] = e
        OBVIOUS
      <3> HIDE DEF t
      <3>2. IsSeq(t) /\ ToSet(t) = {t[i] : i \in 1..Len(t)}
        BY <3>1, SeqIsSeq
      <3>3. ToSet(t) = {e}
        BY <3>1, <3>2
      <3> QED
        BY <3>2, <3>3 DEF t
    <2> QED
      BY <2>1
  <1>6. old.form = "expanded" /\ old.version = Promotes - 1
    BY DEF Expanded
  <1>7. Alias(Promotes - 1).form = "alias" /\ Alias(Promotes - 1).version = Promotes - 1
    BY DEF Alias
  <1> HIDE DEF old
  <1>8. FileOK(file)
    BY <1>4, <1>5, <1>6, <1>7, VersionAssumption DEF FileOK
  <1>9. Releases = {}
    BY <1>4, <1>5, <1>6, <1>7, VersionAssumption DEF Releases
  <1> QED
    BY <1>2, <1>3, <1>8, <1>9 DEF ReleaseInvariant

\* A step whose records are old, or the one the promoter may write.
LEMMA InvariantKept ==
  ASSUME ReleaseInvariant,
         ChainNext \/ (\E txs : Send(txs)) \/ UNCHANGED chainVars,
         RunOK(run'), FileOK(file'),
         \A m \in Records(file') : m \in Records(file) \/ Published(m.release.readback)
  PROVE  ReleaseInvariant'
  <1>1. ChainOK' /\ \A header : Published(header) => Published(header)'
    BY ChainSteps DEF ReleaseInvariant
  <1>2. (RunOK(run))'
    BY <1>1 DEF RunOK
  <1>3. (FileOK(file))'
    BY DEF FileOK
  <1>4. (\A release \in Releases : Published(release.readback))'
    <2> SUFFICES ASSUME NEW release \in Releases' PROVE Published(release.readback)'
      OBVIOUS
    <2>1. PICK m \in Records(file') : m.version = Promotes /\ release = m.release
      BY DEF Releases, Records
    <2>2. m \in Records(file) => release \in Releases
      BY <2>1 DEF Releases, Records
    <2> QED
      BY <1>1, <2>1, <2>2 DEF ReleaseInvariant
  <1> QED
    BY <1>1, <1>2, <1>3, <1>4 DEF ReleaseInvariant

\* Every step keeps it, and the records of the manifest file.
LEMMA InvariantSteps ==
  ASSUME ReleaseInvariant, [ReleaseNext]_vars
  PROVE  ReleaseInvariant' /\ RecordsKept(file, file')
  <1> USE DEF ReleaseInvariant
  <1>0. ASSUME UNCHANGED file, ChainNext \/ (\E txs : Send(txs)) \/ UNCHANGED chainVars, RunOK(run')
        PROVE  ReleaseInvariant' /\ RecordsKept(file, file')
    BY <1>0, InvariantKept, UntouchedKeeps
  <1>1. CASE ChainNext
    BY <1>0, <1>1 DEF ChainNext, workVars
  <1>2. CASE EditSources \/ Commit \/ Checkout \/ Build \/ RecordDeploy \/ RecordAnyCanary
    BY <1>0, <1>2 DEF EditSources, Commit, Checkout, Build, RecordDeploy, RecordAnyCanary, RecordCanary
  <1>3. CASE RetainRelease
    BY <1>3, RetainingKeeps, InvariantKept DEF RetainRelease
  <1>4. CASE BroadcastDeploy
    BY <1>0, <1>4 DEF BroadcastDeploy
  <1>5. CASE HandCanary
    BY <1>0, <1>5 DEF HandCanary, SendCanary
  <1>6. CASE ScriptedCanary
    BY <1>0, <1>6, IdleOK DEF ScriptedCanary, SendCanary
  <1>7. CASE Interrupt
    BY <1>0, <1>7, IdleOK DEF Interrupt
  <1>8. CASE PreflightNext
    <2>1. UNCHANGED file /\ UNCHANGED chainVars
      BY <1>8 DEF PreflightNext, StartPreflight, PreflightReceiptHead, PreflightStateHead, PreflightReceipts,
                  PreflightState, PreflightRecheck, PreflightEnds, OnlyRunChanges
    <2> QED
      BY <1>0, <1>8, <2>1, PreflightRuns
  <1>9. CASE PromotionNext /\ ~WriteManifest
    <2>1. UNCHANGED file /\ UNCHANGED chainVars
      BY <1>9 DEF PromotionNext, StartPromotion, PromotionReceiptHead, PromotionStateHead, PromotionFirstPass,
                  PromotionRuntimes, PromotionReceipts, PromotionState, PromotionRecheck, ConfirmFinality,
                  FinalityTimeout, OnlyRunChanges
    <2> QED
      BY <1>0, <1>9, <2>1, PromotionRuns
  <1>10. CASE WriteManifest
    <2>1. run.script = "promote" /\ run.stage = "write" /\ run' = Idle /\ UNCHANGED chainVars
      BY <1>10 DEF WriteManifest, In
    <2>2. CASE run.dry
      BY <1>0, <1>10, <2>1, <2>2, IdleOK DEF WriteManifest
    <2>3. CASE ~run.dry
      <3> DEFINE e == Expanded(Promotes, ReleaseRecord)
      <3>1. file' = ReplaceCurrentReleaseManifest(file, e)
        BY <1>10, <2>3 DEF WriteManifest
      <3>2. /\ FileOK(file') /\ RecordsKept(file, file')
            /\ Records(file') \subseteq Records(file) \cup {e}
        BY <3>1, ReplacingKeeps, VersionAssumption
      <3>3. e.release.readback = run.stateHead
        BY DEF Expanded, ReleaseRecord
      <3>4. Published(run.stateHead)
        BY <2>1, <2>3 DEF RunOK
      <3> HIDE DEF e
      <3> QED
        BY <2>1, <3>2, <3>3, <3>4, IdleOK, InvariantKept
    <2> QED
      BY <2>2, <2>3
  <1>11. CASE UNCHANGED vars
    BY <1>0, <1>11 DEF vars, workVars
  <1> QED
    BY <1>1, <1>2, <1>3, <1>4, <1>5, <1>6, <1>7, <1>8, <1>9, <1>10, <1>11 DEF ReleaseNext, WorkspaceNext, PromotionNext

(* The block whose state a published release names is final and canonical: no    *)
(* reorganisation, interruption, timeout or change of the workspace between the  *)
(* promoter's reads and its write lets it publish what the chain then drops.     *)
THEOREM PublishedStateFinal == ReleaseSpec => []PublishedStateIsFinal
  <1>1. ReleaseInvariant => PublishedStateIsFinal
    BY DEF ReleaseInvariant, Published, PublishedStateIsFinal, ChainOK
  <1> QED
    BY <1>1, InvariantStarts, InvariantSteps, PTL DEF ReleaseSpec

(* No step loses, changes or doubles a record of the manifest file, whatever     *)
(* version of it the promoter finds when it writes.                              *)
THEOREM ManifestRecordsStand == ReleaseSpec => RecordsStand
  <1>1. ReleaseInvariant /\ [ReleaseNext]_vars =>
          [LET records(f) == {r \in ToSet(f.retained) \cup {f.current} : r.form = "expanded"}
           IN head' = head =>
              /\ records(file) \subseteq records(file')
              /\ \A r, q \in records(file') : r.version = q.version => r = q
              /\ ToSet(file.registry) \subseteq ToSet(file'.registry)
              /\ {r.version : r \in ToSet(file'.retained)} = ToSet(file'.registry)]_vars
    BY InvariantSteps DEF RecordsKept, Records
  <1> QED
    BY <1>1, InvariantStarts, InvariantSteps, PTL DEF ReleaseSpec, RecordsStand

-----------------------------------------------------------------------------
(* What stands on the chain.  A transaction of the deployer is known by its    *)
(* nonce, a block by its hash; and below the finalized head neither changes.   *)

\* Two sequences in one.
LEMMA JoinIsSeq ==
  ASSUME NEW s, IsSeq(s), NEW t, IsSeq(t)
  PROVE  /\ IsSeq(s \o t) /\ Len(s \o t) = Len(s) + Len(t) /\ Len(s) \in Nat /\ Len(t) \in Nat
         /\ ToSet(s \o t) = ToSet(s) \cup ToSet(t)
         /\ \A i \in 1..Len(s) : (s \o t)[i] = s[i]
         /\ \A i \in 1..Len(t) : (s \o t)[Len(s) + i] = t[i]
  <1> DEFINE S == ToSet(s) \cup ToSet(t)
             u == s \o t
  <1>1. s \in Seq(S) /\ t \in Seq(S)
    BY SeqMonotonic DEF IsSeq
  <1>2. /\ Len(s) \in Nat /\ ToSet(s) = {s[i] : i \in 1..Len(s)}
        /\ Len(t) \in Nat /\ ToSet(t) = {t[i] : i \in 1..Len(t)}
    BY <1>1, SeqIsSeq
  <1> HIDE DEF S
  <1>3. /\ u \in Seq(S) /\ Len(u) = Len(s) + Len(t)
        /\ \A i \in 1..Len(s) + Len(t) : u[i] = IF i <= Len(s) THEN s[i] ELSE t[i - Len(s)]
    BY <1>1, ConcatProperties
  <1>4. IsSeq(u) /\ ToSet(u) = {u[i] : i \in 1..Len(u)}
    BY <1>3, SeqIsSeq
  <1> HIDE DEF u
  <1>5. \A i \in 1..Len(s) : u[i] = s[i]
    BY <1>2, <1>3
  <1>6. ASSUME NEW i \in 1..Len(t) PROVE u[Len(s) + i] = t[i]
    <2>1. Len(s) + i \in 1..Len(s) + Len(t) /\ ~(Len(s) + i <= Len(s)) /\ (Len(s) + i) - Len(s) = i
      BY <1>2
    <2> QED
      BY <1>3, <2>1
  <1>7. ToSet(u) \subseteq ToSet(s) \cup ToSet(t)
    <2> SUFFICES ASSUME NEW i \in 1..Len(u) PROVE u[i] \in ToSet(s) \cup ToSet(t)
      BY <1>4
    <2>1. CASE i <= Len(s)
      BY <1>2, <1>3, <2>1
    <2>2. CASE ~(i <= Len(s))
      <3>1. i - Len(s) \in 1..Len(t)
        BY <1>2, <1>3, <2>2
      <3> QED
        BY <1>2, <1>3, <2>2, <3>1
    <2> QED
      BY <2>1, <2>2
  <1>8. ASSUME NEW i \in 1..Len(s) PROVE s[i] \in ToSet(u)
    <2>1. i \in 1..Len(u) /\ u[i] = s[i]
      BY <1>2, <1>3, <1>5
    <2> QED
      BY <1>4, <2>1
  <1>9. ASSUME NEW i \in 1..Len(t) PROVE t[i] \in ToSet(u)
    <2>1. Len(s) + i \in 1..Len(u) /\ u[Len(s) + i] = t[i]
      BY <1>2, <1>3, <1>6
    <2> QED
      BY <1>4, <2>1
  <1>10. ToSet(s) \subseteq ToSet(u) /\ ToSet(t) \subseteq ToSet(u)
    BY <1>2, <1>8, <1>9
  <1>11. ToSet(u) = ToSet(s) \cup ToSet(t)
    BY <1>7, <1>10
  <1>12. Len(u) = Len(s) + Len(t)
    BY <1>3
  <1> QED
    BY <1>2, <1>4, <1>5, <1>6, <1>11, <1>12 DEF u

\* A function on the first numbers is a sequence.
LEMMA ListIsSeq ==
  ASSUME NEW n \in Nat, NEW f, f = [i \in 1..n |-> f[i]]
  PROVE  IsSeq(f) /\ Len(f) = n /\ DOMAIN f = 1..n /\ ToSet(f) = {f[i] : i \in 1..n}
  <1>1. f \in [1..n -> {f[i] : i \in 1..n}]
    OBVIOUS
  <1>2. f \in Seq({f[i] : i \in 1..n})
    BY <1>1, SeqDef
  <1>3. DOMAIN f = 1..n
    BY <1>1
  <1>4. Len(f) = n
    BY <1>2, <1>3, LenProperties
  <1> QED
    BY <1>2, <1>3, <1>4, SeqIsSeq

\* What the deployer has sent: nonces count, a hook goes through the deployer's factory, and
\* there is one deployment, which alone sets a hook.
SentOK ==
  /\ IsSeq(sent)
  /\ \A i \in 1..Len(sent) :
       /\ sent[i].nonce = i /\ sent[i].from = "deployer"
       /\ sent[i].call = "hook" => sent[i].to = Create2Deployer
       /\ sent[i].call = "setHook" => deployRun # NoRun
  /\ \A i, j \in 1..Len(sent) : sent[i].call = "setHook" /\ sent[j].call = "setHook" => i = j

\* What may be in a block: of the deployer's, what was sent; and nobody else sets a hook.
MaybeMined(tx, txs) == (tx.from = "deployer" => tx \in txs) /\ (tx.call = "setHook" => tx.from = "deployer")

\* Blocks hold what was sent, and their hashes tell height and fork.
BlocksOK ==
  /\ fork \in Nat
  /\ \A n \in 1..Len(chain) :
       /\ chain[n].hash[1] = n /\ chain[n].hash[2] \in 0..fork
       /\ \A tx \in ToSet(chain[n].txs) : MaybeMined(tx, ToSet(sent))

\* All that was sent is the deployer's.
LEMMA SentIsDeployers == ASSUME SentOK, NEW tx \in ToSet(sent) PROVE tx.from = "deployer"
  <1>1. ToSet(sent) = {sent[i] : i \in 1..Len(sent)}
    BY SeqIsSeq DEF SentOK, IsSeq
  <1> QED
    BY <1>1 DEF SentOK

\* Whatever is mined of the deployer's is one of the transactions it sent, found by its nonce.
LEMMA KnownByNonce ==
  ASSUME ChainOK, SentOK, BlocksOK, NEW n \in 1..Len(chain), NEW tx \in ToSet(chain[n].txs), tx.from = "deployer"
  PROVE  tx.nonce \in 1..Len(sent) /\ tx = sent[tx.nonce]
  <1>1. tx \in ToSet(sent)
    BY DEF BlocksOK, MaybeMined
  <1>2. ToSet(sent) = {sent[i] : i \in 1..Len(sent)}
    BY SeqIsSeq DEF SentOK, IsSeq
  <1> QED
    BY <1>1, <1>2 DEF SentOK

\* The blocks of the chain, as a set.
LEMMA MinedHere ==
  ASSUME ChainOK
  PROVE  Mined(chain) = {tx \in UNION {ToSet(chain[n].txs) : n \in 1..Len(chain)} : TRUE} /\ DOMAIN chain = 1..Len(chain)
  <1>1. DOMAIN chain = 1..Len(chain)
    BY LenProperties DEF ChainOK, IsSeq
  <1> QED
    BY <1>1 DEF Mined

\* The nonces on the chain can be counted.
LEMMA NoncesCount ==
  ASSUME ChainOK, SentOK, BlocksOK
  PROVE  Nonces(chain) \in Nat
  <1> DEFINE S == {tx \in Mined(chain) : tx.from = "deployer"}
             T == 1..Len(sent)
             f == [tx \in S |-> tx.nonce]
  <1>1. \A tx \in S : tx.nonce \in T /\ tx = sent[tx.nonce]
    BY MinedHere, KnownByNonce
  <1>2. f \in Injection(S, T)
    <2> HIDE DEF S, T
    <2>1. f \in [S -> T]
      BY <1>1
    <2>2. \A a, b \in S : f[a] = f[b] => a = b
      BY <1>1
    <2> QED
      BY <2>1, <2>2 DEF Injection, IsInjective
  <1>3. IsFiniteSet(T)
    BY SeqIsSeq, FS_Interval DEF SentOK, IsSeq
  <1> HIDE DEF S, T, f
  <1>4. IsFiniteSet(S)
    BY <1>2, <1>3, FS_Injection
  <1>5. Cardinality(S) \in Nat
    BY <1>4, FS_CardinalityType
  <1> QED
    BY <1>5 DEF Nonces, S

\* What is pending was sent.
LEMMA PendingWasSent ==
  ASSUME ChainOK, SentOK, BlocksOK, NEW next \in Prefixes(Pending)
  PROVE  IsSeq(next) /\ ToSet(next) \subseteq ToSet(sent)
  <1>1. PICK k \in Nat : k = Nonces(chain)
    BY NoncesCount
  <1>2. Len(sent) \in Nat /\ \A i \in 1..Len(sent) : sent[i] \in ToSet(sent)
    BY ElementOfSeq, LenProperties DEF SentOK, IsSeq
  <1>3. Pending \in Seq(ToSet(sent))
    <2>1. \A i \in k + 1..Len(sent) : sent[i] \in ToSet(sent)
      BY <1>2
    <2> QED
      BY <1>1, <1>2, <2>1, SubSeqProperties DEF Pending
  <1>4. PICK l \in 0..Len(Pending) : next = SubSeq(Pending, 1, l)
    BY DEF Prefixes
  <1>5. Len(Pending) \in Nat /\ \A i \in 1..l : Pending[i] \in ToSet(sent)
    BY <1>3, <1>4, ElementOfSeq, LenProperties
  <1>6. next \in Seq(ToSet(sent))
    BY <1>4, <1>5, SubSeqProperties
  <1> QED
    BY <1>6, SeqIsSeq, ElementOfSeq

\* Small sequences.
LEMMA TuplesAreSeqs ==
  /\ \A a : IsSeq(<<a>>) /\ Len(<<a>>) = 1 /\ ToSet(<<a>>) = {a}
  /\ \A a, b : IsSeq(<<a, b>>) /\ Len(<<a, b>>) = 2 /\ ToSet(<<a, b>>) = {a, b}
  /\ \A a, b, c : IsSeq(<<a, b, c>>) /\ Len(<<a, b, c>>) = 3 /\ ToSet(<<a, b, c>>) = {a, b, c}
  <1>1. ASSUME NEW a PROVE IsSeq(<<a>>) /\ Len(<<a>>) = 1 /\ ToSet(<<a>>) = {a}
    <2>1. PICK t : t = <<a>>
      OBVIOUS
    <2>2. t \in Seq({a}) /\ Len(t) = 1 /\ t[1] = a
      BY <2>1
    <2>3. IsSeq(t) /\ ToSet(t) = {t[i] : i \in 1..Len(t)}
      BY <2>2, SeqIsSeq
    <2>4. ToSet(t) = {a}
      BY <2>2, <2>3
    <2> QED
      BY <2>1, <2>2, <2>3, <2>4
  <1>2. ASSUME NEW a, NEW b PROVE IsSeq(<<a, b>>) /\ Len(<<a, b>>) = 2 /\ ToSet(<<a, b>>) = {a, b}
    <2>1. PICK t : t = <<a, b>>
      OBVIOUS
    <2>2. t \in Seq({a, b}) /\ Len(t) = 2 /\ t[1] = a /\ t[2] = b
      BY <2>1
    <2>3. IsSeq(t) /\ ToSet(t) = {t[i] : i \in 1..Len(t)}
      BY <2>2, SeqIsSeq
    <2>4. 1..Len(t) = {1, 2}
      BY <2>2
    <2>5. ToSet(t) = {a, b}
      BY <2>2, <2>3, <2>4
    <2> QED
      BY <2>1, <2>2, <2>3, <2>5
  <1>3. ASSUME NEW a, NEW b, NEW c
        PROVE  IsSeq(<<a, b, c>>) /\ Len(<<a, b, c>>) = 3 /\ ToSet(<<a, b, c>>) = {a, b, c}
    <2>1. PICK t : t = <<a, b, c>>
      OBVIOUS
    <2>2. t \in Seq({a, b, c}) /\ Len(t) = 3 /\ t[1] = a /\ t[2] = b /\ t[3] = c
      BY <2>1
    <2>3. IsSeq(t) /\ ToSet(t) = {t[i] : i \in 1..Len(t)}
      BY <2>2, SeqIsSeq
    <2>4. 1..Len(t) = {1, 2, 3}
      BY <2>2
    <2>5. ToSet(t) = {a, b, c}
      BY <2>2, <2>3, <2>4
    <2> QED
      BY <2>1, <2>2, <2>3, <2>5
  <1> QED
    BY <1>1, <1>2, <1>3

\* What strangers send is not the deployer's.
LEMMA StrangersAreOthers ==
  ASSUME NEW strangers \in Strangers
  PROVE  IsSeq(strangers) /\ \A tx \in ToSet(strangers) : tx.from = "stranger" /\ tx.call # "setHook"
  <1>1. strangers = <<>> \/ \E n, to : \E call \in {"saveBlueprint", "trade", "transfer"} :
                                      strangers = <<StrangerTransaction(n, call, to)>>
    BY DEF Strangers
  <1>2. CASE strangers = <<>>
    <2>1. strangers \in Seq({}) /\ Len(strangers) = 0
      BY <1>2
    <2>2. IsSeq(strangers) /\ ToSet(strangers) = {strangers[i] : i \in 1..0}
      BY <2>1, SeqIsSeq
    <2> QED
      BY <2>2
  <1>3. ASSUME NEW n, NEW to, NEW call \in {"saveBlueprint", "trade", "transfer"},
               strangers = <<StrangerTransaction(n, call, to)>>
        PROVE  IsSeq(strangers) /\ \A tx \in ToSet(strangers) : tx.from = "stranger" /\ tx.call # "setHook"
    <2> DEFINE e == StrangerTransaction(n, call, to)
    <2>1. e.from = "stranger" /\ e.call # "setHook"
      BY DEF StrangerTransaction, Transaction
    <2> HIDE DEF e
    <2>2. strangers \in Seq({e}) /\ Len(strangers) = 1 /\ strangers[1] = e
      BY <1>3 DEF e
    <2>3. IsSeq(strangers) /\ ToSet(strangers) = {strangers[i] : i \in 1..Len(strangers)}
      BY <2>2, SeqIsSeq
    <2> QED
      BY <2>1, <2>2, <2>3
  <1> QED
    BY <1>1, <1>2, <1>3

\* What another account adds to a block of the utilities: nothing, or one transaction that nobody sent before.
LEMMA OneStranger ==
  ASSUME NEW u, NEW strangers \in UtilityStrangers(u),
         NEW n, n = Cardinality({tx \in Mined(chain) : tx.from = "stranger"}) + 1
  PROVE  \/ strangers = <<>>
         \/ \E tx : strangers = <<tx>> /\ tx.from = "stranger" /\ tx.nonce = n /\ tx.call # "setHook"
  <1>1. CASE strangers # <<>>
    <2>1. PICK call, to, args :
            /\ strangers = <<Transaction("stranger", n, call, to, args, 0, FALSE)>>
            /\ call \in {"lock", "boost", "checkpoint", "transfer", "claim"}
      BY <1>1, Zenon DEF UtilityStrangers
    <2>2. PICK tx : tx = Transaction("stranger", n, call, to, args, 0, FALSE)
      OBVIOUS
    <2>3. tx.from = "stranger" /\ tx.nonce = n /\ tx.call # "setHook"
      BY <2>1, <2>2 DEF Transaction
    <2> QED
      BY <2>1, <2>2, <2>3
  <1> QED
    BY <1>1

\* They are none of the deployer's.
LEMMA UtilityStrangersAreOthers ==
  ASSUME NEW u, NEW strangers \in UtilityStrangers(u)
  PROVE  IsSeq(strangers) /\ \A tx \in ToSet(strangers) : tx.from = "stranger" /\ tx.call # "setHook"
  <1>1. CASE strangers = <<>>
    <2>1. strangers \in Seq({}) /\ Len(strangers) = 0
      BY <1>1
    <2>2. IsSeq(strangers) /\ ToSet(strangers) = {strangers[i] : i \in 1..0}
      BY <2>1, SeqIsSeq
    <2> QED
      BY <2>2
  <1>2. CASE strangers # <<>>
    <2>1. PICK tx : strangers = <<tx>> /\ tx.from = "stranger" /\ tx.call # "setHook"
      BY <1>2, OneStranger
    <2>2. IsSeq(strangers) /\ ToSet(strangers) = {tx}
      BY <2>1, TuplesAreSeqs
    <2> QED
      BY <2>1, <2>2
  <1> QED
    BY <1>1, <1>2

\* Among numbers up to n there is a first.
LEMMA FirstOf ==
  ASSUME NEW n \in Nat, NEW S \in SUBSET (1..n), S # {}
  PROVE  \E m \in S : \A k \in S : m <= k
  <1> DEFINE T == 1..n
             Bad == {1..m : m \in S}
  <1>1. IsFiniteSet(T)
    BY FS_Interval
  <1>2. FiniteSubsetsOf(T) = SUBSET T
    BY <1>1, FS_FiniteSubsetsOfFinite
  <1>3. IsWellFoundedOn(StrictSubsetOrdering(T), SUBSET T)
    BY <1>1, <1>2, FS_StrictSubsetOrderingWellFounded
  <1>4. Bad \subseteq SUBSET T /\ Bad # {}
    <2>1. \A m \in S : m \in 1..n /\ 1..m \subseteq 1..n
      OBVIOUS
    <2> QED
      BY <2>1
  <1>5. PICK s \in Bad : \A t \in Bad : ~ (<<t, s>> \in StrictSubsetOrdering(T))
    <2> HIDE DEF Bad, T
    <2> QED
      BY <1>3, <1>4, WFMin
  <1>6. PICK m \in S : s = 1..m
    OBVIOUS
  <1>7. ASSUME NEW k \in S, ~(m <= k) PROVE FALSE
    <2>1. k \in 1..n /\ m \in 1..n /\ k < m
      BY <1>7
    <2>2. 1..k \in Bad /\ 1..k \subseteq 1..m /\ m \in 1..m /\ m \notin 1..k
      BY <2>1
    <2>3. 1..k \in SUBSET T /\ s \in SUBSET T
      BY <1>4, <2>2
    <2> QED
      BY <1>5, <1>6, <2>2, <2>3 DEF StrictSubsetOrdering
  <1> QED
    BY <1>7

\* A transaction of the finalized part of the chain.
FinalAt(tx) == \E n \in 1..final : tx \in ToSet(chain[n].txs)

\* The height of a transaction is that of the first block that holds it.
LEMMA HeightIsFirst ==
  ASSUME NEW blocks, DOMAIN blocks = 1..Len(blocks), Len(blocks) \in Nat,
         NEW n \in 1..Len(blocks), NEW tx \in ToSet(blocks[n].txs)
  PROVE  LET h == HeightOf(blocks, tx)
         IN h \in 1..n /\ tx \in ToSet(blocks[h].txs) /\ \A m \in 1..h - 1 : tx \notin ToSet(blocks[m].txs)
  <1> DEFINE S == {m \in 1..n : tx \in ToSet(blocks[m].txs)}
             P(h) == tx \in ToSet(blocks[h].txs) /\ \A m \in 1..h - 1 : tx \notin ToSet(blocks[m].txs)
             h == HeightOf(blocks, tx)
  <1>1. PICK first \in S : \A k \in S : first <= k
    <2>1. S \in SUBSET (1..n) /\ n \in S /\ n \in Nat
      OBVIOUS
    <2> HIDE DEF S
    <2> QED
      BY <2>1, FirstOf
  <1>2. first \in 1..Len(blocks) /\ P(first)
    BY <1>1
  <1>3. h \in DOMAIN blocks /\ P(h)
    BY <1>2 DEF HeightOf
  <1>4. ~(n < h)
    BY <1>3
  <1> QED
    BY <1>3, <1>4

\* A block and all below it determine the height, whatever comes after.
LEMMA HeightFromBelow ==
  ASSUME NEW blocks, DOMAIN blocks = 1..Len(blocks), Len(blocks) \in Nat,
         NEW others, DOMAIN others = 1..Len(others), Len(others) \in Nat,
         NEW n \in Nat, n <= Len(blocks), n <= Len(others), \A m \in 1..n : others[m] = blocks[m],
         NEW tx, \E m \in 1..n : tx \in ToSet(blocks[m].txs)
  PROVE  HeightOf(others, tx) = HeightOf(blocks, tx) /\ HeightOf(blocks, tx) \in 1..n
  <1> DEFINE h == HeightOf(blocks, tx)
             g == HeightOf(others, tx)
  <1>0. PICK m \in 1..n : tx \in ToSet(blocks[m].txs)
    OBVIOUS
  <1>1. m \in 1..Len(blocks) /\ m \in 1..Len(others) /\ tx \in ToSet(blocks[m].txs) /\ tx \in ToSet(others[m].txs)
    BY <1>0
  <1>2. h \in 1..m /\ tx \in ToSet(blocks[h].txs) /\ \A k \in 1..h - 1 : tx \notin ToSet(blocks[k].txs)
    BY <1>1, HeightIsFirst
  <1>3. g \in 1..m /\ tx \in ToSet(others[g].txs) /\ \A k \in 1..g - 1 : tx \notin ToSet(others[k].txs)
    BY <1>1, HeightIsFirst
  <1> HIDE DEF h, g
  <1>4. h \in 1..n /\ g \in 1..n /\ others[h] = blocks[h] /\ others[g] = blocks[g]
    BY <1>0, <1>2, <1>3
  <1>5. ~(h < g) /\ ~(g < h)
    BY <1>2, <1>3, <1>4
  <1> QED
    BY <1>4, <1>5 DEF h, g

\* And so they do its receipt.
LEMMA ReceiptFromBelow ==
  ASSUME NEW blocks, DOMAIN blocks = 1..Len(blocks), Len(blocks) \in Nat,
         NEW others, DOMAIN others = 1..Len(others), Len(others) \in Nat,
         NEW n \in Nat, n <= Len(blocks), n <= Len(others), \A m \in 1..n : others[m] = blocks[m],
         NEW tx, \E m \in 1..n : tx \in ToSet(blocks[m].txs)
  PROVE  ReceiptIn(others, tx) = ReceiptIn(blocks, tx)
  <1>1. HeightOf(others, tx) = HeightOf(blocks, tx) /\ HeightOf(blocks, tx) \in 1..n
    BY HeightFromBelow
  <1>2. others[HeightOf(blocks, tx)] = blocks[HeightOf(blocks, tx)]
    BY <1>1
  <1> QED
    BY <1>1, <1>2 DEF ReceiptIn

\* What a step does to the finalized part: it only grows.
Extends == final <= final' /\ \A n \in 1..final : chain'[n] = chain[n]

\* A final transaction stays where it is, with its receipt.
LEMMA FinalStays ==
  ASSUME ChainOK, ChainOK', Extends, NEW tx, FinalAt(tx)
  PROVE  /\ FinalAt(tx)' /\ tx \in Mined(chain)
         /\ HeightOf(chain', tx) = HeightOf(chain, tx) /\ HeightOf(chain, tx) \in 1..final
         /\ ReceiptIn(chain', tx) = ReceiptIn(chain, tx)
  <1>1. /\ DOMAIN chain = 1..Len(chain) /\ Len(chain) \in Nat /\ final \in Nat /\ final <= Len(chain)
        /\ DOMAIN chain' = 1..Len(chain') /\ Len(chain') \in Nat /\ final' \in Nat /\ final' <= Len(chain')
    BY LenProperties DEF ChainOK, IsSeq
  <1>2. final <= Len(chain') /\ \A n \in 1..final : chain'[n] = chain[n]
    BY <1>1 DEF Extends
  <1>3. PICK n \in 1..final : tx \in ToSet(chain[n].txs)
    BY DEF FinalAt
  <1>4. n \in 1..final' /\ tx \in ToSet(chain'[n].txs)
    BY <1>1, <1>2, <1>3 DEF Extends
  <1>5. HeightOf(chain', tx) = HeightOf(chain, tx) /\ HeightOf(chain, tx) \in 1..final
    <2>1. \E m \in 1..final : tx \in ToSet(chain[m].txs)
      BY <1>3
    <2> QED
      BY <1>1, <1>2, <2>1, HeightFromBelow
  <1>6. ReceiptIn(chain', tx) = ReceiptIn(chain, tx)
    BY <1>1, <1>2, <1>3, ReceiptFromBelow
  <1>7. tx \in Mined(chain)
    BY <1>1, <1>3 DEF Mined
  <1> QED
    BY <1>4, <1>5, <1>6, <1>7 DEF FinalAt

\* A transaction mined no higher than the finalized head is final.
LEMMA FinalByHeight ==
  ASSUME ChainOK, NEW tx \in Mined(chain), HeightOf(chain, tx) <= final
  PROVE  FinalAt(tx) /\ HeightOf(chain, tx) \in 1..final
  <1>1. DOMAIN chain = 1..Len(chain) /\ Len(chain) \in Nat
    BY LenProperties DEF ChainOK, IsSeq
  <1>2. PICK n \in 1..Len(chain) : tx \in ToSet(chain[n].txs)
    BY <1>1 DEF Mined
  <1>3. HeightOf(chain, tx) \in 1..n /\ tx \in ToSet(chain[HeightOf(chain, tx)].txs)
    BY <1>1, <1>2, HeightIsFirst
  <1> QED
    BY <1>1, <1>3 DEF FinalAt, ChainOK

-----------------------------------------------------------------------------
(* What the steps do to the chain, to what was sent, and to what a hash pins.  *)

\* The state a pinned hash names: as long as the chain has that hash, it has all the blocks
\* below it, and a hash that is gone does not come back.
ViewOK(view, h) ==
  /\ IsSeq(view) /\ Len(view) = h.number /\ h.number \in Nat \ {0} /\ view[h.number].hash = h.hash
  /\ \A i \in 1..h.number :
       /\ view[i].hash[2] \in 0..fork
       /\ i > Len(chain) => view[i].hash[2] < fork
       /\ i <= Len(chain) /\ chain[i].hash = view[i].hash => \A j \in 1..i : chain[j] = view[j]

\* What is above the finalized head on the chain is pinned as it is.
LEMMA PinsView ==
  ASSUME ChainOK, BlocksOK, NEW n \in 1..Len(chain)
  PROVE  ViewOK(ChainThrough(n), Header(n))
  <1>1. Len(chain) \in Nat /\ n \in 0..Len(chain)
    BY LenProperties DEF ChainOK, IsSeq
  <1> DEFINE view == ChainThrough(n)
             h == Header(n)
  <1>2. IsSeq(view) /\ Len(view) = n /\ \A i \in 1..n : view[i] = chain[i]
    BY <1>1, PrefixIsSeq DEF ChainOK, ChainThrough
  <1>3. h.number = n /\ h.hash = chain[n].hash
    BY DEF Header
  <1> HIDE DEF view, h
  <1>4. \A i \in 1..n : chain[i].hash[2] \in 0..fork /\ ~(i > Len(chain)) /\ \A j \in 1..i : j \in 1..n
    BY <1>1 DEF BlocksOK
  <1>5. view[n] = chain[n] /\ n \in Nat \ {0}
    BY <1>1, <1>2
  <1>6. ViewOK(view, h)
    BY <1>2, <1>3, <1>4, <1>5 DEF ViewOK
  <1> QED
    BY <1>6 DEF view, h

\* Blocks a reader pinned and the chain has come to finalize are the chain's.
LEMMA ViewIsFinal ==
  ASSUME ChainOK, NEW view, NEW h, ViewOK(view, h), Published(h)
  PROVE  \A tx \in Mined(view) : FinalAt(tx)
  <1>1. h.number \in 1..final /\ chain[h.number].hash = h.hash
    BY DEF Published, Header
  <1>2. final <= Len(chain) /\ Len(chain) \in Nat /\ final \in Nat
    BY LenProperties DEF ChainOK, IsSeq
  <1>3. \A j \in 1..h.number : chain[j] = view[j]
    BY <1>1, <1>2 DEF ViewOK
  <1>4. DOMAIN view = 1..h.number
    BY LenProperties DEF ViewOK, IsSeq
  <1> QED
    BY <1>1, <1>2, <1>3, <1>4 DEF Mined, FinalAt

ChainStep ==
  ChainNext \/ UtilityMine \/ AdvanceSafe \/ AdvanceFinal \/ Reorganise \/ (\E txs : Send(txs)) \/ UNCHANGED chainVars

\* The three ways the blocks of the chain change.
LEMMA BlocksChange ==
  ASSUME ChainOK, SentOK, BlocksOK, ChainStep
  PROVE  \/ UNCHANGED <<chain, fork, final>>
         \/ /\ UNCHANGED <<fork, final>> /\ Len(chain') = Len(chain) + 1
            /\ \A n \in 1..Len(chain) : chain'[n] = chain[n]
            /\ LET b == chain'[Len(chain) + 1]
               IN /\ b.hash = <<Len(chain) + 1, fork>>
                  /\ \A tx \in ToSet(b.txs) : MaybeMined(tx, ToSet(sent))
         \/ /\ UNCHANGED chain /\ fork' = fork /\ final' > final
         \/ /\ fork' = fork + 1 /\ final' = final /\ Len(chain') \in final..Len(chain) - 1
            /\ \A n \in 1..Len(chain') : chain'[n] = chain[n]
  <1>0. Len(chain) \in Nat /\ final \in Nat
    BY LenProperties DEF ChainOK, IsSeq
  <1>1. CASE Mine \/ UtilityMine
    <2>0. PICK next, strangers :
            /\ next \in Prefixes(Pending) /\ \E clock : Grow(strangers, next, clock)
            /\ strangers \in Strangers \/ \E u : strangers \in UtilityStrangers(u)
      BY <1>1, Zenon DEF Mine, UtilityMine
    <2>1. PICK clock : Grow(strangers, next, clock)
      BY <2>0
    <2> DEFINE b == [hash |-> <<Len(chain) + 1, fork>>, txs |-> strangers \o next, clock |-> clock]
    <2>2. chain' = Append(chain, b) /\ UNCHANGED <<fork, final>>
      BY <2>1 DEF Grow, Latest
    <2>3. b.hash = <<Len(chain) + 1, fork>> /\ b.txs = strangers \o next
      OBVIOUS
    <2> HIDE DEF b
    <2>4. Len(chain') = Len(chain) + 1 /\ \A n \in 1..Len(chain) : chain'[n] = chain[n]
      BY <2>2, AppendIsSeq DEF ChainOK
    <2>5. chain'[Len(chain) + 1] = b
      BY <2>2, SeqMonotonic DEF ChainOK, IsSeq
    <2>6. IsSeq(next) /\ ToSet(next) \subseteq ToSet(sent) /\ \A tx \in ToSet(sent) : tx.from = "deployer"
      BY <2>0, PendingWasSent, SentIsDeployers
    <2>7. IsSeq(strangers) /\ \A tx \in ToSet(strangers) : tx.from = "stranger" /\ tx.call # "setHook"
      BY <2>0, StrangersAreOthers, UtilityStrangersAreOthers
    <2>8. ToSet(b.txs) = ToSet(strangers) \cup ToSet(next)
      BY <2>3, <2>6, <2>7, JoinIsSeq
    <2>9. \A tx \in ToSet(b.txs) : MaybeMined(tx, ToSet(sent))
      BY <2>6, <2>7, <2>8 DEF MaybeMined
    <2> QED
      BY <2>2, <2>3, <2>4, <2>5, <2>9
  <1>2. CASE AdvanceSafe
    BY <1>2 DEF AdvanceSafe
  <1>3. CASE AdvanceFinal
    <2>1. PICK n \in final + 1..safe : final' = n /\ UNCHANGED <<chain, fork>>
      BY <1>3 DEF AdvanceFinal
    <2> QED
      BY <1>0, <2>1 DEF ChainOK
  <1>4. CASE Reorganise
    <2>1. PICK n \in final..Len(chain) - 1 : chain' = SubSeq(chain, 1, n) /\ final' = final /\ fork' = fork + 1
      BY <1>4 DEF Reorganise, ChainThrough, Latest
    <2>2. n \in 0..Len(chain)
      BY <1>0, <2>1
    <2>3. Len(chain') = n /\ \A i \in 1..n : chain'[i] = chain[i]
      BY <2>1, <2>2, PrefixIsSeq DEF ChainOK
    <2> QED
      BY <2>1, <2>3
  <1>5. CASE (\E txs : Send(txs)) \/ UNCHANGED chainVars
    BY <1>5 DEF Send, chainVars
  <1> QED
    BY <1>1, <1>2, <1>3, <1>4, <1>5 DEF ChainStep, ChainNext

\* They only ever extend the finalized part, and keep the blocks and whatever is pinned.
LEMMA BlocksKept ==
  ASSUME ChainOK, SentOK, BlocksOK, ChainStep, ToSet(sent) \subseteq ToSet(sent')
  PROVE  ChainOK' /\ Extends /\ BlocksOK'
  <1>0. Len(chain) \in Nat /\ final \in Nat /\ fork \in Nat /\ final <= Len(chain)
    BY LenProperties DEF ChainOK, IsSeq, BlocksOK
  <1>mined. \A tx : MaybeMined(tx, ToSet(sent)) => MaybeMined(tx, ToSet(sent'))
    BY DEF MaybeMined
  <1>1. ChainOK'
    BY ChainSteps DEF ChainStep
  <1>2. CASE UNCHANGED <<chain, fork, final>>
    BY <1>0, <1>1, <1>2, <1>mined DEF Extends, BlocksOK
  <1>3. CASE /\ UNCHANGED <<fork, final>> /\ Len(chain') = Len(chain) + 1
             /\ \A n \in 1..Len(chain) : chain'[n] = chain[n]
             /\ LET b == chain'[Len(chain) + 1]
                IN /\ b.hash = <<Len(chain) + 1, fork>>
                   /\ \A tx \in ToSet(b.txs) : MaybeMined(tx, ToSet(sent))
    <2>0. final' = final /\ \A n \in 1..Len(chain) : chain'[n] = chain[n]
      BY <1>3
    <2>1. Extends
      BY <1>0, <2>0 DEF Extends
    <2>2. BlocksOK'
      <3> SUFFICES ASSUME NEW n \in 1..Len(chain')
                   PROVE  /\ chain'[n].hash[1] = n /\ chain'[n].hash[2] \in 0..fork
                          /\ \A tx \in ToSet(chain'[n].txs) : MaybeMined(tx, ToSet(sent'))
        BY <1>0, <1>3 DEF BlocksOK
      <3>1. CASE n \in 1..Len(chain)
        BY <1>3, <1>mined, <3>1 DEF BlocksOK
      <3>2. CASE n = Len(chain) + 1
        BY <1>0, <1>3, <1>mined, <3>2
      <3> QED
        BY <1>0, <1>3, <3>1, <3>2
    <2> QED
      BY <1>1, <2>1, <2>2
  <1>4. CASE UNCHANGED chain /\ fork' = fork /\ final' > final
    <2>1. Extends
      BY <1>0, <1>1, <1>4 DEF Extends, ChainOK
    <2>2. BlocksOK'
      BY <1>4, <1>mined DEF BlocksOK
    <2> QED
      BY <1>1, <2>1, <2>2
  <1>5. CASE /\ fork' = fork + 1 /\ final' = final /\ Len(chain') \in final..Len(chain) - 1
             /\ \A n \in 1..Len(chain') : chain'[n] = chain[n]
    <2>1. Extends
      BY <1>0, <1>5 DEF Extends
    <2>2. BlocksOK'
      <3> SUFFICES ASSUME NEW n \in 1..Len(chain')
                   PROVE  /\ chain'[n].hash[1] = n /\ chain'[n].hash[2] \in 0..fork + 1
                          /\ \A tx \in ToSet(chain'[n].txs) : MaybeMined(tx, ToSet(sent'))
        BY <1>0, <1>5 DEF BlocksOK
      <3>1. n \in 1..Len(chain) /\ chain'[n] = chain[n]
        BY <1>0, <1>5
      <3>2. /\ chain[n].hash[1] = n /\ chain[n].hash[2] \in 0..fork
            /\ \A tx \in ToSet(chain[n].txs) : MaybeMined(tx, ToSet(sent))
        BY <3>1 DEF BlocksOK
      <3>3. chain'[n].hash[2] \in 0..fork + 1
        BY <1>0, <3>1, <3>2
      <3> QED
        BY <1>mined, <3>1, <3>2, <3>3
    <2> QED
      BY <1>1, <2>1, <2>2
  <1> QED
    BY <1>2, <1>3, <1>4, <1>5, BlocksChange

\* What a hash pins, it pins after any step.
LEMMA ViewKept ==
  ASSUME ChainOK, SentOK, BlocksOK, ChainStep, NEW view, NEW h, ViewOK(view, h)
  PROVE  ViewOK(view, h)'
  <1>0. Len(chain) \in Nat /\ final \in Nat /\ fork \in Nat /\ final <= Len(chain) /\ h.number \in Nat
    BY LenProperties DEF ChainOK, IsSeq, BlocksOK, ViewOK
  <1>1. /\ IsSeq(view) /\ Len(view) = h.number /\ h.number \in Nat \ {0} /\ view[h.number].hash = h.hash
    BY DEF ViewOK
  <1>2. SUFFICES ASSUME NEW i \in 1..h.number
                 PROVE  /\ view[i].hash[2] \in 0..fork'
                        /\ i > Len(chain') => view[i].hash[2] < fork'
                        /\ i <= Len(chain') /\ chain'[i].hash = view[i].hash => \A j \in 1..i : chain'[j] = view[j]
    BY <1>1 DEF ViewOK
  <1>3. /\ view[i].hash[2] \in 0..fork
        /\ i > Len(chain) => view[i].hash[2] < fork
        /\ i <= Len(chain) /\ chain[i].hash = view[i].hash => \A j \in 1..i : chain[j] = view[j]
    BY DEF ViewOK
  <1>4. CASE UNCHANGED <<chain, fork, final>> \/ (UNCHANGED chain /\ fork' = fork /\ final' > final)
    BY <1>3, <1>4
  <1>5. CASE /\ UNCHANGED <<fork, final>> /\ Len(chain') = Len(chain) + 1
             /\ \A n \in 1..Len(chain) : chain'[n] = chain[n]
             /\ LET b == chain'[Len(chain) + 1]
                IN /\ b.hash = <<Len(chain) + 1, fork>>
                   /\ \A tx \in ToSet(b.txs) : MaybeMined(tx, ToSet(sent))
    <2>1. CASE i <= Len(chain)
      BY <1>0, <1>3, <1>5, <2>1
    <2>2. CASE i = Len(chain) + 1
      <3>1. view[i].hash[2] < fork /\ chain'[i].hash[2] = fork
        BY <1>0, <1>3, <1>5, <2>2
      <3>2. chain'[i].hash # view[i].hash
        BY <1>0, <3>1
      <3> QED
        BY <1>0, <1>3, <1>5, <2>2, <3>2
    <2>3. CASE i > Len(chain) + 1
      <3>1. i > Len(chain) /\ ~(i <= Len(chain')) /\ fork' = fork
        BY <1>0, <1>5, <2>3
      <3> QED
        BY <1>3, <3>1
    <2> QED
      BY <1>0, <2>1, <2>2, <2>3
  <1>6. CASE /\ fork' = fork + 1 /\ final' = final /\ Len(chain') \in final..Len(chain) - 1
             /\ \A n \in 1..Len(chain') : chain'[n] = chain[n]
    <2>0. fork' = fork + 1
      BY <1>6
    <2>1. view[i].hash[2] \in 0..fork' /\ view[i].hash[2] < fork'
      BY <1>0, <1>3, <2>0
    <2>2. ASSUME i <= Len(chain'), chain'[i].hash = view[i].hash, NEW j \in 1..i PROVE chain'[j] = view[j]
      <3>1. i <= Len(chain) /\ chain'[i] = chain[i] /\ chain'[j] = chain[j]
        BY <1>0, <1>6, <2>2
      <3> QED
        BY <1>3, <2>2, <3>1
    <2> QED
      BY <2>1, <2>2
  <1> QED
    BY <1>4, <1>5, <1>6, BlocksChange

-----------------------------------------------------------------------------
(* What the deployer sends.                                                   *)

\* The artifact of the deployment, once there is one, is of as many transactions as there are labels.
DeployOK ==
  deployRun # NoRun =>
    /\ deployRun = [commit |-> deployRun.commit, txs |-> deployRun.txs, blocks |-> deployRun.blocks]
    /\ IsSeq(deployRun.txs) /\ Len(deployRun.txs) = Len(DeploySteps)

\* The labels of a release.
LEMMA LabelsAre ==
  /\ IsSeq(DeploySteps) /\ Len(DeploySteps) = 5 + HouseBlueprints
  /\ DeploySteps[1] = "launchpadLib" /\ DeploySteps[2] = "launchpad" /\ DeploySteps[3] = "hook"
  /\ DeploySteps[4] = "router" /\ DeploySteps[5] = "setHook"
  /\ \A i \in 6..Len(DeploySteps) : DeploySteps[i] = "saveBlueprint"
  <1> DEFINE first == <<"launchpadLib", "launchpad", "hook", "router", "setHook">>
             saves == [i \in 1..HouseBlueprints |-> "saveBlueprint"]
  <1>1. IsSeq(first) /\ Len(first) = 5
    <2>1. first \in Seq({"launchpadLib", "launchpad", "hook", "router", "setHook"}) /\ Len(first) = 5
      OBVIOUS
    <2> HIDE DEF first
    <2> QED
      BY <2>1, SeqIsSeq
  <1>2. first[1] = "launchpadLib" /\ first[2] = "launchpad" /\ first[3] = "hook" /\ first[4] = "router" /\ first[5] = "setHook"
    OBVIOUS
  <1>3. IsSeq(saves) /\ Len(saves) = HouseBlueprints
    BY BlueprintAssumption, ListIsSeq
  <1>4. \A i \in 1..HouseBlueprints : saves[i] = "saveBlueprint"
    OBVIOUS
  <1>5. DeploySteps = first \o saves
    BY DEF DeploySteps
  <1> HIDE DEF first, saves
  <1>6. /\ IsSeq(DeploySteps) /\ Len(DeploySteps) = 5 + HouseBlueprints
        /\ \A i \in 1..5 : DeploySteps[i] = first[i]
        /\ \A i \in 1..HouseBlueprints : DeploySteps[5 + i] = saves[i]
    <2> DEFINE all == first \o saves
    <2>1. /\ IsSeq(all) /\ Len(all) = Len(first) + Len(saves) /\ Len(first) \in Nat /\ Len(saves) \in Nat
          /\ ToSet(all) = ToSet(first) \cup ToSet(saves)
          /\ \A i \in 1..Len(first) : all[i] = first[i]
          /\ \A i \in 1..Len(saves) : all[Len(first) + i] = saves[i]
      <3>1. IsSeq(first) /\ IsSeq(saves)
        BY <1>1, <1>3
      <3> QED
        BY <3>1, JoinIsSeq
    <2>2. DeploySteps = all
      BY <1>5
    <2> HIDE DEF all
    <2> QED
      BY <1>1, <1>3, <2>1, <2>2
  <1>7. ASSUME NEW i \in 6..Len(DeploySteps) PROVE DeploySteps[i] = "saveBlueprint"
    <2>1. i - 5 \in 1..HouseBlueprints /\ 5 + (i - 5) = i
      BY <1>6, BlueprintAssumption
    <2> QED
      BY <1>4, <1>6, <2>1
  <1> QED
    BY <1>2, <1>6, <1>7

\* What a deployment sends.
LEMMA DeploymentIs ==
  ASSUME NEW first \in Nat, NEW source
  PROVE  LET txs == DeployTransactions(first, source)
         IN /\ IsSeq(txs) /\ Len(txs) = Len(DeploySteps)
            /\ \A k \in 1..Len(txs) :
                 /\ txs[k].nonce = first + k - 1 /\ txs[k].from = "deployer"
                 /\ txs[k].call = "hook" => txs[k].to = Create2Deployer
                 /\ txs[k].call = "setHook" => k = 5
  <1> DEFINE txs == DeployTransactions(first, source)
  <1>1. DOMAIN DeploySteps = 1..Len(DeploySteps) /\ Len(DeploySteps) \in Nat /\ Len(DeploySteps) >= 5
    BY LabelsAre, LenProperties, BlueprintAssumption DEF IsSeq
  <1>2. \A k \in 1..Len(DeploySteps) :
          /\ txs[k].nonce = first + k - 1 /\ txs[k].from = "deployer" /\ txs[k].call = DeploySteps[k]
          /\ k = 3 => txs[k].to = Create2Deployer
    BY <1>1 DEF DeployTransactions, Transaction
  <1>3. txs = [k \in 1..Len(DeploySteps) |-> txs[k]]
    BY <1>1 DEF DeployTransactions
  <1> HIDE DEF txs
  <1>4. IsSeq(txs) /\ Len(txs) = Len(DeploySteps)
    BY <1>1, <1>3, ListIsSeq
  <1>5. ASSUME NEW k \in 1..Len(DeploySteps), k # 3 PROVE DeploySteps[k] # "hook"
    <2>1. k \in 6..Len(DeploySteps) \/ k \in {1, 2, 4, 5}
      BY <1>1, <1>5
    <2> QED
      BY <2>1, LabelsAre
  <1>6. ASSUME NEW k \in 1..Len(DeploySteps), k # 5 PROVE DeploySteps[k] # "setHook"
    <2>1. k \in 6..Len(DeploySteps) \/ k \in {1, 2, 3, 4}
      BY <1>1, <1>6
    <2> QED
      BY <2>1, LabelsAre
  <1> QED
    BY <1>2, <1>4, <1>5, <1>6 DEF txs

\* The labels of a canary.
LEMMA CanaryLabels ==
  /\ DOMAIN CanarySteps = 1..4 /\ Len(CanarySteps) = 4 /\ IsSeq(CanarySteps)
  /\ CanarySteps[1] = "launchInstantWithIntent" /\ CanarySteps[2] = "buy"
  /\ CanarySteps[3] = "approve" /\ CanarySteps[4] = "sell"
  <1> DEFINE S == {"launchInstantWithIntent", "buy", "approve", "sell"}
  <1>1. CanarySteps \in Seq(S) /\ Len(CanarySteps) = 4
    BY DEF CanarySteps
  <1> HIDE DEF S
  <1>2. IsSeq(CanarySteps) /\ DOMAIN CanarySteps = 1..4
    BY <1>1, SeqIsSeq, LenProperties
  <1>3. /\ CanarySteps[1] = "launchInstantWithIntent" /\ CanarySteps[2] = "buy"
        /\ CanarySteps[3] = "approve" /\ CanarySteps[4] = "sell"
    BY DEF CanarySteps
  <1> QED
    BY <1>1, <1>2, <1>3

\* What is sent next keeps the order of nonces.
LEMMA SendKeeps ==
  ASSUME SentOK, NEW txs, Send(txs), IsSeq(txs),
         \A k \in 1..Len(txs) :
           /\ txs[k].nonce = Len(sent) + k /\ txs[k].from = "deployer"
           /\ txs[k].call = "hook" => txs[k].to = Create2Deployer
           /\ txs[k].call = "setHook" => k = 5 /\ deployRun = NoRun,
         deployRun' # NoRun
  PROVE  SentOK' /\ ToSet(sent) \subseteq ToSet(sent')
  <1>1. sent' = sent \o txs
    BY DEF Send
  <1>2. /\ IsSeq(sent') /\ Len(sent') = Len(sent) + Len(txs) /\ Len(sent) \in Nat /\ Len(txs) \in Nat
        /\ ToSet(sent') = ToSet(sent) \cup ToSet(txs)
        /\ \A i \in 1..Len(sent) : sent'[i] = sent[i]
        /\ \A i \in 1..Len(txs) : sent'[Len(sent) + i] = txs[i]
    <2> DEFINE all == sent \o txs
    <2>1. /\ IsSeq(all) /\ Len(all) = Len(sent) + Len(txs) /\ Len(sent) \in Nat /\ Len(txs) \in Nat
          /\ ToSet(all) = ToSet(sent) \cup ToSet(txs)
          /\ \A i \in 1..Len(sent) : all[i] = sent[i]
          /\ \A i \in 1..Len(txs) : all[Len(sent) + i] = txs[i]
      BY JoinIsSeq DEF SentOK
    <2>2. sent' = all
      BY <1>1
    <2> HIDE DEF all
    <2> QED
      BY <2>1, <2>2
  <1>3. ASSUME NEW i \in 1..Len(sent')
        PROVE  \/ i \in 1..Len(sent) /\ sent'[i] = sent[i]
               \/ i - Len(sent) \in 1..Len(txs) /\ sent'[i] = txs[i - Len(sent)] /\ Len(sent) + (i - Len(sent)) = i
    <2>1. CASE i <= Len(sent)
      BY <1>2, <2>1
    <2>2. CASE ~(i <= Len(sent))
      <3>1. i - Len(sent) \in 1..Len(txs) /\ Len(sent) + (i - Len(sent)) = i
        BY <1>2, <2>2
      <3> QED
        BY <1>2, <3>1
    <2> QED
      BY <2>1, <2>2
  <1>4. ASSUME NEW i \in 1..Len(sent')
        PROVE  /\ sent'[i].nonce = i /\ sent'[i].from = "deployer"
               /\ sent'[i].call = "hook" => sent'[i].to = Create2Deployer
    <2>1. CASE i \in 1..Len(sent) /\ sent'[i] = sent[i]
      BY <2>1 DEF SentOK
    <2>2. CASE i - Len(sent) \in 1..Len(txs) /\ sent'[i] = txs[i - Len(sent)] /\ Len(sent) + (i - Len(sent)) = i
      BY <2>2
    <2> QED
      BY <1>3, <2>1, <2>2
  <1>5. ASSUME NEW i \in 1..Len(sent'), NEW j \in 1..Len(sent'), sent'[i].call = "setHook", sent'[j].call = "setHook"
        PROVE  i = j
    <2>1. CASE deployRun = NoRun
      <3>1. \A k \in 1..Len(sent) : sent[k].call # "setHook"
        BY <2>1 DEF SentOK
      <3>2. i - Len(sent) = 5 /\ j - Len(sent) = 5
        BY <1>3, <1>5, <3>1
      <3> QED
        BY <1>2, <3>2
    <2>2. CASE deployRun # NoRun
      <3>1. \A k \in 1..Len(txs) : txs[k].call # "setHook"
        BY <2>2
      <3>2. i \in 1..Len(sent) /\ sent'[i] = sent[i] /\ j \in 1..Len(sent) /\ sent'[j] = sent[j]
        BY <1>3, <1>5, <3>1
      <3> QED
        BY <1>5, <3>2 DEF SentOK
    <2> QED
      BY <2>1, <2>2
  <1>6. \A i, j \in 1..Len(sent') : sent'[i].call = "setHook" /\ sent'[j].call = "setHook" => i = j
    BY <1>5
  <1> QED
    BY <1>2, <1>4, <1>6 DEF SentOK

\* The steps of a canary are sent after a deployment.
LEMMA CanarySends ==
  ASSUME SentOK, DeployOK, NEW first \in 1..4, NEW last \in first..4, NEW bound, NEW fails,
         SendCanary(first, last, bound, fails), deployRun # NoRun, deployRun' = deployRun
  PROVE  SentOK' /\ ToSet(sent) \subseteq ToSet(sent') /\ ChainStep
  <1> DEFINE n == last - first + 1
             step(k) == LET i == first + k - 1
                        IN CanaryTransaction(i, Len(sent) + k, NonceOf(Launchpad), NonceOf(4), CanaryToken,
                                             IF i = last THEN bound ELSE "spec", i = last /\ fails)
             txs == [k \in 1..n |-> step(k)]
  <1>1. Send(txs)
    BY DEF SendCanary
  <1>2. n \in Nat
    OBVIOUS
  <1>3. \A k \in 1..n : first + k - 1 \in 1..4
    OBVIOUS
  <1>4. ASSUME NEW k \in 1..n
        PROVE  txs[k].nonce = Len(sent) + k /\ txs[k].from = "deployer" /\ txs[k].call \notin {"hook", "setHook"}
    <2>1. PICK i \in 1..4 : i = first + k - 1
      BY <1>3
    <2>2. CanarySteps[i] \notin {"hook", "setHook"}
      <3>1. i = 1 \/ i = 2 \/ i = 3 \/ i = 4
        OBVIOUS
      <3> QED
        BY <3>1, CanaryLabels
    <2>3. step(k).nonce = Len(sent) + k /\ step(k).from = "deployer" /\ step(k).call = CanarySteps[i]
      BY <2>1 DEF CanaryTransaction, Transaction
    <2> QED
      BY <2>2, <2>3
  <1>5. txs = [k \in 1..n |-> txs[k]]
    OBVIOUS
  <1> HIDE DEF txs, n, step
  <1>6. IsSeq(txs) /\ Len(txs) = n
    BY <1>2, <1>5, ListIsSeq
  <1>7. SentOK' /\ ToSet(sent) \subseteq ToSet(sent')
    BY <1>1, <1>4, <1>6, SendKeeps
  <1> QED
    BY <1>1, <1>7 DEF ChainStep

-----------------------------------------------------------------------------
(* What a reviewed runtime tells of the transaction that created it.          *)

\* A compiler's artifact opens with the cell that tells versions of the sources apart, and no
\* slot covers it.
LEMMA ArtifactOpens ==
  ASSUME NEW c \in CreatedContracts, NEW s
  PROVE  LET a == ArtifactOf(c, s)
         IN /\ 1 \in DOMAIN a.object /\ a.object[1] = s
            /\ Len(a.object) = IF c = "launchpadLib" THEN 3 ELSE IF c = "launchpad" THEN 4 ELSE 5
            /\ \A r \in References(Groups(a)) : 1 \notin Cells(r)
  <1> DEFINE a == ArtifactOf(c, s)
  <1>1. 1 \in DOMAIN a.object /\ a.object[1] = s
    BY DEF ArtifactOf, CreatedContracts
  <1>2. Len(a.object) = IF c = "launchpadLib" THEN 3 ELSE IF c = "launchpad" THEN 4 ELSE 5
    BY DEF ArtifactOf, CreatedContracts
  <1>3. \A g \in a.immutables : \A r \in g : r.start \in {2, 4} /\ r.length = 2
    BY DEF ArtifactOf
  <1>4. \A l \in DOMAIN a.links : \A r \in a.links[l] : r.start = 4 /\ r.length = 1
    BY DEF ArtifactOf
  <1> HIDE DEF a
  <1>5. \A g \in Groups(a) : \A r \in g.references : r.start \in {2, 4} /\ r.length \in {1, 2}
    <2>1. ASSUME NEW g \in ImmutableGroups(a), NEW r \in g.references PROVE r.start \in {2, 4} /\ r.length \in {1, 2}
      <3>1. PICK slots \in a.immutables : g = [kind |-> "immutable", id |-> "", references |-> slots]
        BY <2>1 DEF ImmutableGroups
      <3> QED
        BY <1>3, <2>1, <3>1
    <2>2. \A g \in LinkGroups(a) : \A r \in g.references : r.start \in {2, 4} /\ r.length \in {1, 2}
      BY <1>4 DEF LinkGroups
    <2> QED
      BY <2>1, <2>2 DEF Groups
  <1>6. \A r \in References(Groups(a)) : 1 \notin Cells(r)
    <2>1. \A r \in References(Groups(a)) : r.start \in {2, 4} /\ r.length \in {1, 2}
      BY <1>5 DEF References
    <2> QED
      BY <2>1 DEF Cells
  <1> QED
    BY <1>1, <1>2, <1>6 DEF a

\* A cell no slot covers is read as it is.
LEMMA UncoveredCell ==
  ASSUME NEW groups, NEW code, NEW i \in DOMAIN code, \A r \in References(groups) : i \notin Cells(r)
  PROVE  i \in DOMAIN Masked(groups, code) /\ Masked(groups, code)[i] = code[i]
  BY DEF Masked

\* A runtime is as long as its contract's, and opens with its source.
LEMMA RuntimeOpens ==
  ASSUME NEW tx, tx.call \in CreatedContracts
  PROVE  LET code == RuntimeOf(tx)
         IN /\ 1 \in DOMAIN code /\ code[1] = tx.source
            /\ Len(code) = IF tx.call = "launchpadLib" THEN 3 ELSE IF tx.call = "launchpad" THEN 4 ELSE 5
  BY DEF RuntimeOf, CreatedContracts

\* A runtime that passes the review was built, and the artifact it is compared with too, from the
\* reviewed sources; and its length tells which kind of contract it is.
LEMMA RuntimeReviewed ==
  ASSUME NEW view, NEW built, NEW c \in CreatedContracts, NEW address, NEW links, NEW immutables,
         HasCode(view, address),
         ValidateReviewedRuntime(ArtifactOf(c, built), CodeAt(view, address), WantOf(c, links, immutables))
  PROVE  /\ built = Reviewed
         /\ \E tx \in Creation(view, address) :
              /\ CodeAt(view, address) = RuntimeOf(tx) /\ tx.source = Reviewed
              /\ c = "launchpadLib" <=> tx.call = "launchpadLib"
              /\ c = "launchpad" <=> tx.call = "launchpad"
  <1> DEFINE a == ArtifactOf(c, built)
             b == ArtifactOf(c, Reviewed)
             code == CodeAt(view, address)
             tx == CHOOSE t \in Creation(view, address) : TRUE
  <1>1. /\ 1 \in DOMAIN a.object /\ a.object[1] = built
        /\ Len(a.object) = IF c = "launchpadLib" THEN 3 ELSE IF c = "launchpad" THEN 4 ELSE 5
        /\ \A r \in References(Groups(a)) : 1 \notin Cells(r)
    BY ArtifactOpens
  <1>2. 1 \in DOMAIN b.object /\ b.object[1] = Reviewed /\ \A r \in References(Groups(b)) : 1 \notin Cells(r)
    BY ArtifactOpens
  <1>3. WantOf(c, links, immutables).template = Masked(Groups(b), b.object)
    BY DEF WantOf
  <1>4. tx \in Creation(view, address) /\ code = RuntimeOf(tx)
    BY DEF HasCode, CodeAt
  <1>5. tx.call \in CreatedContracts
    BY <1>4 DEF Creation
  <1>6. /\ 1 \in DOMAIN code /\ code[1] = tx.source
        /\ Len(code) = IF tx.call = "launchpadLib" THEN 3 ELSE IF tx.call = "launchpad" THEN 4 ELSE 5
    BY <1>4, <1>5, RuntimeOpens
  <1>7. /\ Len(code) = Len(a.object)
        /\ Masked(Groups(a), a.object) = Masked(Groups(b), b.object)
        /\ Masked(Groups(a), a.object) = Masked(Groups(a), code)
    BY <1>3 DEF ValidateReviewedRuntime
  <1> HIDE DEF a, b, code, tx
  <1>8. Masked(Groups(a), a.object)[1] = built
    BY <1>1, UncoveredCell
  <1>9. Masked(Groups(b), b.object)[1] = Reviewed
    BY <1>2, UncoveredCell
  <1>10. Masked(Groups(a), code)[1] = tx.source
    BY <1>1, <1>6, UncoveredCell
  <1>11. built = Reviewed /\ tx.source = Reviewed
    BY <1>7, <1>8, <1>9, <1>10
  <1>12. (c = "launchpadLib" <=> tx.call = "launchpadLib") /\ (c = "launchpad" <=> tx.call = "launchpad")
    <2>1. (IF c = "launchpadLib" THEN 3 ELSE IF c = "launchpad" THEN 4 ELSE 5)
            = IF tx.call = "launchpadLib" THEN 3 ELSE IF tx.call = "launchpad" THEN 4 ELSE 5
      BY <1>1, <1>6, <1>7
    <2> QED
      BY <2>1
  <1> QED
    BY <1>4, <1>11, <1>12 DEF code

\* The transaction of this nonce is final and created the reviewed contract of this kind.
CreatedFinal(c, address) ==
  \E tx : /\ FinalAt(tx) /\ tx.from = "deployer" /\ ~tx.fails /\ tx.nonce = address
          /\ tx.call \in CreatedContracts /\ tx.source = Reviewed
          /\ c = "launchpadLib" <=> tx.call = "launchpadLib"
          /\ c = "launchpad" <=> tx.call = "launchpad"

\* And so the state names it, of whatever chain the pinned block is on.
CreatedIn(view, c, address) ==
  \E tx \in Creation(view, address) :
     /\ tx.source = Reviewed
     /\ c = "launchpadLib" <=> tx.call = "launchpadLib"
     /\ c = "launchpad" <=> tx.call = "launchpad"

\* The review of the four runtimes.
LEMMA RuntimesReviewed ==
  ASSUME NEW view, NEW built, NEW lib, NEW launchpad, NEW hook, NEW router,
         ReviewedRuntimes(view, built, lib, launchpad, hook, router)
  PROVE  /\ built = Reviewed
         /\ CreatedIn(view, "launchpadLib", lib) /\ CreatedIn(view, "launchpad", launchpad)
         /\ CreatedIn(view, "hook", hook) /\ CreatedIn(view, "router", router)
  <1>1. ASSUME NEW c \in CreatedContracts, NEW address, NEW links, NEW immutables,
               HasCode(view, address),
               ValidateReviewedRuntime(ArtifactOf(c, built), CodeAt(view, address), WantOf(c, links, immutables))
        PROVE  built = Reviewed /\ CreatedIn(view, c, address)
    BY <1>1, RuntimeReviewed DEF CreatedIn
  <1>2. /\ HasCode(view, launchpad)
        /\ ValidateReviewedRuntime(ArtifactOf("launchpad", built), CodeAt(view, launchpad),
             WantOf("launchpad", [l \in {"launchpadLib"} |-> lib], <<PoolManager>>))
    BY DEF ReviewedRuntimes
  <1>3. /\ HasCode(view, hook)
        /\ ValidateReviewedRuntime(ArtifactOf("hook", built), CodeAt(view, hook), WantOf("hook", << >>, <<PoolManager, launchpad>>))
    BY DEF ReviewedRuntimes
  <1>4. /\ HasCode(view, router)
        /\ ValidateReviewedRuntime(ArtifactOf("router", built), CodeAt(view, router), WantOf("router", << >>, <<PoolManager, hook>>))
    BY DEF ReviewedRuntimes
  <1>5. /\ HasCode(view, lib)
        /\ ValidateReviewedRuntime(ArtifactOf("launchpadLib", built), CodeAt(view, lib), WantOf("launchpadLib", << >>, <<lib>>))
    BY DEF ReviewedRuntimes
  <1>6. "launchpad" \in CreatedContracts /\ "hook" \in CreatedContracts /\ "router" \in CreatedContracts
        /\ "launchpadLib" \in CreatedContracts
    BY DEF CreatedContracts
  <1>7. built = Reviewed /\ CreatedIn(view, "launchpad", launchpad)
    BY <1>1, <1>2, <1>6
  <1>8. CreatedIn(view, "hook", hook)
    BY <1>1, <1>3, <1>6
  <1>9. CreatedIn(view, "router", router)
    BY <1>1, <1>4, <1>6
  <1>10. CreatedIn(view, "launchpadLib", lib)
    BY <1>1, <1>5, <1>6
  <1> QED
    BY <1>7, <1>8, <1>9, <1>10

\* What was created at a block that has become final is final.
LEMMA CreatedIsFinal ==
  ASSUME ChainOK, NEW view, NEW h, ViewOK(view, h), Published(h), NEW c, NEW address, CreatedIn(view, c, address)
  PROVE  CreatedFinal(c, address)
  <1>1. PICK tx \in Creation(view, address) :
          /\ tx.source = Reviewed
          /\ c = "launchpadLib" <=> tx.call = "launchpadLib"
          /\ c = "launchpad" <=> tx.call = "launchpad"
    BY DEF CreatedIn
  <1>2. tx \in Mined(view) /\ tx.nonce = address /\ tx.from = "deployer" /\ ~tx.fails /\ tx.call \in CreatedContracts
    BY <1>1 DEF Creation
  <1>3. FinalAt(tx)
    BY <1>2, ViewIsFinal
  <1> QED
    BY <1>1, <1>2, <1>3 DEF CreatedFinal

\* It is the one contract at its address.
LEMMA CodeIsReviewed ==
  ASSUME ChainOK, SentOK, BlocksOK, NEW c, NEW address, CreatedFinal(c, address)
  PROVE  CodeAt(chain, address)[1] = Reviewed
  <1>1. PICK tx : /\ FinalAt(tx) /\ tx.from = "deployer" /\ ~tx.fails /\ tx.nonce = address
                  /\ tx.call \in CreatedContracts /\ tx.source = Reviewed
    BY DEF CreatedFinal
  <1>2. Len(chain) \in Nat /\ final \in Nat /\ final <= Len(chain) /\ DOMAIN chain = 1..Len(chain)
    BY LenProperties DEF ChainOK, IsSeq
  <1>3. PICK n \in 1..Len(chain) : tx \in ToSet(chain[n].txs)
    BY <1>1, <1>2 DEF FinalAt
  <1>4. tx \in Creation(chain, address)
    BY <1>1, <1>2, <1>3 DEF Creation, Mined
  <1>5. ASSUME NEW t \in Creation(chain, address) PROVE t = tx
    <2>1. t \in Mined(chain) /\ t.nonce = address /\ t.from = "deployer"
      BY DEF Creation
    <2>2. PICK m \in 1..Len(chain) : t \in ToSet(chain[m].txs)
      BY <1>2, <2>1 DEF Mined
    <2>3. t = sent[t.nonce]
      BY <2>1, <2>2, KnownByNonce
    <2>4. tx = sent[tx.nonce]
      BY <1>1, <1>3, KnownByNonce
    <2> QED
      BY <1>1, <2>1, <2>3, <2>4
  <1>6. CodeAt(chain, address) = RuntimeOf(tx)
    BY <1>4, <1>5 DEF CodeAt
  <1> QED
    BY <1>1, <1>6, RuntimeOpens

-----------------------------------------------------------------------------
(* What a script reads of receipts whose blocks are final.                    *)

\* The height of a mined transaction is that of a block that holds it.
LEMMA HeightHolds ==
  ASSUME NEW blocks, DOMAIN blocks = 1..Len(blocks), Len(blocks) \in Nat, NEW tx \in Mined(blocks)
  PROVE  HeightOf(blocks, tx) \in 1..Len(blocks) /\ tx \in ToSet(blocks[HeightOf(blocks, tx)].txs)
  <1>1. PICK n \in 1..Len(blocks) : tx \in ToSet(blocks[n].txs)
    BY DEF Mined
  <1> QED
    BY <1>1, HeightIsFirst

\* The fields of a receipt.
LEMMA ReceiptFields ==
  ASSUME NEW blocks, NEW tx
  PROVE  LET r == ReceiptIn(blocks, tx)
             s == Receipt(blocks, tx)
         IN /\ r.tx = tx /\ r.blockNumber = HeightOf(blocks, tx)
            /\ s.tx = tx /\ s.blockNumber = r.blockNumber /\ s.blockHash = r.blockHash
            /\ s.transactionIndex = r.transactionIndex /\ s.clock = r.clock /\ s.event = EventOf(blocks, tx)
  BY DEF ReceiptIn, Receipt

\* The number of a final blueprint does not change: what is saved before it is final too.
LEMMA BlueprintStays ==
  ASSUME ChainOK, ChainOK', Extends, NEW tx, FinalAt(tx)
  PROVE  BlueprintId(chain', tx) = BlueprintId(chain, tx)
  <1>1. /\ DOMAIN chain = 1..Len(chain) /\ Len(chain) \in Nat /\ final \in Nat /\ final <= Len(chain)
        /\ DOMAIN chain' = 1..Len(chain') /\ Len(chain') \in Nat /\ final' \in Nat /\ final' <= Len(chain')
    BY LenProperties DEF ChainOK, IsSeq
  <1>2. final <= final' /\ \A n \in 1..final : chain'[n] = chain[n]
    BY DEF Extends
  <1>3. /\ HeightOf(chain', tx) = HeightOf(chain, tx) /\ HeightOf(chain, tx) \in 1..final
        /\ ReceiptIn(chain', tx) = ReceiptIn(chain, tx)
    BY FinalStays
  <1> DEFINE S(blocks) == {saved \in BlueprintsOf(blocks, tx.to) : ~Before(ReceiptIn(blocks, tx), ReceiptIn(blocks, saved))}
  <1>4. ASSUME NEW saved \in S(chain) PROVE FinalAt(saved)
    <2>1. saved \in Mined(chain) /\ ~(HeightOf(chain, tx) < HeightOf(chain, saved))
      BY ReceiptFields DEF BlueprintsOf, Succeeded, Before
    <2>2. HeightOf(chain, saved) \in 1..Len(chain)
      BY <1>1, <2>1, HeightHolds
    <2>3. HeightOf(chain, saved) <= final
      BY <1>1, <1>3, <2>1, <2>2
    <2> QED
      BY <2>1, <2>3, FinalByHeight
  <1>5. ASSUME NEW saved \in S(chain') PROVE FinalAt(saved)
    <2>1. saved \in Mined(chain') /\ ~(HeightOf(chain', tx) < HeightOf(chain', saved))
      BY ReceiptFields DEF BlueprintsOf, Succeeded, Before
    <2>2. HeightOf(chain', saved) \in 1..Len(chain') /\ saved \in ToSet(chain'[HeightOf(chain', saved)].txs)
      BY <1>1, <2>1, HeightHolds
    <2>3. HeightOf(chain', saved) \in 1..final
      BY <1>1, <1>3, <2>1, <2>2
    <2> QED
      BY <1>2, <2>2, <2>3 DEF FinalAt
  <1>6. ASSUME NEW saved, FinalAt(saved) PROVE saved \in S(chain) <=> saved \in S(chain')
    <2>1. saved \in Mined(chain) /\ ReceiptIn(chain', saved) = ReceiptIn(chain, saved) /\ FinalAt(saved)'
      BY <1>6, FinalStays
    <2>2. saved \in Mined(chain')
      <3>1. PICK n \in 1..final' : saved \in ToSet(chain'[n].txs)
        BY <2>1 DEF FinalAt
      <3> QED
        BY <1>1, <3>1 DEF Mined
    <2> QED
      BY <1>3, <2>1, <2>2 DEF BlueprintsOf, Succeeded
  <1>7. S(chain') = S(chain)
    <2> HIDE DEF S
    <2> QED
      BY <1>4, <1>5, <1>6
  <1> QED
    BY <1>7 DEF BlueprintId

\* Receipts as a script took them, of transactions that are final: they are the chain's still.
ReceiptsOK(receipts, txs) ==
  /\ DOMAIN receipts = 1..Len(txs)
  /\ \A i \in 1..Len(txs) :
       /\ FinalAt(txs[i]) /\ ~txs[i].fails /\ txs[i].from = "deployer"
       /\ receipts[i].tx = txs[i]
       /\ receipts[i].blockNumber = ReceiptIn(chain, txs[i]).blockNumber
       /\ receipts[i].transactionIndex = ReceiptIn(chain, txs[i]).transactionIndex
       /\ receipts[i].clock = ReceiptIn(chain, txs[i]).clock
       /\ txs[i].call = "saveBlueprint" => receipts[i].event = BlueprintId(chain, txs[i])
       /\ txs[i].call = "launchInstantWithIntent" => receipts[i].event = txs[i].nonce
  /\ \A i, k \in 1..Len(txs) :
       txs[i].call = "buy" /\ receipts[i].event = 1
         /\ txs[k].call = "launchInstantWithIntent" /\ txs[k].nonce = txs[i].args[1] =>
           receipts[i].clock - receipts[k].clock < GuardBlocks

\* They stay the chain's.
LEMMA ReceiptsStay ==
  ASSUME ChainOK, ChainOK', Extends, NEW receipts, NEW txs, ReceiptsOK(receipts, txs)
  PROVE  ReceiptsOK(receipts, txs)'
  <1>1. ASSUME NEW i \in 1..Len(txs)
        PROVE  /\ FinalAt(txs[i])' /\ ReceiptIn(chain', txs[i]) = ReceiptIn(chain, txs[i])
               /\ BlueprintId(chain', txs[i]) = BlueprintId(chain, txs[i])
    <2>1. FinalAt(txs[i])
      BY DEF ReceiptsOK
    <2> QED
      BY <2>1, FinalStays, BlueprintStays
  <1> QED
    BY <1>1 DEF ReceiptsOK

\* Taken below the finalized head, they are such.
LEMMA ReceiptsTaken ==
  ASSUME ChainOK, SentOK, BlocksOK, NEW txs, IsSeq(txs), Found(txs), NEW receipts, receipts = ReceiptsOf(txs),
         NEW n \in Int, n <= final,
         \A i \in DOMAIN receipts :
           ~receipts[i].tx.fails /\ receipts[i].tx.from = "deployer" /\ receipts[i].blockNumber <= n
  PROVE  ReceiptsOK(receipts, txs)
  <1>1. /\ DOMAIN chain = 1..Len(chain) /\ Len(chain) \in Nat /\ final \in Nat /\ final <= Len(chain)
        /\ DOMAIN txs = 1..Len(txs) /\ ToSet(txs) = {txs[i] : i \in 1..Len(txs)}
    <2>1. DOMAIN chain = 1..Len(chain) /\ Len(chain) \in Nat /\ final \in Nat /\ final <= Len(chain)
      BY LenProperties DEF ChainOK, IsSeq
    <2>2. DOMAIN txs = 1..Len(txs)
      BY LenProperties DEF IsSeq
    <2>3. ToSet(txs) = {txs[i] : i \in 1..Len(txs)}
      BY SeqIsSeq DEF IsSeq
    <2> QED
      BY <2>1, <2>2, <2>3
  <1>2. DOMAIN receipts = 1..Len(txs) /\ \A i \in 1..Len(txs) : receipts[i] = Receipt(chain, txs[i])
    BY <1>1 DEF ReceiptsOf
  <1>3. ASSUME NEW i \in 1..Len(txs)
        PROVE  /\ FinalAt(txs[i]) /\ ~txs[i].fails /\ txs[i].from = "deployer" /\ txs[i] \in Mined(chain)
               /\ receipts[i].tx = txs[i]
               /\ receipts[i].blockNumber = ReceiptIn(chain, txs[i]).blockNumber
               /\ receipts[i].transactionIndex = ReceiptIn(chain, txs[i]).transactionIndex
               /\ receipts[i].clock = ReceiptIn(chain, txs[i]).clock
               /\ receipts[i].event = EventOf(chain, txs[i])
    <2>1. txs[i] \in Mined(chain)
      BY <1>1 DEF Found
    <2>2. /\ receipts[i].tx = txs[i]
          /\ receipts[i].blockNumber = ReceiptIn(chain, txs[i]).blockNumber
          /\ receipts[i].transactionIndex = ReceiptIn(chain, txs[i]).transactionIndex
          /\ receipts[i].clock = ReceiptIn(chain, txs[i]).clock
          /\ receipts[i].event = EventOf(chain, txs[i])
          /\ receipts[i].blockNumber = HeightOf(chain, txs[i])
      BY <1>2, ReceiptFields
    <2>3. HeightOf(chain, txs[i]) \in 1..Len(chain)
      BY <1>1, <2>1, HeightHolds
    <2>4. HeightOf(chain, txs[i]) <= final
      BY <1>1, <1>2, <2>2, <2>3
    <2>5. FinalAt(txs[i])
      BY <2>1, <2>4, FinalByHeight
    <2> QED
      BY <1>2, <2>1, <2>2, <2>5
  <1>4. ASSUME NEW i \in 1..Len(txs)
        PROVE  /\ txs[i].call = "saveBlueprint" => receipts[i].event = BlueprintId(chain, txs[i])
               /\ txs[i].call = "launchInstantWithIntent" => receipts[i].event = txs[i].nonce
               /\ txs[i].call = "buy" /\ receipts[i].event = 1 => Guarded(chain, txs[i])
    <2>1. ~txs[i].fails /\ receipts[i].event = EventOf(chain, txs[i])
      BY <1>3
    <2> QED
      BY <2>1 DEF EventOf
  <1>5. ASSUME NEW i \in 1..Len(txs), NEW k \in 1..Len(txs), txs[i].call = "buy", receipts[i].event = 1,
               txs[k].nonce = txs[i].args[1]
        PROVE  receipts[i].clock - receipts[k].clock < GuardBlocks
    <2>1. PICK l \in LaunchOf(chain, txs[i].args[1]) : ClockOf(chain, txs[i]) - ClockOf(chain, l) < GuardBlocks
      BY <1>4, <1>5 DEF Guarded
    <2>2. l \in Mined(chain) /\ l.from = "deployer" /\ l.nonce = txs[k].nonce
      BY <1>5, <2>1 DEF LaunchOf, Succeeded
    <2>3. PICK m \in 1..Len(chain) : l \in ToSet(chain[m].txs)
      BY <1>1, <2>2 DEF Mined
    <2>4. PICK j \in 1..Len(chain) : txs[k] \in ToSet(chain[j].txs)
      BY <1>1, <1>3 DEF Mined
    <2>5. l = txs[k]
      <3>1. l = sent[l.nonce]
        BY <2>2, <2>3, KnownByNonce
      <3>2. txs[k] = sent[txs[k].nonce]
        BY <1>3, <2>4, KnownByNonce
      <3> QED
        BY <2>2, <3>1, <3>2
    <2>6. receipts[i].clock = ClockOf(chain, txs[i]) /\ receipts[k].clock = ClockOf(chain, txs[k])
      BY <1>3 DEF ClockOf
    <2> QED
      BY <2>1, <2>5, <2>6
  <1> QED
    BY <1>2, <1>3, <1>4, <1>5 DEF ReceiptsOK

-----------------------------------------------------------------------------
(* What the promoter knows at each stage.  Only a run that may write matters:  *)
(* not a dry one, and so one whose endpoint is the chain's.                    *)

\* The transactions a promotion is about.
ReleaseOf(r) == r.deploy.txs \o r.canary.txs

Artifacts(r) ==
  /\ {"remote", "dry", "deploy", "canary", "built"} \subseteq DOMAIN r
  /\ IsSeq(r.deploy.txs) /\ Len(r.deploy.txs) = Len(DeploySteps)
  /\ IsSeq(r.canary.txs) /\ Len(r.canary.txs) = Len(CanarySteps)

\* It started from the sources of the commit that was broadcast.
Attributed(r) == r.deploy.commit \in DOMAIN history /\ history[r.deploy.commit] = r.built

\* The head it holds receipts against was the finalized one.
Headed(r) == "receiptHead" \in DOMAIN r /\ r.receiptHead.number \in 1..final

\* Its state is of one block, at or above that head.
Pinned(r) ==
  /\ {"stateHead", "view"} \subseteq DOMAIN r
  /\ ViewOK(r.view, r.stateHead) /\ r.receiptHead.number <= r.stateHead.number

\* The four contracts were reviewed at that block.
Built(r) ==
  /\ r.built = Reviewed
  /\ CreatedIn(r.view, "launchpadLib", r.deploy.txs[1].nonce) /\ CreatedIn(r.view, "launchpad", r.deploy.txs[2].nonce)
  /\ CreatedIn(r.view, "hook", r.deploy.txs[3].nonce) /\ CreatedIn(r.view, "router", r.deploy.txs[4].nonce)

\* The receipts are in order, from the launchpad's block on, and created what the promoter asks of four of them.
Ordered(receipts, deployBlock, height) ==
  /\ \A i \in DOMAIN receipts : receipts[i].blockNumber <= height
  /\ \A i \in 2..Len(receipts) : Before(receipts[i - 1], receipts[i]) /\ receipts[i].blockNumber >= deployBlock
  /\ receipts[Launchpad].blockNumber = deployBlock
  /\ CanonicalCreate2Address(receipts[1].tx) = receipts[1].tx.nonce
  /\ CanonicalCreate2Address(receipts[3].tx) = receipts[3].tx.nonce
  /\ receipts[4].tx.to = NoAddress

Received(r) ==
  /\ "receipts" \in DOMAIN r /\ IsSeq(r.receipts) /\ Len(r.receipts) = Len(ReleaseOf(r))
  /\ ReceiptsOK(r.receipts, ReleaseOf(r))
  /\ Ordered(r.receipts, r.deploy.blocks[Launchpad].number, r.receiptHead.number)

\* The blueprints were saved, and the canary was a round trip.
Canaried(r) ==
  /\ \A id \in 1..HouseBlueprints : r.receipts[FirstBlueprint + id - 1].tx.call = "saveBlueprint"
  /\ CanaryRoundTrip(r.receipts, r.deploy.txs[Launchpad].nonce, r.deploy.txs[4].nonce)

\* What it knows grows from stage to stage.
PromoterOK(r) ==
  r.script = "promote" =>
    /\ Artifacts(r)
    /\ ~r.dry =>
         /\ Attributed(r)
         /\ r.stage # "receiptHead" => Headed(r)
         /\ r.stage \notin {"receiptHead", "stateHead"} => Pinned(r)
         /\ r.stage \notin {"receiptHead", "stateHead", "firstPass", "runtimes"} => Built(r)
         /\ r.stage \in {"state", "recheck", "finality", "write"} => Received(r)
         /\ r.stage \in {"recheck", "finality", "write"} => Canaried(r)

\* One record has what another had of some fields.
Same(q, r, fields) == \A x \in fields : x \in DOMAIN q => x \in DOMAIN r /\ r[x] = q[x]

ArtifactFields == {"remote", "dry", "deploy", "canary", "built"}

\* What is known from these fields stays known.
LEMMA KnowledgeKept ==
  ASSUME NEW q, NEW r, Same(q, r, ArtifactFields), Artifacts(q)
  PROVE  /\ Artifacts(r) /\ r.dry = q.dry /\ r.remote = q.remote /\ ReleaseOf(r) = ReleaseOf(q)
         /\ r.deploy = q.deploy /\ r.canary = q.canary /\ r.built = q.built
         /\ Attributed(q) => Attributed(r)
         /\ Same(q, r, {"receiptHead"}) /\ Headed(q) => Headed(r) /\ r.receiptHead = q.receiptHead
         /\ Same(q, r, {"receiptHead", "stateHead", "view"}) /\ Headed(q) /\ Pinned(q) => Pinned(r) /\ r.view = q.view
         /\ Same(q, r, {"stateHead", "view"}) /\ Pinned(q) /\ Built(q) => Built(r)
         /\ Same(q, r, {"receiptHead", "receipts"}) /\ Headed(q) /\ Received(q) => Received(r) /\ r.receipts = q.receipts
         /\ Same(q, r, {"receipts"}) /\ Received(q) /\ Canaried(q) => Canaried(r)
  <1>1. /\ {"remote", "dry", "deploy", "canary", "built"} \subseteq DOMAIN r
        /\ r["remote"] = q["remote"] /\ r["dry"] = q["dry"] /\ r["deploy"] = q["deploy"]
        /\ r["canary"] = q["canary"] /\ r["built"] = q["built"]
    BY DEF Artifacts, Same, ArtifactFields
  <1>2. r.deploy = q.deploy /\ r.canary = q.canary /\ r.built = q.built /\ r.dry = q.dry /\ r.remote = q.remote
    BY <1>1
  <1>3. Artifacts(r) /\ ReleaseOf(r) = ReleaseOf(q) /\ (Attributed(q) => Attributed(r))
    BY <1>1, <1>2 DEF Artifacts, Attributed, ReleaseOf
  <1>4. Same(q, r, {"receiptHead"}) /\ Headed(q) => Headed(r) /\ r.receiptHead = q.receiptHead
    BY DEF Same, Headed
  <1>5. Same(q, r, {"receiptHead", "stateHead", "view"}) /\ Headed(q) /\ Pinned(q) => Pinned(r) /\ r.view = q.view
    <2> HAVE Same(q, r, {"receiptHead", "stateHead", "view"}) /\ Headed(q) /\ Pinned(q)
    <2>1. /\ {"stateHead", "view"} \subseteq DOMAIN r
          /\ r["receiptHead"] = q["receiptHead"] /\ r["stateHead"] = q["stateHead"] /\ r["view"] = q["view"]
      BY DEF Same, Headed, Pinned
    <2> QED
      BY <2>1 DEF Pinned
  <1>6. Same(q, r, {"stateHead", "view"}) /\ Pinned(q) /\ Built(q) => Built(r)
    <2> HAVE Same(q, r, {"stateHead", "view"}) /\ Pinned(q) /\ Built(q)
    <2>1. r["view"] = q["view"]
      BY DEF Same, Pinned
    <2> QED
      BY <1>2, <2>1 DEF Built
  <1>7. Same(q, r, {"receiptHead", "receipts"}) /\ Headed(q) /\ Received(q) => Received(r) /\ r.receipts = q.receipts
    <2> HAVE Same(q, r, {"receiptHead", "receipts"}) /\ Headed(q) /\ Received(q)
    <2>1. "receipts" \in DOMAIN r /\ r["receiptHead"] = q["receiptHead"] /\ r["receipts"] = q["receipts"]
      BY DEF Same, Headed, Received
    <2> QED
      BY <1>2, <1>3, <2>1 DEF Received
  <1>8. Same(q, r, {"receipts"}) /\ Received(q) /\ Canaried(q) => Canaried(r)
    <2> HAVE Same(q, r, {"receipts"}) /\ Received(q) /\ Canaried(q)
    <2>1. r["receipts"] = q["receipts"]
      BY DEF Same, Received
    <2> QED
      BY <1>2, <2>1 DEF Canaried
  <1> QED
    BY <1>2, <1>3, <1>4, <1>5, <1>6, <1>7, <1>8

\* A stage reached without reading anything.
LEMMA MovesSame ==
  ASSUME RunOK(run), NEW stage, NEW fields, "stage" \notin fields
  PROVE  LET r == [run EXCEPT !.stage = stage]
         IN r.stage = stage /\ r.script = run.script /\ Same(run, r, fields)
  <1>1. /\ [run EXCEPT !.stage = stage].stage = stage
        /\ DOMAIN [run EXCEPT !.stage = stage] = DOMAIN run
        /\ \A x \in DOMAIN run \ {"stage"} : [run EXCEPT !.stage = stage][x] = run[x]
    BY StageMoves
  <1>2. "script" \in DOMAIN run
    BY DEF RunOK
  <1>3. [run EXCEPT !.stage = stage]["script"] = run["script"]
    BY <1>1, <1>2
  <1> QED
    BY <1>1, <1>3 DEF Same

\* A stage reached with something read.
LEMMA ReachesSame ==
  ASSUME RunOK(run), NEW stage, NEW facts, NEW fields, "stage" \notin fields, DOMAIN facts \cap fields = {},
         "script" \notin DOMAIN facts, "stage" \notin DOMAIN facts
  PROVE  LET r == Reached(stage, facts)
         IN /\ r.stage = stage /\ r.script = run.script /\ Same(run, r, fields)
            /\ \A x \in DOMAIN facts : x \in DOMAIN r /\ r[x] = facts[x]
  <1> DEFINE r == Reached(stage, facts)
  <1>1. /\ r.stage = stage
        /\ DOMAIN r = DOMAIN run \cup DOMAIN facts
        /\ \A x \in DOMAIN facts \ {"stage"} : r[x] = facts[x]
        /\ \A x \in DOMAIN run \ (DOMAIN facts \cup {"stage"}) : r[x] = run[x]
    BY DEF RunOK, Reached
  <1>2. "script" \in DOMAIN run
    BY DEF RunOK
  <1> HIDE DEF r
  <1>3. r["script"] = run["script"]
    BY <1>1, <1>2
  <1>4. Same(run, r, fields)
    BY <1>1 DEF Same
  <1>5. \A x \in DOMAIN facts : x \in DOMAIN r /\ r[x] = facts[x]
    BY <1>1
  <1> QED
    BY <1>1, <1>3, <1>4, <1>5 DEF r

\* What a promotion knows, it knows at the next stage.
LEMMA MovesKnow ==
  ASSUME RunOK(run), run.script = "promote", Artifacts(run), NEW to
  PROVE  LET r == [run EXCEPT !.stage = to]
         IN /\ r.script = "promote" /\ r.stage = to /\ Artifacts(r) /\ r.dry = run.dry
            /\ Attributed(run) => Attributed(r)
            /\ Headed(run) => Headed(r)
            /\ Headed(run) /\ Pinned(run) => Pinned(r)
            /\ Pinned(run) /\ Built(run) => Built(r)
            /\ Headed(run) /\ Received(run) => Received(r)
            /\ Received(run) /\ Canaried(run) => Canaried(r)
  <1>1. PICK r : r = [run EXCEPT !.stage = to]
    OBVIOUS
  <1>2. ASSUME NEW fields, "stage" \notin fields PROVE r.stage = to /\ r.script = run.script /\ Same(run, r, fields)
    BY <1>1, <1>2, MovesSame
  <1>3. /\ Same(run, r, ArtifactFields) /\ Same(run, r, {"receiptHead"})
        /\ Same(run, r, {"receiptHead", "stateHead", "view"}) /\ Same(run, r, {"stateHead", "view"})
        /\ Same(run, r, {"receiptHead", "receipts"}) /\ Same(run, r, {"receipts"})
        /\ r.stage = to /\ r.script = run.script
    BY <1>2 DEF ArtifactFields
  <1>4. /\ Artifacts(r) /\ r.dry = run.dry
        /\ Attributed(run) => Attributed(r)
        /\ Same(run, r, {"receiptHead"}) /\ Headed(run) => Headed(r) /\ r.receiptHead = run.receiptHead
        /\ Same(run, r, {"receiptHead", "stateHead", "view"}) /\ Headed(run) /\ Pinned(run) => Pinned(r) /\ r.view = run.view
        /\ Same(run, r, {"stateHead", "view"}) /\ Pinned(run) /\ Built(run) => Built(r)
        /\ Same(run, r, {"receiptHead", "receipts"}) /\ Headed(run) /\ Received(run) => Received(r) /\ r.receipts = run.receipts
        /\ Same(run, r, {"receipts"}) /\ Received(run) /\ Canaried(run) => Canaried(r)
    BY <1>3, KnowledgeKept
  <1> QED
    BY <1>1, <1>3, <1>4

\* And it knows what it read besides.
LEMMA ReachesKnow ==
  ASSUME RunOK(run), run.script = "promote", Artifacts(run), NEW to, NEW facts,
         DOMAIN facts \cap {"script", "stage", "remote", "dry", "deploy", "canary", "built"} = {}
  PROVE  LET r == Reached(to, facts)
         IN /\ r.script = "promote" /\ r.stage = to /\ Artifacts(r) /\ r.dry = run.dry
            /\ ReleaseOf(r) = ReleaseOf(run) /\ r.deploy = run.deploy /\ r.built = run.built
            /\ \A x \in DOMAIN facts : x \in DOMAIN r /\ r[x] = facts[x]
            /\ Attributed(run) => Attributed(r)
            /\ "receiptHead" \notin DOMAIN facts /\ Headed(run) => Headed(r) /\ r.receiptHead = run.receiptHead
            /\ DOMAIN facts \cap {"receiptHead", "stateHead", "view"} = {} /\ Headed(run) /\ Pinned(run) => Pinned(r)
            /\ DOMAIN facts \cap {"stateHead", "view"} = {} /\ Pinned(run) /\ Built(run) => Built(r)
  <1>1. PICK r : r = Reached(to, facts)
    OBVIOUS
  <1>2. ASSUME NEW fields, "stage" \notin fields, DOMAIN facts \cap fields = {}
        PROVE  r.stage = to /\ r.script = run.script /\ Same(run, r, fields)
               /\ \A x \in DOMAIN facts : x \in DOMAIN r /\ r[x] = facts[x]
    <2>1. "script" \notin DOMAIN facts /\ "stage" \notin DOMAIN facts
      OBVIOUS
    <2> QED
      BY <1>1, <1>2, <2>1, ReachesSame
  <1>3. /\ Same(run, r, ArtifactFields)
        /\ r.stage = to /\ r.script = run.script
        /\ \A x \in DOMAIN facts : x \in DOMAIN r /\ r[x] = facts[x]
    <2>1. "stage" \notin ArtifactFields /\ DOMAIN facts \cap ArtifactFields = {}
      BY DEF ArtifactFields
    <2> QED
      BY <1>2, <2>1
  <1>4. "receiptHead" \notin DOMAIN facts => Same(run, r, {"receiptHead"})
    BY <1>2
  <1>5. DOMAIN facts \cap {"receiptHead", "stateHead", "view"} = {} => Same(run, r, {"receiptHead", "stateHead", "view"})
    BY <1>2
  <1>6. DOMAIN facts \cap {"stateHead", "view"} = {} => Same(run, r, {"stateHead", "view"})
    BY <1>2
  <1>7. /\ Artifacts(r) /\ r.dry = run.dry /\ r.remote = run.remote /\ ReleaseOf(r) = ReleaseOf(run)
        /\ r.deploy = run.deploy /\ r.canary = run.canary /\ r.built = run.built
        /\ Attributed(run) => Attributed(r)
        /\ Same(run, r, {"receiptHead"}) /\ Headed(run) => Headed(r) /\ r.receiptHead = run.receiptHead
        /\ Same(run, r, {"receiptHead", "stateHead", "view"}) /\ Headed(run) /\ Pinned(run) => Pinned(r) /\ r.view = run.view
        /\ Same(run, r, {"stateHead", "view"}) /\ Pinned(run) /\ Built(run) => Built(r)
    BY <1>3, KnowledgeKept
  <1> QED
    BY <1>1, <1>3, <1>4, <1>5, <1>6, <1>7

\* No promotion is known of when none runs.
LEMMA IdleKnows == ASSUME NEW r, r.script # "promote" PROVE PromoterOK(r)
  BY DEF PromoterOK

\* A promotion starts from the commit that was broadcast.
LEMMA StartKnows ==
  ASSUME DeployOK, IsSeq(canaryRun.txs), NEW dry \in BOOLEAN, NEW remote \in BOOLEAN, StartPromotion(dry, remote)
  PROVE  PromoterOK(run')
  <1>1. run' = [script |-> "promote", stage |-> "receiptHead", remote |-> remote, dry |-> dry,
                deploy |-> deployRun, canary |-> canaryRun, built |-> out]
    BY DEF StartPromotion
  <1>2. deployRun # NoRun /\ IsSeq(deployRun.txs) /\ Len(deployRun.txs) = Len(DeploySteps)
    BY DEF StartPromotion, ArtifactsPaired, NoRun, DeployOK
  <1>3. Len(canaryRun.txs) = Len(CanarySteps)
    BY DEF StartPromotion, ArtifactsPaired
  <1>4. /\ deployRun.commit \in DOMAIN history
        /\ ~dry => history[deployRun.commit] = out
    BY DEF StartPromotion, SourceAttributed, Dirty
  <1>5. PICK r : r = run'
    OBVIOUS
  <1>6. /\ {"remote", "dry", "deploy", "canary", "built"} \subseteq DOMAIN r
        /\ r.script = "promote" /\ r.stage = "receiptHead" /\ r.dry = dry
        /\ r.deploy = deployRun /\ r.canary = canaryRun /\ r.built = out
    BY <1>1, <1>5
  <1>7. PromoterOK(r)
    BY <1>2, <1>3, <1>4, <1>6 DEF PromoterOK, Artifacts, Attributed
  <1> QED
    BY <1>5, <1>7

\* The head it holds receipts against is the finalized one.
LEMMA ReceiptHeadKnows ==
  ASSUME ChainOK, RunOK(run), PromoterOK(run), PromotionReceiptHead
  PROVE  PromoterOK(run')
  <1>1. run.script = "promote" /\ run.stage = "receiptHead"
    BY DEF PromotionReceiptHead, In
  <1>2. Artifacts(run) /\ (~run.dry => Attributed(run) /\ run.remote)
    BY <1>1 DEF PromoterOK, RunOK
  <1>3. PICK n : n = (IF run.remote THEN final ELSE Latest) /\ run' = Reached("stateHead", [receiptHead |-> Header(n)])
    BY DEF PromotionReceiptHead
  <1>4. PICK facts : facts = [receiptHead |-> Header(n)]
    OBVIOUS
  <1>5. /\ DOMAIN facts \cap {"script", "stage", "remote", "dry", "deploy", "canary", "built"} = {}
        /\ "receiptHead" \in DOMAIN facts /\ facts["receiptHead"] = Header(n)
    BY <1>4
  <1>6. PICK r : r = Reached("stateHead", facts)
    OBVIOUS
  <1>7. /\ r.script = "promote" /\ r.stage = "stateHead" /\ Artifacts(r) /\ r.dry = run.dry
        /\ \A x \in DOMAIN facts : x \in DOMAIN r /\ r[x] = facts[x]
        /\ Attributed(run) => Attributed(r)
    BY <1>1, <1>2, <1>5, <1>6, ReachesKnow
  <1>8. ~r.dry => Headed(r)
    <2> HAVE ~r.dry
    <2>1. n = final /\ final \in Nat \ {0}
      BY <1>2, <1>3, <1>7 DEF ChainOK
    <2>2. r["receiptHead"] = Header(final) /\ "receiptHead" \in DOMAIN r
      BY <1>5, <1>7, <2>1
    <2>3. Header(final).number = final
      BY DEF Header
    <2> QED
      BY <2>1, <2>2, <2>3 DEF Headed
  <1>9. PromoterOK(r)
    BY <1>2, <1>7, <1>8 DEF PromoterOK
  <1> QED
    BY <1>3, <1>4, <1>6, <1>9

\* The block it reads state from is at or above that head.
LEMMA StateHeadKnows ==
  ASSUME ChainOK, BlocksOK, RunOK(run), PromoterOK(run), PromotionStateHead
  PROVE  PromoterOK(run')
  <1>1. run.script = "promote" /\ run.stage = "stateHead"
    BY DEF PromotionStateHead, In
  <1>2. Artifacts(run) /\ (~run.dry => Attributed(run) /\ Headed(run) /\ run.remote)
    BY <1>1 DEF PromoterOK, RunOK
  <1>3. PICK n : /\ n = IF run.remote THEN safe ELSE Latest
                 /\ \/ run' = Idle
                    \/ /\ run' = Reached("firstPass", [stateHead |-> Header(n), view |-> ChainThrough(n)])
                       /\ run.remote => AssertStateEvidenceAfterFinality(run.receiptHead, Header(n))
    BY Proceeds DEF PromotionStateHead
  <1>4. PICK facts : facts = [stateHead |-> Header(n), view |-> ChainThrough(n)]
    OBVIOUS
  <1>5. /\ DOMAIN facts \cap {"script", "stage", "remote", "dry", "deploy", "canary", "built"} = {}
        /\ "receiptHead" \notin DOMAIN facts
        /\ "stateHead" \in DOMAIN facts /\ facts["stateHead"] = Header(n)
        /\ "view" \in DOMAIN facts /\ facts["view"] = ChainThrough(n)
    BY <1>4
  <1>6. PICK r : r = Reached("firstPass", facts)
    OBVIOUS
  <1>7. /\ r.script = "promote" /\ r.stage = "firstPass" /\ Artifacts(r) /\ r.dry = run.dry
        /\ \A x \in DOMAIN facts : x \in DOMAIN r /\ r[x] = facts[x]
        /\ Attributed(run) => Attributed(r)
        /\ "receiptHead" \notin DOMAIN facts /\ Headed(run) => Headed(r) /\ r.receiptHead = run.receiptHead
    BY <1>1, <1>2, <1>5, <1>6, ReachesKnow
  <1>8. CASE run' = Idle
    BY <1>8, IdleKnows DEF Idle
  <1>9. CASE run' = r /\ (run.remote => AssertStateEvidenceAfterFinality(run.receiptHead, Header(n)))
    <2>1. ~r.dry => Pinned(r)
      <3> HAVE ~r.dry
      <3>1. run.remote /\ Headed(run) /\ n = safe
        BY <1>2, <1>3, <1>7
      <3>2. n \in 1..Len(chain)
        BY <3>1, LenProperties DEF ChainOK, IsSeq
      <3>3. ViewOK(ChainThrough(n), Header(n))
        BY <3>2, PinsView
      <3>4. r["stateHead"] = Header(n) /\ r["view"] = ChainThrough(n) /\ {"stateHead", "view"} \subseteq DOMAIN r
        BY <1>5, <1>7
      <3>5. run.receiptHead.number \in 1..final /\ Header(n).number >= run.receiptHead.number
        BY <1>9, <3>1 DEF AssertStateEvidenceAfterFinality, Headed
      <3>6. run.receiptHead.number <= Header(n).number /\ r.receiptHead = run.receiptHead
        BY <1>5, <1>7, <3>1, <3>2, <3>5 DEF Header, ChainOK
      <3> QED
        BY <3>3, <3>4, <3>6 DEF Pinned
    <2>2. PromoterOK(r)
      BY <1>2, <1>5, <1>7, <2>1 DEF PromoterOK
    <2> QED
      BY <1>9, <2>2
  <1> QED
    BY <1>3, <1>4, <1>6, <1>8, <1>9

\* A check that reads nothing new keeps what is known.
LEMMA MoveKnows ==
  ASSUME RunOK(run), PromoterOK(run), run.script = "promote", NEW from, NEW to, run.stage = from, run' = [run EXCEPT !.stage = to],
         \/ from = "firstPass" /\ to = "runtimes"
         \/ from \in {"recheck", "finality"} /\ to \in {"finality", "write"}
         \/ from = "runtimes" /\ to = "receipts" /\ (~run.dry => Built(run))
         \/ from = "state" /\ to = "recheck" /\ (~run.dry => Canaried(run))
  PROVE  PromoterOK(run')
  <1>1. Artifacts(run)
    BY DEF PromoterOK
  <1>2. PICK r : r = [run EXCEPT !.stage = to]
    OBVIOUS
  <1>3. /\ r.script = "promote" /\ r.stage = to /\ Artifacts(r) /\ r.dry = run.dry
        /\ Attributed(run) => Attributed(r)
        /\ Headed(run) => Headed(r)
        /\ Headed(run) /\ Pinned(run) => Pinned(r)
        /\ Pinned(run) /\ Built(run) => Built(r)
        /\ Headed(run) /\ Received(run) => Received(r)
        /\ Received(run) /\ Canaried(run) => Canaried(r)
    BY <1>1, <1>2, MovesKnow
  <1>4. CASE run.dry
    <2>1. r.dry
      BY <1>3, <1>4
    <2> QED
      BY <1>2, <1>3, <2>1 DEF PromoterOK
  <1>5. CASE ~run.dry
    <2>0. from \in {"firstPass", "runtimes", "state", "recheck", "finality"} /\ to \in {"runtimes", "receipts", "recheck", "finality", "write"}
      OBVIOUS
    <2>1. Attributed(r) /\ Headed(r) /\ Pinned(r)
      BY <1>3, <1>5, <2>0 DEF PromoterOK
    <2>2. to \notin {"receiptHead", "stateHead", "firstPass", "runtimes"} => Built(r)
      BY <1>3, <1>5 DEF PromoterOK
    <2>3. to \in {"state", "recheck", "finality", "write"} => Received(r)
      BY <1>3, <1>5 DEF PromoterOK
    <2>4. to \in {"recheck", "finality", "write"} => Canaried(r)
      BY <1>3, <1>5 DEF PromoterOK
    <2>5. PromoterOK(r)
      BY <1>3, <2>1, <2>2, <2>3, <2>4 DEF PromoterOK
    <2> QED
      BY <1>2, <2>5
  <1> QED
    BY <1>2, <1>4, <1>5

\* The runtimes it passes are of the reviewed sources.
LEMMA RuntimesKnow ==
  ASSUME RunOK(run), PromoterOK(run), PromotionRuntimes
  PROVE  PromoterOK(run')
  <1>1. run.script = "promote" /\ run.stage = "runtimes"
    BY DEF PromotionRuntimes, In
  <1>2. \/ run' = Idle
        \/ /\ run' = [run EXCEPT !.stage = "receipts"]
           /\ run.remote => ReviewedRuntimes(run.view, run.built, Of(1), Of(2), Of(3), Of(4))
    BY Proceeds DEF PromotionRuntimes
  <1>3. CASE run' = Idle
    BY <1>3, IdleKnows DEF Idle
  <1>4. CASE /\ run' = [run EXCEPT !.stage = "receipts"]
             /\ run.remote => ReviewedRuntimes(run.view, run.built, Of(1), Of(2), Of(3), Of(4))
    <2>1. ~run.dry => Built(run)
      <3> HAVE ~run.dry
      <3>1. ReviewedRuntimes(run.view, run.built, Of(1), Of(2), Of(3), Of(4))
        BY <1>1, <1>4 DEF RunOK
      <3>2. /\ run.built = Reviewed
            /\ CreatedIn(run.view, "launchpadLib", Of(1)) /\ CreatedIn(run.view, "launchpad", Of(2))
            /\ CreatedIn(run.view, "hook", Of(3)) /\ CreatedIn(run.view, "router", Of(4))
        BY <3>1, RuntimesReviewed
      <3> QED
        BY <3>2 DEF Built, Of
    <2> QED
      BY <1>1, <1>4, <2>1, MoveKnows
  <1> QED
    BY <1>2, <1>3, <1>4

\* The receipts it passes are final, in order, and of what they say.
LEMMA ReceiptsKnow ==
  ASSUME ChainOK, SentOK, BlocksOK, RunOK(run), PromoterOK(run), PromotionReceipts
  PROVE  PromoterOK(run')
  <1>1. run.script = "promote" /\ run.stage = "receipts"
    BY DEF PromotionReceipts, In
  <1>2. Artifacts(run) /\ (~run.dry => Attributed(run) /\ Headed(run) /\ Pinned(run) /\ Built(run) /\ run.remote)
    BY <1>1 DEF PromoterOK, RunOK
  <1>3. PICK receipts :
          /\ receipts = IF Found(ReleaseTransactions) THEN ReceiptsOf(ReleaseTransactions) ELSE <<>>
          /\ \/ run' = Idle
             \/ /\ run' = Reached("state", [receipts |-> receipts])
                /\ run.remote => receipts # <<>> /\ PromotionReceiptsHold(receipts) /\ DeployBlockHolds(receipts)
    <2>1. PICK receipts \in {IF Found(ReleaseTransactions) THEN ReceiptsOf(ReleaseTransactions) ELSE <<>>} :
            \E ok \in Verdicts(run.remote, receipts # <<>> /\ PromotionReceiptsHold(receipts) /\ DeployBlockHolds(receipts)) :
              run' = IF ok THEN Reached("state", [receipts |-> receipts]) ELSE Idle
      BY DEF PromotionReceipts, Proceed
    <2> QED
      BY <2>1 DEF Verdicts
  <1>4. PICK facts : facts = [receipts |-> receipts]
    OBVIOUS
  <1>5. /\ DOMAIN facts \cap {"script", "stage", "remote", "dry", "deploy", "canary", "built"} = {}
        /\ "receiptHead" \notin DOMAIN facts
        /\ DOMAIN facts \cap {"receiptHead", "stateHead", "view"} = {} /\ DOMAIN facts \cap {"stateHead", "view"} = {}
        /\ "receipts" \in DOMAIN facts /\ facts["receipts"] = receipts
    BY <1>4
  <1>6. PICK r : r = Reached("state", facts)
    OBVIOUS
  <1>7. /\ r.script = "promote" /\ r.stage = "state" /\ Artifacts(r) /\ r.dry = run.dry
        /\ ReleaseOf(r) = ReleaseOf(run) /\ r.deploy = run.deploy /\ r.built = run.built
        /\ \A x \in DOMAIN facts : x \in DOMAIN r /\ r[x] = facts[x]
        /\ Attributed(run) => Attributed(r)
        /\ "receiptHead" \notin DOMAIN facts /\ Headed(run) => Headed(r) /\ r.receiptHead = run.receiptHead
        /\ DOMAIN facts \cap {"receiptHead", "stateHead", "view"} = {} /\ Headed(run) /\ Pinned(run) => Pinned(r)
        /\ DOMAIN facts \cap {"stateHead", "view"} = {} /\ Pinned(run) /\ Built(run) => Built(r)
    BY <1>1, <1>2, <1>5, <1>6, ReachesKnow
  <1>8. CASE run' = Idle
    BY <1>8, IdleKnows DEF Idle
  <1>9. CASE /\ run' = r
             /\ run.remote => receipts # <<>> /\ PromotionReceiptsHold(receipts) /\ DeployBlockHolds(receipts)
    <2>1. ~r.dry => Received(r)
      <3> HAVE ~r.dry
      <3>1. receipts # <<>> /\ PromotionReceiptsHold(receipts) /\ DeployBlockHolds(receipts) /\ Headed(run)
        BY <1>2, <1>7, <1>9
      <3>2. PICK txs : txs = ReleaseOf(run)
        OBVIOUS
      <3>3. /\ IsSeq(txs) /\ Len(txs) = Len(DeploySteps) + 4 /\ Len(DeploySteps) \in Nat
            /\ txs[1] = run.deploy.txs[1] /\ txs[3] = run.deploy.txs[3]
        <4>1. /\ IsSeq(run.deploy.txs) /\ IsSeq(run.canary.txs)
              /\ Len(run.deploy.txs) = Len(DeploySteps) /\ Len(run.canary.txs) = 4
          BY <1>2, CanaryLabels DEF Artifacts
        <4>2. Len(DeploySteps) = 5 + HouseBlueprints /\ HouseBlueprints \in Nat
          BY LabelsAre, BlueprintAssumption
        <4>3. 1 \in 1..Len(run.deploy.txs) /\ 3 \in 1..Len(run.deploy.txs)
          BY <4>1, <4>2
        <4>4. /\ IsSeq(txs) /\ Len(txs) = Len(run.deploy.txs) + Len(run.canary.txs)
              /\ \A i \in 1..Len(run.deploy.txs) : txs[i] = run.deploy.txs[i]
          BY <3>2, <4>1, JoinIsSeq DEF ReleaseOf
        <4> QED
          BY <4>1, <4>2, <4>3, <4>4
      <3>4. Found(txs) /\ receipts = ReceiptsOf(txs)
        BY <1>3, <3>1, <3>2 DEF ReleaseTransactions, ReleaseOf
      <3>5. DOMAIN txs = 1..Len(txs)
        BY <3>3, LenProperties DEF IsSeq
      <3>6. /\ IsSeq(receipts) /\ Len(receipts) = Len(txs) /\ DOMAIN receipts = 1..Len(txs)
            /\ \A i \in 1..Len(txs) : receipts[i] = Receipt(chain, txs[i])
        <4>1. receipts = [i \in 1..Len(txs) |-> Receipt(chain, txs[i])]
          BY <3>4, <3>5 DEF ReceiptsOf
        <4>2. receipts = [i \in 1..Len(txs) |-> receipts[i]] /\ \A i \in 1..Len(txs) : receipts[i] = Receipt(chain, txs[i])
          BY <4>1
        <4>3. Len(txs) \in Nat
          BY <3>3
        <4>4. IsSeq(receipts) /\ Len(receipts) = Len(txs) /\ DOMAIN receipts = 1..Len(txs)
          BY <4>2, <4>3, ListIsSeq
        <4> QED
          BY <4>2, <4>4
      <3>7. /\ \A i \in DOMAIN receipts : ~receipts[i].tx.fails /\ receipts[i].tx.from = "deployer"
            /\ AssertStrictReceiptOrder(receipts)
            /\ \A i \in DOMAIN receipts : receipts[i].blockNumber <= run.receiptHead.number
        BY <3>1 DEF PromotionReceiptsHold, AssertReceiptsWithinEvidenceBlock
      <3>8. run.receiptHead.number \in 1..final
        BY <3>1 DEF Headed
      <3>9. ReceiptsOK(receipts, txs)
        <4>1. run.receiptHead.number \in Int /\ run.receiptHead.number <= final
          BY <3>8 DEF ChainOK
        <4>2. \A i \in DOMAIN receipts :
                ~receipts[i].tx.fails /\ receipts[i].tx.from = "deployer" /\ receipts[i].blockNumber <= run.receiptHead.number
          BY <3>7
        <4> QED
          BY <3>3, <3>4, <4>1, <4>2, ReceiptsTaken
      <3>10. /\ receipts[1].tx = txs[1] /\ receipts[3].tx = txs[3]
             /\ {1, 2, 3, 4} \subseteq DOMAIN receipts
        <4>1. {1, 2, 3, 4} \subseteq 1..Len(txs)
          BY <3>3, LabelsAre, BlueprintAssumption
        <4> QED
          BY <3>6, <3>9, <4>1 DEF ReceiptsOK
      <3>11. /\ CanonicalCreate2Address(receipts[1].tx) = receipts[1].tx.nonce
             /\ CanonicalCreate2Address(receipts[3].tx) = receipts[3].tx.nonce
        <4>1. \A i \in {1, 3} : CanonicalCreate2Address(receipts[i].tx) = Of(i)
          BY <3>1 DEF PromotionReceiptsHold, PromotionTargetsHold
        <4>2. Of(1) = receipts[1].tx.nonce /\ Of(3) = receipts[3].tx.nonce
          BY <3>3, <3>10 DEF Of
        <4> QED
          BY <4>1, <4>2
      <3>12. receipts[4].tx.to = NoAddress
        <4>1. 4 \notin {Buy, Sell, Approval, 1, 3} /\ 4 \in {2, 4} /\ 4 \in DOMAIN receipts
          BY <3>3, <3>10, LabelsAre, BlueprintAssumption DEF Buy, Sell, Approval
        <4>2. \A i \in DOMAIN receipts :
                i \in {2, 4} /\ i \notin {Buy, Sell, Approval, 1, 3} => receipts[i].tx.to = NoAddress
          <5> HIDE DEF Buy, Sell, Approval
          <5> QED
            BY <3>1 DEF PromotionReceiptsHold, PromotionTargetsHold
        <4> QED
          BY <4>1, <4>2
      <3>13. /\ receipts[Launchpad].blockNumber = run.deploy.blocks[Launchpad].number
             /\ \A i \in 2..Len(receipts) : receipts[i].blockNumber >= run.deploy.blocks[Launchpad].number
        BY <3>1 DEF DeployBlockHolds, DeriveLiveLaunchpadDeployBlock
      <3>14. Ordered(receipts, run.deploy.blocks[Launchpad].number, run.receiptHead.number)
        BY <3>7, <3>11, <3>12, <3>13 DEF Ordered, AssertStrictReceiptOrder
      <3>15. "receipts" \in DOMAIN r /\ r["receipts"] = receipts /\ r.receiptHead = run.receiptHead
        BY <1>5, <1>7, <3>1
      <3> QED
        BY <1>7, <3>2, <3>6, <3>9, <3>14, <3>15 DEF Received
    <2>2. PromoterOK(r)
      BY <1>2, <1>5, <1>7, <2>1 DEF PromoterOK
    <2> QED
      BY <1>9, <2>2
  <1> QED
    BY <1>3, <1>4, <1>6, <1>8, <1>9

\* The state it passes is that of saved blueprints and of one round trip.
LEMMA StateKnows ==
  ASSUME RunOK(run), PromoterOK(run), PromotionState
  PROVE  PromoterOK(run')
  <1>1. run.script = "promote" /\ run.stage = "state"
    BY DEF PromotionState, In
  <1>2. \/ run' = Idle
        \/ /\ run' = [run EXCEPT !.stage = "recheck"]
           /\ run.remote =>
                /\ ValidateHouseBlueprintEvidence(run.receipts, run.view, Of(Launchpad))
                /\ ValidateInstantCanaryEvidence(run.receipts, run.view, Of(Launchpad), Of(4))
    BY Proceeds DEF PromotionState
  <1>3. CASE run' = Idle
    BY <1>3, IdleKnows DEF Idle
  <1>4. CASE /\ run' = [run EXCEPT !.stage = "recheck"]
             /\ run.remote =>
                  /\ ValidateHouseBlueprintEvidence(run.receipts, run.view, Of(Launchpad))
                  /\ ValidateInstantCanaryEvidence(run.receipts, run.view, Of(Launchpad), Of(4))
    <2>1. ~run.dry => Canaried(run)
      <3> HAVE ~run.dry
      <3>1. /\ ValidateHouseBlueprintEvidence(run.receipts, run.view, Of(Launchpad))
            /\ ValidateInstantCanaryEvidence(run.receipts, run.view, Of(Launchpad), Of(4))
        BY <1>1, <1>4 DEF RunOK
      <3>2. \A id \in 1..HouseBlueprints : run.receipts[FirstBlueprint + id - 1].tx.call = "saveBlueprint"
        BY <3>1 DEF ValidateHouseBlueprintEvidence, HouseBlueprintEvidence
      <3>3. CanaryRoundTrip(run.receipts, run.deploy.txs[Launchpad].nonce, run.deploy.txs[4].nonce)
        BY <3>1 DEF ValidateInstantCanaryEvidence, Of
      <3> QED
        BY <3>2, <3>3 DEF Canaried
    <2> QED
      BY <1>1, <1>4, <2>1, MoveKnows
  <1> QED
    BY <1>2, <1>3, <1>4

\* Every step of the promoter.
LEMMA PromotionKnows ==
  ASSUME ChainOK, SentOK, BlocksOK, DeployOK, IsSeq(canaryRun.txs), RunOK(run), PromoterOK(run), PromotionNext
  PROVE  PromoterOK(run')
  <1>1. CASE \E dry, remote \in BOOLEAN : StartPromotion(dry, remote)
    BY <1>1, StartKnows
  <1>2. CASE PromotionReceiptHead
    BY <1>2, ReceiptHeadKnows
  <1>3. CASE PromotionStateHead
    BY <1>3, StateHeadKnows
  <1>4. CASE PromotionFirstPass
    <2>1. run.script = "promote" /\ run.stage = "firstPass" /\ (run' = Idle \/ run' = [run EXCEPT !.stage = "runtimes"])
      BY <1>4, Proceeds DEF PromotionFirstPass, In
    <2> QED
      BY <2>1, MoveKnows, IdleKnows DEF Idle
  <1>5. CASE PromotionRuntimes
    BY <1>5, RuntimesKnow
  <1>6. CASE PromotionReceipts
    BY <1>6, ReceiptsKnow
  <1>7. CASE PromotionState
    BY <1>7, StateKnows
  <1>8. CASE PromotionRecheck
    <2>1. /\ run.script = "promote" /\ run.stage = "recheck"
          /\ run' = Idle \/ run' = [run EXCEPT !.stage = IF run.remote THEN "finality" ELSE "write"]
      BY <1>8, Proceeds DEF PromotionRecheck, In
    <2>2. run' = Idle \/ run' = [run EXCEPT !.stage = "finality"] \/ run' = [run EXCEPT !.stage = "write"]
      BY <2>1
    <2> QED
      BY <2>1, <2>2, MoveKnows, IdleKnows DEF Idle
  <1>9. CASE ConfirmFinality
    <2>1. run.script = "promote" /\ run.stage = "finality" /\ (run' = Idle \/ run' = [run EXCEPT !.stage = "write"])
      BY <1>9, Proceeds DEF ConfirmFinality, In
    <2> QED
      BY <2>1, MoveKnows, IdleKnows DEF Idle
  <1>10. CASE FinalityTimeout \/ WriteManifest
    BY <1>10, IdleKnows DEF FinalityTimeout, WriteManifest, Idle
  <1> QED
    BY <1>1, <1>2, <1>3, <1>4, <1>5, <1>6, <1>7, <1>8, <1>9, <1>10 DEF PromotionNext

-----------------------------------------------------------------------------
(* What is known stays so, whatever the chain and the workspace do meanwhile.  *)

\* A commit keeps its sources.
HistoryKept == \A c \in DOMAIN history : c \in DOMAIN history' /\ history'[c] = history[c]

\* A promotion's knowledge stays true under the steps of others.
LEMMA KnowledgeStays ==
  ASSUME ChainOK, SentOK, BlocksOK, ChainStep, ChainOK', Extends, HistoryKept, NEW r, PromoterOK(r)
  PROVE  PromoterOK(r)'
  <1>0. final \in Nat /\ final' \in Nat /\ final <= final'
    BY DEF ChainOK, Extends
  <1>1. Artifacts(r) => Artifacts(r)'
    BY DEF Artifacts
  <1>2. Attributed(r) => Attributed(r)'
    BY DEF Attributed, HistoryKept
  <1>3. Headed(r) => Headed(r)'
    BY <1>0 DEF Headed
  <1>4. Pinned(r) => Pinned(r)'
    <2> HAVE Pinned(r)
    <2>1. ViewOK(r.view, r.stateHead)
      BY DEF Pinned
    <2>2. ViewOK(r.view, r.stateHead)'
      BY <2>1, ViewKept
    <2> QED
      BY <2>2 DEF Pinned
  <1>5. Built(r) => Built(r)'
    BY DEF Built
  <1>6. Received(r) => Received(r)'
    <2> HAVE Received(r)
    <2>1. ReceiptsOK(r.receipts, ReleaseOf(r))
      BY DEF Received
    <2>2. ReceiptsOK(r.receipts, ReleaseOf(r))'
      BY <2>1, ReceiptsStay
    <2> QED
      BY <2>2 DEF Received
  <1>7. Canaried(r) => Canaried(r)'
    BY DEF Canaried
  <1> QED
    BY <1>1, <1>2, <1>3, <1>4, <1>5, <1>6, <1>7 DEF PromoterOK

\* The deployer's final transactions are told apart by their nonces.
LEMMA FinalIsSent ==
  ASSUME ChainOK, SentOK, BlocksOK, NEW tx, FinalAt(tx), tx.from = "deployer"
  PROVE  tx.nonce \in 1..Len(sent) /\ tx = sent[tx.nonce]
  <1>1. final \in Nat /\ final <= Len(chain) /\ Len(chain) \in Nat
    BY LenProperties DEF ChainOK, IsSeq
  <1>2. PICK n \in 1..Len(chain) : tx \in ToSet(chain[n].txs)
    BY <1>1 DEF FinalAt
  <1> QED
    BY <1>2, KnownByNonce

\* What is final is mined.
LEMMA FinalIsMined ==
  ASSUME ChainOK, NEW tx, FinalAt(tx)
  PROVE  tx \in Mined(chain)
  <1>1. final \in Nat /\ final <= Len(chain) /\ Len(chain) \in Nat /\ DOMAIN chain = 1..Len(chain)
    BY LenProperties DEF ChainOK, IsSeq
  <1> QED
    BY <1>1 DEF FinalAt, Mined

-----------------------------------------------------------------------------
(* What a published release says.                                             *)

\* Its receipts are of the calls their labels name, and its canary of one token.
Listed(receipts) ==
  /\ \A i \in DOMAIN receipts : i # 5 => receipts[i].tx.call = (DeploySteps \o CanarySteps)[i]
  /\ receipts[Buy].tx.args[1] = receipts[Launch].tx.nonce /\ receipts[Buy].event = 1
  /\ receipts[Sell].tx.args[1] = receipts[Launch].tx.nonce

ReleaseStands(release) ==
  /\ IsSeq(release.receipts) /\ Len(release.receipts) = Len(DeploySteps) + 4
  /\ release.sourceCommit \in DOMAIN history /\ history[release.sourceCommit] = Reviewed
  /\ CreatedFinal("launchpadLib", release.receipts[1].nonce) /\ CreatedFinal("launchpad", release.receipts[2].nonce)
  /\ CreatedFinal("hook", release.receipts[3].nonce) /\ CreatedFinal("router", release.receipts[4].nonce)
  /\ \E receipts : /\ ReceiptsOK(receipts, release.receipts) /\ Len(receipts) = Len(release.receipts)
                   /\ Ordered(receipts, release.deployBlock, release.readback.number)
                   /\ Listed(receipts)

\* A release that stands goes on standing.
LEMMA ReleaseGoesOn ==
  ASSUME ChainOK, ChainOK', Extends, HistoryKept, NEW release, ReleaseStands(release)
  PROVE  ReleaseStands(release)'
  <1>1. ASSUME NEW c, NEW address, CreatedFinal(c, address) PROVE CreatedFinal(c, address)'
    <2>1. PICK tx : /\ FinalAt(tx) /\ tx.from = "deployer" /\ ~tx.fails /\ tx.nonce = address
                    /\ tx.call \in CreatedContracts /\ tx.source = Reviewed
                    /\ c = "launchpadLib" <=> tx.call = "launchpadLib"
                    /\ c = "launchpad" <=> tx.call = "launchpad"
      BY <1>1 DEF CreatedFinal
    <2>2. FinalAt(tx)'
      BY <2>1, FinalStays
    <2> QED
      BY <2>1, <2>2 DEF CreatedFinal
  <1>2. /\ CreatedFinal("launchpadLib", release.receipts[1].nonce)' /\ CreatedFinal("launchpad", release.receipts[2].nonce)'
        /\ CreatedFinal("hook", release.receipts[3].nonce)' /\ CreatedFinal("router", release.receipts[4].nonce)'
    <2>1. /\ CreatedFinal("launchpadLib", release.receipts[1].nonce) /\ CreatedFinal("launchpad", release.receipts[2].nonce)
          /\ CreatedFinal("hook", release.receipts[3].nonce) /\ CreatedFinal("router", release.receipts[4].nonce)
      BY DEF ReleaseStands
    <2> QED
      BY <1>1, <2>1
  <1>3. PICK receipts : /\ ReceiptsOK(receipts, release.receipts) /\ Len(receipts) = Len(release.receipts)
                        /\ Ordered(receipts, release.deployBlock, release.readback.number)
                        /\ Listed(receipts)
    BY DEF ReleaseStands
  <1>4. ReceiptsOK(receipts, release.receipts)'
    BY <1>3, ReceiptsStay
  <1>5. release.sourceCommit \in DOMAIN history' /\ history'[release.sourceCommit] = Reviewed
    BY DEF ReleaseStands, HistoryKept
  <1>6. IsSeq(release.receipts) /\ Len(release.receipts) = Len(DeploySteps) + 4
    BY DEF ReleaseStands
  <1> QED
    BY <1>2, <1>3, <1>4, <1>5, <1>6 DEF ReleaseStands

\* The four contracts of a release were created under their labels.
LEMMA CreatedAsLabelled ==
  ASSUME ChainOK, SentOK, BlocksOK, NEW txs, Len(txs) \in Nat, Len(txs) >= 4,
         CreatedFinal("launchpadLib", txs[1].nonce), CreatedFinal("launchpad", txs[2].nonce),
         CreatedFinal("hook", txs[3].nonce), CreatedFinal("router", txs[4].nonce),
         \A i \in 1..Len(txs) : FinalAt(txs[i]) /\ txs[i].from = "deployer",
         CanonicalCreate2Address(txs[3]) = txs[3].nonce, txs[4].to = NoAddress
  PROVE  /\ txs[1].call = "launchpadLib" /\ txs[2].call = "launchpad" /\ txs[3].call = "hook" /\ txs[4].call = "router"
         /\ \A i \in 1..4 : txs[i].source = Reviewed
  <1>1. ASSUME NEW i \in 1..4, NEW c, CreatedFinal(c, txs[i].nonce)
        PROVE  /\ txs[i].call \in CreatedContracts /\ txs[i].source = Reviewed
               /\ c = "launchpadLib" <=> txs[i].call = "launchpadLib"
               /\ c = "launchpad" <=> txs[i].call = "launchpad"
    <2>1. PICK tx : /\ FinalAt(tx) /\ tx.from = "deployer" /\ tx.nonce = txs[i].nonce
                    /\ tx.call \in CreatedContracts /\ tx.source = Reviewed
                    /\ c = "launchpadLib" <=> tx.call = "launchpadLib"
                    /\ c = "launchpad" <=> tx.call = "launchpad"
      BY <1>1 DEF CreatedFinal
    <2>2. i \in 1..Len(txs)
      OBVIOUS
    <2>3. tx = sent[tx.nonce]
      BY <2>1, FinalIsSent
    <2>4. txs[i] = sent[txs[i].nonce]
      BY <2>2, FinalIsSent
    <2> QED
      BY <2>1, <2>3, <2>4
  <1>2. /\ txs[1].call = "launchpadLib" /\ txs[1].source = Reviewed
        /\ txs[2].call = "launchpad" /\ txs[2].source = Reviewed
    BY <1>1
  <1>3. txs[3].call = "hook" /\ txs[3].source = Reviewed
    <2>1. txs[3].call \in CreatedContracts /\ txs[3].source = Reviewed /\ txs[3].call # "launchpadLib"
      BY <1>1
    <2>2. txs[3].nonce \in 1..Len(sent)
      BY FinalIsSent
    <2>3. txs[3].nonce # 0
      BY <2>2
    <2> QED
      BY <2>1, <2>3 DEF CanonicalCreate2Address
  <1>4. txs[4].call = "router" /\ txs[4].source = Reviewed
    <2>1. /\ txs[4].call \in CreatedContracts /\ txs[4].source = Reviewed
          /\ txs[4].call # "launchpadLib" /\ txs[4].call # "launchpad"
      BY <1>1
    <2>2. txs[4].nonce \in 1..Len(sent) /\ txs[4] = sent[txs[4].nonce]
      BY FinalIsSent
    <2>3. txs[4].call = "hook" => txs[4].to = Create2Deployer
      BY <2>2 DEF SentOK
    <2> QED
      BY <2>1, <2>3 DEF CreatedContracts, NoAddress, Create2Deployer
  <1>5. ASSUME NEW i \in 1..4 PROVE txs[i].source = Reviewed
    <2>1. i = 1 \/ i = 2 \/ i = 3 \/ i = 4
      OBVIOUS
    <2> QED
      BY <2>1, <1>2, <1>3, <1>4
  <1> QED
    BY <1>2, <1>3, <1>4, <1>5

\* The labels of a release's receipts.
LEMMA ReleaseLabels ==
  LET labels == DeploySteps \o CanarySteps
  IN /\ Len(DeploySteps) = 5 + HouseBlueprints /\ HouseBlueprints \in Nat
     /\ labels[1] = "launchpadLib" /\ labels[2] = "launchpad" /\ labels[3] = "hook" /\ labels[4] = "router"
     /\ \A i \in 6..Len(DeploySteps) : labels[i] = "saveBlueprint"
     /\ \A k \in 1..4 : labels[Len(DeploySteps) + k] = CanarySteps[k]
  <1> DEFINE labels == DeploySteps \o CanarySteps
  <1>1. Len(DeploySteps) = 5 + HouseBlueprints /\ HouseBlueprints \in Nat
    BY LabelsAre, BlueprintAssumption
  <1>2. /\ \A i \in 1..Len(DeploySteps) : labels[i] = DeploySteps[i]
        /\ \A k \in 1..Len(CanarySteps) : labels[Len(DeploySteps) + k] = CanarySteps[k]
    <2>1. PICK s, t : s = DeploySteps /\ t = CanarySteps
      OBVIOUS
    <2>2. IsSeq(s) /\ IsSeq(t)
      BY <2>1, LabelsAre, CanaryLabels
    <2>3. /\ \A i \in 1..Len(s) : (s \o t)[i] = s[i]
          /\ \A i \in 1..Len(t) : (s \o t)[Len(s) + i] = t[i]
      BY <2>2, JoinIsSeq
    <2> QED
      BY <2>1, <2>3
  <1>3. 1..4 = 1..Len(CanarySteps)
    BY CanaryLabels
  <1> HIDE DEF labels
  <1>4. \A i \in 1..4 : labels[i] = DeploySteps[i]
    BY <1>1, <1>2
  <1>5. \A i \in 6..Len(DeploySteps) : labels[i] = DeploySteps[i]
    BY <1>1, <1>2
  <1>6. labels[1] = "launchpadLib" /\ labels[2] = "launchpad" /\ labels[3] = "hook" /\ labels[4] = "router"
    BY <1>4, LabelsAre
  <1>7. \A i \in 6..Len(DeploySteps) : labels[i] = "saveBlueprint"
    BY <1>5, LabelsAre
  <1>8. \A k \in 1..4 : labels[Len(DeploySteps) + k] = CanarySteps[k]
    BY <1>2, <1>3
  <1> QED
    BY <1>1, <1>6, <1>7, <1>8 DEF labels

\* What the promoter writes stands.
LEMMA WrittenStands ==
  ASSUME ChainOK, SentOK, BlocksOK, RunOK(run), PromoterOK(run), run.script = "promote", run.stage = "write", ~run.dry
  PROVE  ReleaseStands(ReleaseRecord)
  <1>1. /\ Artifacts(run) /\ Attributed(run) /\ Headed(run) /\ Pinned(run) /\ Built(run) /\ Received(run) /\ Canaried(run)
        /\ Published(run.stateHead)
    BY DEF PromoterOK, RunOK
  <1>2. PICK txs, receipts, D : txs = ReleaseOf(run) /\ receipts = run.receipts /\ D = Len(DeploySteps)
    OBVIOUS
  <1>3. D = 5 + HouseBlueprints /\ HouseBlueprints \in Nat /\ Launch = D + 1 /\ Buy = D + 2 /\ Approval = D + 3 /\ Sell = D + 4
    BY <1>2, ReleaseLabels DEF Launch, Buy, Approval, Sell
  <1>4. /\ IsSeq(txs) /\ Len(txs) = D + 4
        /\ \A i \in 1..D : txs[i] = run.deploy.txs[i]
    <2>1. PICK s, t : s = run.deploy.txs /\ t = run.canary.txs
      OBVIOUS
    <2>2. IsSeq(s) /\ IsSeq(t) /\ Len(s) = D /\ Len(t) = 4
      BY <1>1, <1>2, <2>1, CanaryLabels DEF Artifacts
    <2>3. /\ IsSeq(s \o t) /\ Len(s \o t) = Len(s) + Len(t)
          /\ \A i \in 1..Len(s) : (s \o t)[i] = s[i]
      BY <2>2, JoinIsSeq
    <2> QED
      BY <1>2, <2>1, <2>2, <2>3 DEF ReleaseOf
  <1>5. txs[1] = run.deploy.txs[1] /\ txs[2] = run.deploy.txs[2] /\ txs[3] = run.deploy.txs[3] /\ txs[4] = run.deploy.txs[4]
    BY <1>3, <1>4
  <1>6. /\ ReleaseRecord.receipts = txs /\ ReleaseRecord.sourceCommit = run.deploy.commit
        /\ ReleaseRecord.deployBlock = run.deploy.blocks[Launchpad].number /\ ReleaseRecord.readback = run.stateHead
    BY <1>2 DEF ReleaseRecord, ReleaseTransactions, ReleaseOf
  <1>7. /\ IsSeq(receipts) /\ Len(receipts) = D + 4 /\ ReceiptsOK(receipts, txs)
        /\ Ordered(receipts, run.deploy.blocks[Launchpad].number, run.receiptHead.number)
    BY <1>1, <1>2, <1>4 DEF Received
  <1>8. DOMAIN receipts = 1..D + 4
    BY <1>4, <1>7 DEF ReceiptsOK
  <1>9. \A i \in 1..D + 4 : receipts[i].tx = txs[i] /\ FinalAt(txs[i]) /\ txs[i].from = "deployer"
    BY <1>4, <1>7 DEF ReceiptsOK
  <1>10. /\ CreatedFinal("launchpadLib", txs[1].nonce) /\ CreatedFinal("launchpad", txs[2].nonce)
         /\ CreatedFinal("hook", txs[3].nonce) /\ CreatedFinal("router", txs[4].nonce)
    <2>1. ViewOK(run.view, run.stateHead)
      BY <1>1 DEF Pinned
    <2>2. ASSUME NEW c, NEW address, CreatedIn(run.view, c, address) PROVE CreatedFinal(c, address)
      BY <1>1, <2>1, <2>2, CreatedIsFinal
    <2>3. /\ CreatedIn(run.view, "launchpadLib", txs[1].nonce) /\ CreatedIn(run.view, "launchpad", txs[2].nonce)
          /\ CreatedIn(run.view, "hook", txs[3].nonce) /\ CreatedIn(run.view, "router", txs[4].nonce)
      BY <1>1, <1>5 DEF Built
    <2> QED
      BY <2>2, <2>3
  <1>11. /\ CanonicalCreate2Address(txs[3]) = txs[3].nonce /\ txs[4].to = NoAddress
    <2>1. receipts[3].tx = txs[3] /\ receipts[4].tx = txs[4]
      BY <1>3, <1>9
    <2> QED
      BY <1>7, <2>1 DEF Ordered
  <1>12. txs[1].call = "launchpadLib" /\ txs[2].call = "launchpad" /\ txs[3].call = "hook" /\ txs[4].call = "router"
    <2>1. Len(txs) \in Nat /\ Len(txs) >= 4 /\ \A i \in 1..Len(txs) : FinalAt(txs[i]) /\ txs[i].from = "deployer"
      BY <1>3, <1>4, <1>9
    <2> QED
      BY <1>10, <1>11, <2>1, CreatedAsLabelled
  <1>13. /\ \A id \in 1..HouseBlueprints : receipts[FirstBlueprint + id - 1].tx.call = "saveBlueprint"
         /\ CanaryRoundTrip(receipts, run.deploy.txs[Launchpad].nonce, run.deploy.txs[4].nonce)
    BY <1>1, <1>2 DEF Canaried
  <1>14. Listed(receipts)
    <2>1. ASSUME NEW i \in 1..D + 4, i # 5 PROVE receipts[i].tx.call = (DeploySteps \o CanarySteps)[i]
      <3>1. i \in {1, 2, 3, 4} \/ i \in 6..D \/ i \in Launch..Sell
        BY <1>3, <2>1
      <3>2. CASE i \in {1, 2, 3, 4}
        BY <1>9, <1>12, <3>2, ReleaseLabels
      <3>3. CASE i \in 6..D
        <4>1. i - 5 \in 1..HouseBlueprints /\ FirstBlueprint + (i - 5) - 1 = i
          BY <1>3, <3>3 DEF FirstBlueprint
        <4>2. receipts[i].tx.call = "saveBlueprint"
          BY <1>13, <4>1
        <4> QED
          BY <1>2, <3>3, <4>2, ReleaseLabels
      <3>4. CASE i \in Launch..Sell
        <4>1. receipts[i].tx.call = CanarySteps[i - Launch + 1]
          BY <1>13, <3>4 DEF CanaryRoundTrip
        <4>2. PICK k \in 1..4 : k = i - Launch + 1 /\ i = D + k
          BY <1>3, <3>4
        <4>3. (DeploySteps \o CanarySteps)[D + k] = CanarySteps[k]
          BY <1>2, ReleaseLabels
        <4> QED
          BY <4>1, <4>2, <4>3
      <3> QED
        BY <3>1, <3>2, <3>3, <3>4
    <2>2. Launch \in 1..D + 4 /\ txs[Launch].call = "launchInstantWithIntent"
      <3>1. Launch \in 1..D + 4 /\ Launch \in Launch..Sell /\ Launch - Launch + 1 = 1
        BY <1>3
      <3>2. receipts[Launch].tx.call = CanarySteps[Launch - Launch + 1]
        BY <1>13, <3>1 DEF CanaryRoundTrip
      <3> QED
        BY <1>9, <3>1, <3>2, CanaryLabels
    <2>3. receipts[Launch].event = receipts[Launch].tx.nonce
      <3>1. Launch \in 1..Len(txs)
        BY <1>4, <2>2
      <3> QED
        BY <1>7, <2>2, <3>1 DEF ReceiptsOK
    <2>4. /\ receipts[Buy].tx.args = <<receipts[Launch].event, "spec">> /\ receipts[Buy].event = 1
          /\ receipts[Sell].tx.args = <<receipts[Launch].event, "spec">>
      BY <1>13 DEF CanaryRoundTrip
    <2>5. receipts[Buy].tx.args[1] = receipts[Launch].event /\ receipts[Sell].tx.args[1] = receipts[Launch].event
      BY <2>4
    <2>6. \A i \in DOMAIN receipts : i # 5 => receipts[i].tx.call = (DeploySteps \o CanarySteps)[i]
      BY <1>8, <2>1
    <2> QED
      BY <2>3, <2>4, <2>5, <2>6 DEF Listed
  <1>15. Ordered(receipts, run.deploy.blocks[Launchpad].number, run.stateHead.number)
    <2>1. run.receiptHead.number \in Int /\ run.receiptHead.number <= run.stateHead.number /\ run.stateHead.number \in Int
      BY <1>1 DEF Headed, Pinned, ViewOK, ChainOK
    <2>2. ASSUME NEW i \in 1..D + 4 PROVE receipts[i].blockNumber <= run.stateHead.number
      <3>1. i \in 1..Len(txs) /\ txs[i] \in Mined(chain)
        BY <1>4, <1>9, FinalIsMined
      <3>2. receipts[i].blockNumber = HeightOf(chain, txs[i])
        BY <1>7, <3>1, ReceiptFields DEF ReceiptsOK
      <3>3. HeightOf(chain, txs[i]) \in Nat
        <4>1. DOMAIN chain = 1..Len(chain) /\ Len(chain) \in Nat
          BY LenProperties DEF ChainOK, IsSeq
        <4>2. HeightOf(chain, txs[i]) \in 1..Len(chain)
          BY <3>1, <4>1, HeightHolds
        <4> QED
          BY <4>2
      <3>4. receipts[i].blockNumber <= run.receiptHead.number
        BY <1>7, <1>8 DEF Ordered
      <3> QED
        BY <2>1, <3>2, <3>3, <3>4
    <2>3. \A i \in DOMAIN receipts : receipts[i].blockNumber <= run.stateHead.number
      BY <1>8, <2>2
    <2> QED
      BY <1>7, <2>3 DEF Ordered
  <1>16. run.deploy.commit \in DOMAIN history /\ history[run.deploy.commit] = Reviewed
    BY <1>1 DEF Attributed, Built
  <1> QED
    BY <1>2, <1>4, <1>6, <1>7, <1>10, <1>14, <1>15, <1>16 DEF ReleaseStands

-----------------------------------------------------------------------------
(* What the preflight knows at each stage.  Only one whose endpoint is the     *)
(* chain's matters: a rehearsal never passes.                                  *)

\* The heads it has seen are known from these fields.
LEMMA HeadsKept ==
  ASSUME NEW q, NEW r
  PROVE  /\ Same(q, r, {"receiptHead"}) /\ Headed(q) => Headed(r) /\ r.receiptHead = q.receiptHead
         /\ Same(q, r, {"receiptHead", "stateHead", "view"}) /\ Headed(q) /\ Pinned(q) =>
              Pinned(r) /\ r.view = q.view /\ r.stateHead = q.stateHead
  <1>1. Same(q, r, {"receiptHead"}) /\ Headed(q) => Headed(r) /\ r.receiptHead = q.receiptHead
    BY DEF Same, Headed
  <1>2. Same(q, r, {"receiptHead", "stateHead", "view"}) /\ Headed(q) /\ Pinned(q) =>
          Pinned(r) /\ r.view = q.view /\ r.stateHead = q.stateHead
    <2> HAVE Same(q, r, {"receiptHead", "stateHead", "view"}) /\ Headed(q) /\ Pinned(q)
    <2>1. /\ {"stateHead", "view"} \subseteq DOMAIN r
          /\ r["receiptHead"] = q["receiptHead"] /\ r["stateHead"] = q["stateHead"] /\ r["view"] = q["view"]
      BY DEF Same, Headed, Pinned
    <2> QED
      BY <2>1 DEF Pinned
  <1> QED
    BY <1>1, <1>2

\* The transactions are what the preflight asks of a deployment's.
Targeted(txs) ==
  /\ CanonicalCreate2Address(txs[3]) = txs[3].nonce /\ txs[4].to = NoAddress
  /\ txs[5].call = "setHook" /\ txs[5].to = txs[Launchpad].nonce /\ txs[5].args = <<txs[3].nonce>>

Bound(r) ==
  /\ "receipts" \in DOMAIN r
  /\ ReceiptsOK(r.receipts, r.deploy.txs) /\ Targeted(r.deploy.txs)

Numbered(r) ==
  /\ CreatedIn(r.view, "launchpadLib", r.deploy.txs[1].nonce) /\ CreatedIn(r.view, "launchpad", r.deploy.txs[2].nonce)
  /\ CreatedIn(r.view, "hook", r.deploy.txs[3].nonce) /\ CreatedIn(r.view, "router", r.deploy.txs[4].nonce)
  /\ \A id \in 1..HouseBlueprints :
       r.receipts[FirstBlueprint + id - 1].tx.call = "saveBlueprint" /\ r.receipts[FirstBlueprint + id - 1].event = id

\* What the canary's script may rely on once the preflight has passed.
DeploymentStands(txs) ==
  /\ \A i \in 1..Len(txs) : FinalAt(txs[i]) /\ ~txs[i].fails /\ txs[i].from = "deployer"
  /\ \A id \in 1..HouseBlueprints : BlueprintId(chain, txs[FirstBlueprint + id - 1]) = id
  /\ \A i \in 1..4 : txs[i].source = Reviewed
  /\ Targeted(txs)

\* It is about the deployment there is, and knows more from stage to stage.
PreflightOK(r) ==
  r.script = "preflight" =>
    /\ deployRun # NoRun
    /\ r.stage = "passed" => DeploymentStands(deployRun.txs)
    /\ r.stage \notin {"passed", "rehearsed"} =>
         /\ {"remote", "deploy"} \subseteq DOMAIN r /\ r.deploy.txs = deployRun.txs
         /\ r.remote =>
              /\ r.stage # "receiptHead" => Headed(r)
              /\ r.stage \notin {"receiptHead", "stateHead"} => Pinned(r)
              /\ r.stage \in {"state", "recheck"} => Bound(r)
              /\ r.stage = "recheck" => Numbered(r)

\* No preflight is known of when none runs.
LEMMA NoPreflightKnows == ASSUME NEW r, r.script # "preflight" PROVE PreflightOK(r)
  BY DEF PreflightOK

\* What it has read stays with it, beside what it reads.
LEMMA PreflightReaches ==
  ASSUME RunOK(run), PreflightOK(run), run.script = "preflight", run.stage \notin {"passed", "rehearsed"},
         NEW to, NEW facts, DOMAIN facts \cap {"script", "stage", "remote", "deploy"} = {}
  PROVE  LET r == Reached(to, facts)
         IN /\ r.script = "preflight" /\ r.stage = to
            /\ {"remote", "deploy"} \subseteq DOMAIN r /\ r.remote = run.remote /\ r.deploy = run.deploy
            /\ \A x \in DOMAIN facts : x \in DOMAIN r /\ r[x] = facts[x]
            /\ "receiptHead" \notin DOMAIN facts /\ Headed(run) => Headed(r) /\ r.receiptHead = run.receiptHead
            /\ DOMAIN facts \cap {"receiptHead", "stateHead", "view"} = {} /\ Headed(run) /\ Pinned(run) => Pinned(r)
  <1>1. PICK r : r = Reached(to, facts)
    OBVIOUS
  <1>2. ASSUME NEW fields, "stage" \notin fields, DOMAIN facts \cap fields = {}
        PROVE  r.stage = to /\ r.script = run.script /\ Same(run, r, fields)
               /\ \A x \in DOMAIN facts : x \in DOMAIN r /\ r[x] = facts[x]
    <2>1. "script" \notin DOMAIN facts /\ "stage" \notin DOMAIN facts
      OBVIOUS
    <2> QED
      BY <1>1, <1>2, <2>1, ReachesSame
  <1>3. /\ Same(run, r, {"remote", "deploy"})
        /\ r.stage = to /\ r.script = run.script
        /\ \A x \in DOMAIN facts : x \in DOMAIN r /\ r[x] = facts[x]
    <2>1. "stage" \notin {"remote", "deploy"} /\ DOMAIN facts \cap {"remote", "deploy"} = {}
      OBVIOUS
    <2> QED
      BY <1>2, <2>1
  <1>4. "receiptHead" \notin DOMAIN facts => Same(run, r, {"receiptHead"})
    BY <1>2
  <1>5. DOMAIN facts \cap {"receiptHead", "stateHead", "view"} = {} => Same(run, r, {"receiptHead", "stateHead", "view"})
    BY <1>2
  <1>6. {"remote", "deploy"} \subseteq DOMAIN run
    BY DEF PreflightOK
  <1>7. {"remote", "deploy"} \subseteq DOMAIN r /\ r["remote"] = run["remote"] /\ r["deploy"] = run["deploy"]
    BY <1>3, <1>6 DEF Same
  <1> QED
    BY <1>1, <1>3, <1>4, <1>5, <1>7, HeadsKept

\* Its first three steps.
LEMMA PreflightHeadsKnow ==
  ASSUME ChainOK, BlocksOK, RunOK(run), PreflightOK(run),
         (\E rehearsal, remote \in BOOLEAN : StartPreflight(rehearsal, remote)) \/ PreflightReceiptHead \/ PreflightStateHead
  PROVE  PreflightOK(run')
  <1>1. CASE \E rehearsal, remote \in BOOLEAN : StartPreflight(rehearsal, remote)
    <2>1. PICK remote : /\ deployRun.blocks # <<>>
                        /\ run' = [script |-> "preflight", stage |-> "receiptHead", remote |-> remote,
                                   deploy |-> deployRun, built |-> out]
      BY <1>1 DEF StartPreflight
    <2>2. deployRun # NoRun
      BY <2>1 DEF NoRun
    <2> QED
      BY <2>1, <2>2 DEF PreflightOK
  <1>2. CASE PreflightReceiptHead
    <2>1. run.script = "preflight" /\ run.stage = "receiptHead"
      BY <1>2 DEF PreflightReceiptHead, In
    <2>2. PICK n : n = (IF run.remote THEN final ELSE Latest) /\ run' = Reached("stateHead", [receiptHead |-> Header(n)])
      BY <1>2 DEF PreflightReceiptHead
    <2>3. PICK facts : facts = [receiptHead |-> Header(n)]
      OBVIOUS
    <2>4. /\ DOMAIN facts \cap {"script", "stage", "remote", "deploy"} = {}
          /\ "receiptHead" \in DOMAIN facts /\ facts["receiptHead"] = Header(n)
      BY <2>3
    <2>5. PICK r : r = Reached("stateHead", facts)
      OBVIOUS
    <2>6. /\ r.script = "preflight" /\ r.stage = "stateHead"
          /\ {"remote", "deploy"} \subseteq DOMAIN r /\ r.remote = run.remote /\ r.deploy = run.deploy
          /\ \A x \in DOMAIN facts : x \in DOMAIN r /\ r[x] = facts[x]
      BY <2>1, <2>4, <2>5, PreflightReaches
    <2>7. r.remote => Headed(r)
      <3> HAVE r.remote
      <3>1. n = final /\ final \in Nat \ {0}
        BY <2>2, <2>6 DEF ChainOK
      <3>2. r["receiptHead"] = Header(final) /\ "receiptHead" \in DOMAIN r
        BY <2>4, <2>6, <3>1
      <3>3. Header(final).number = final
        BY DEF Header
      <3> QED
        BY <3>1, <3>2, <3>3 DEF Headed
    <2>8. PreflightOK(r)
      BY <2>1, <2>6, <2>7 DEF PreflightOK
    <2> QED
      BY <2>2, <2>3, <2>5, <2>8
  <1>3. CASE PreflightStateHead
    <2>1. run.script = "preflight" /\ run.stage = "stateHead" /\ (run.remote => Headed(run))
      BY <1>3 DEF PreflightStateHead, In, PreflightOK
    <2>2. PICK n : /\ n = IF run.remote THEN safe ELSE Latest
                   /\ \/ run' = Idle
                      \/ /\ run' = Reached("receipts", [stateHead |-> Header(n), view |-> ChainThrough(n)])
                         /\ run.remote => AssertStateEvidenceAfterFinality(run.receiptHead, Header(n))
      BY <1>3, Proceeds DEF PreflightStateHead
    <2>3. PICK facts : facts = [stateHead |-> Header(n), view |-> ChainThrough(n)]
      OBVIOUS
    <2>4. /\ DOMAIN facts \cap {"script", "stage", "remote", "deploy"} = {}
          /\ "receiptHead" \notin DOMAIN facts
          /\ "stateHead" \in DOMAIN facts /\ facts["stateHead"] = Header(n)
          /\ "view" \in DOMAIN facts /\ facts["view"] = ChainThrough(n)
      BY <2>3
    <2>5. PICK r : r = Reached("receipts", facts)
      OBVIOUS
    <2>6. /\ r.script = "preflight" /\ r.stage = "receipts"
          /\ {"remote", "deploy"} \subseteq DOMAIN r /\ r.remote = run.remote /\ r.deploy = run.deploy
          /\ \A x \in DOMAIN facts : x \in DOMAIN r /\ r[x] = facts[x]
          /\ "receiptHead" \notin DOMAIN facts /\ Headed(run) => Headed(r) /\ r.receiptHead = run.receiptHead
      BY <2>1, <2>4, <2>5, PreflightReaches
    <2>7. CASE run' = Idle
      BY <2>7, NoPreflightKnows DEF Idle
    <2>8. CASE run' = r /\ (run.remote => AssertStateEvidenceAfterFinality(run.receiptHead, Header(n)))
      <3>1. r.remote => Headed(r) /\ Pinned(r)
        <4> HAVE r.remote
        <4>1. run.remote /\ Headed(run) /\ n = safe
          BY <2>1, <2>2, <2>6
        <4>2. n \in 1..Len(chain)
          BY <4>1, LenProperties DEF ChainOK, IsSeq
        <4>3. ViewOK(ChainThrough(n), Header(n))
          BY <4>2, PinsView
        <4>4. r["stateHead"] = Header(n) /\ r["view"] = ChainThrough(n) /\ {"stateHead", "view"} \subseteq DOMAIN r
          BY <2>4, <2>6
        <4>5. run.receiptHead.number \in 1..final /\ Header(n).number >= run.receiptHead.number
          BY <2>8, <4>1 DEF AssertStateEvidenceAfterFinality, Headed
        <4>6. run.receiptHead.number <= Header(n).number /\ r.receiptHead = run.receiptHead /\ Headed(r)
          BY <2>4, <2>6, <4>1, <4>2, <4>5 DEF Header, ChainOK
        <4> QED
          BY <4>3, <4>4, <4>6 DEF Pinned
      <3>2. PreflightOK(r)
        BY <2>1, <2>6, <3>1 DEF PreflightOK
      <3> QED
        BY <2>8, <3>2
    <2> QED
      BY <2>2, <2>3, <2>5, <2>7, <2>8
  <1> QED
    BY <1>1, <1>2, <1>3

\* The receipts it passes are final, and of the calls it asks for.
LEMMA PreflightReceiptsKnow ==
  ASSUME ChainOK, SentOK, BlocksOK, DeployOK, RunOK(run), PreflightOK(run), PreflightReceipts
  PROVE  PreflightOK(run')
  <1>1. run.script = "preflight" /\ run.stage = "receipts"
    BY DEF PreflightReceipts, In
  <1>2. /\ deployRun # NoRun /\ {"remote", "deploy"} \subseteq DOMAIN run /\ run.deploy.txs = deployRun.txs
        /\ run.remote => Headed(run) /\ Pinned(run)
    BY <1>1 DEF PreflightOK
  <1>3. PICK receipts :
          /\ receipts = IF Found(run.deploy.txs) THEN ReceiptsOf(run.deploy.txs) ELSE <<>>
          /\ \/ run' = Idle
             \/ /\ run' = Reached("state", [receipts |-> receipts])
                /\ run.remote => receipts # <<>> /\ PreflightReceiptsHold(receipts) /\ PreflightTargetsHold(run.deploy.txs)
    <2>1. PICK receipts \in {IF Found(run.deploy.txs) THEN ReceiptsOf(run.deploy.txs) ELSE <<>>} :
            \E ok \in Verdicts(run.remote, receipts # <<>> /\ PreflightReceiptsHold(receipts) /\ PreflightTargetsHold(run.deploy.txs)) :
              run' = IF ok THEN Reached("state", [receipts |-> receipts]) ELSE Idle
      BY DEF PreflightReceipts, Proceed
    <2> QED
      BY <2>1 DEF Verdicts
  <1>4. PICK facts : facts = [receipts |-> receipts]
    OBVIOUS
  <1>5. /\ DOMAIN facts \cap {"script", "stage", "remote", "deploy"} = {}
        /\ "receiptHead" \notin DOMAIN facts /\ DOMAIN facts \cap {"receiptHead", "stateHead", "view"} = {}
        /\ "receipts" \in DOMAIN facts /\ facts["receipts"] = receipts
    BY <1>4
  <1>6. PICK r : r = Reached("state", facts)
    OBVIOUS
  <1>7. /\ r.script = "preflight" /\ r.stage = "state"
        /\ {"remote", "deploy"} \subseteq DOMAIN r /\ r.remote = run.remote /\ r.deploy = run.deploy
        /\ \A x \in DOMAIN facts : x \in DOMAIN r /\ r[x] = facts[x]
        /\ "receiptHead" \notin DOMAIN facts /\ Headed(run) => Headed(r) /\ r.receiptHead = run.receiptHead
        /\ DOMAIN facts \cap {"receiptHead", "stateHead", "view"} = {} /\ Headed(run) /\ Pinned(run) => Pinned(r)
    BY <1>1, <1>5, <1>6, PreflightReaches
  <1>8. CASE run' = Idle
    BY <1>8, NoPreflightKnows DEF Idle
  <1>9. CASE /\ run' = r
             /\ run.remote => receipts # <<>> /\ PreflightReceiptsHold(receipts) /\ PreflightTargetsHold(run.deploy.txs)
    <2>1. r.remote => Bound(r)
      <3> HAVE r.remote
      <3>1. receipts # <<>> /\ PreflightReceiptsHold(receipts) /\ PreflightTargetsHold(run.deploy.txs) /\ Headed(run)
        BY <1>2, <1>7, <1>9
      <3>2. PICK txs : txs = run.deploy.txs
        OBVIOUS
      <3>3. IsSeq(txs) /\ Found(txs) /\ receipts = ReceiptsOf(txs)
        BY <1>2, <1>3, <3>1, <3>2 DEF DeployOK
      <3>4. \A i \in DOMAIN receipts :
              ~receipts[i].tx.fails /\ receipts[i].tx.from = "deployer" /\ receipts[i].blockNumber <= run.receiptHead.number
        BY <3>1 DEF PreflightReceiptsHold, AssertReceiptsWithinEvidenceBlock
      <3>5. run.receiptHead.number \in Int /\ run.receiptHead.number <= final
        BY <3>1 DEF Headed, ChainOK
      <3>6. ReceiptsOK(receipts, txs)
        BY <3>3, <3>4, <3>5, ReceiptsTaken
      <3>7. Targeted(txs)
        <4>1. CanonicalCreate2Address(txs[3]) = txs[3].nonce /\ txs[4].to = NoAddress
          BY <3>1, <3>2 DEF PreflightTargetsHold
        <4>2. txs[5].call = "setHook" /\ txs[5].args = <<txs[3].nonce>>
          BY <3>1, <3>2 DEF PreflightTargetsHold
        <4>3. 5 \in 5..Len(txs)
          BY <1>2, <3>2, LabelsAre, BlueprintAssumption DEF DeployOK
        <4>4. txs[5].to = txs[Launchpad].nonce
          BY <3>1, <3>2, <4>3 DEF PreflightTargetsHold
        <4> QED
          BY <4>1, <4>2, <4>4 DEF Targeted
      <3>8. "receipts" \in DOMAIN r /\ r["receipts"] = receipts
        BY <1>5, <1>7
      <3> QED
        BY <1>7, <3>2, <3>6, <3>7, <3>8 DEF Bound
    <2>2. PreflightOK(r)
      BY <1>2, <1>5, <1>7, <2>1 DEF PreflightOK
    <2> QED
      BY <1>9, <2>2
  <1> QED
    BY <1>3, <1>4, <1>6, <1>8, <1>9

\* The state it passes is that of reviewed contracts and of the blueprints' numbers.
LEMMA PreflightStateKnows ==
  ASSUME RunOK(run), PreflightOK(run), PreflightState
  PROVE  PreflightOK(run')
  <1>1. run.script = "preflight" /\ run.stage = "state"
    BY DEF PreflightState, In
  <1>2. /\ deployRun # NoRun /\ {"remote", "deploy"} \subseteq DOMAIN run /\ run.deploy.txs = deployRun.txs
        /\ run.remote => Headed(run) /\ Pinned(run) /\ Bound(run)
    BY <1>1 DEF PreflightOK
  <1>3. \/ run' = Idle
        \/ /\ run' = [run EXCEPT !.stage = "recheck"]
           /\ run.remote =>
                /\ ReviewedRuntimes(run.view, run.built, run.deploy.txs[1].nonce, run.deploy.txs[2].nonce,
                                    run.deploy.txs[3].nonce, run.deploy.txs[4].nonce)
                /\ ValidateHouseBlueprintEvidence(run.receipts, run.view, run.deploy.txs[2].nonce)
    BY Proceeds DEF PreflightState
  <1>4. CASE run' = Idle
    BY <1>4, NoPreflightKnows DEF Idle
  <1>5. CASE /\ run' = [run EXCEPT !.stage = "recheck"]
             /\ run.remote =>
                  /\ ReviewedRuntimes(run.view, run.built, run.deploy.txs[1].nonce, run.deploy.txs[2].nonce,
                                      run.deploy.txs[3].nonce, run.deploy.txs[4].nonce)
                  /\ ValidateHouseBlueprintEvidence(run.receipts, run.view, run.deploy.txs[2].nonce)
    <2>1. run.remote => Numbered(run)
      <3> HAVE run.remote
      <3>1. /\ CreatedIn(run.view, "launchpadLib", run.deploy.txs[1].nonce)
            /\ CreatedIn(run.view, "launchpad", run.deploy.txs[2].nonce)
            /\ CreatedIn(run.view, "hook", run.deploy.txs[3].nonce)
            /\ CreatedIn(run.view, "router", run.deploy.txs[4].nonce)
        BY <1>5, RuntimesReviewed
      <3>2. \A id \in 1..HouseBlueprints :
              /\ run.receipts[FirstBlueprint + id - 1].tx.call = "saveBlueprint"
              /\ run.receipts[FirstBlueprint + id - 1].event = id
        BY <1>5 DEF ValidateHouseBlueprintEvidence, HouseBlueprintEvidence
      <3> QED
        BY <3>1, <3>2 DEF Numbered
    <2>2. PICK r : r = [run EXCEPT !.stage = "recheck"]
      OBVIOUS
    <2>3. ASSUME NEW fields, "stage" \notin fields PROVE r.stage = "recheck" /\ r.script = run.script /\ Same(run, r, fields)
      BY <2>2, <2>3, MovesSame
    <2>4. /\ Same(run, r, {"remote", "deploy", "receipts", "view"}) /\ Same(run, r, {"receiptHead"})
          /\ Same(run, r, {"receiptHead", "stateHead", "view"})
          /\ r.stage = "recheck" /\ r.script = "preflight"
      BY <1>1, <2>3
    <2>5. {"remote", "deploy"} \subseteq DOMAIN r /\ r["remote"] = run["remote"] /\ r["deploy"] = run["deploy"]
      BY <1>2, <2>4 DEF Same
    <2>6. r.remote => Headed(r) /\ Pinned(r) /\ Bound(r) /\ Numbered(r)
      <3> HAVE r.remote
      <3>1. Headed(run) /\ Pinned(run) /\ Bound(run) /\ Numbered(run)
        BY <1>2, <2>1, <2>5
      <3>2. /\ "receipts" \in DOMAIN r /\ r["receipts"] = run["receipts"] /\ r["view"] = run["view"]
        BY <2>4, <3>1 DEF Same, Bound, Pinned
      <3>3. Headed(r) /\ Pinned(r)
        BY <2>4, <3>1, HeadsKept
      <3>4. Bound(r)
        BY <2>5, <3>1, <3>2 DEF Bound
      <3>5. Numbered(r)
        BY <2>5, <3>1, <3>2 DEF Numbered
      <3> QED
        BY <3>3, <3>4, <3>5
    <2>7. PreflightOK(r)
      BY <1>2, <2>4, <2>5, <2>6 DEF PreflightOK
    <2> QED
      BY <1>5, <2>2, <2>7
  <1> QED
    BY <1>3, <1>4, <1>5

\* When the block it read is still the chain's, so is what it read there.
LEMMA RecheckKnows ==
  ASSUME ChainOK, SentOK, BlocksOK, DeployOK, RunOK(run), PreflightOK(run), PreflightRecheck
  PROVE  PreflightOK(run')
  <1>1. run.script = "preflight" /\ run.stage = "recheck"
    BY DEF PreflightRecheck, In
  <1>2. /\ deployRun # NoRun /\ {"remote", "deploy"} \subseteq DOMAIN run /\ run.deploy.txs = deployRun.txs
        /\ run.remote => Pinned(run) /\ Bound(run) /\ Numbered(run)
    BY <1>1 DEF PreflightOK
  <1>3. \/ run' = Idle
        \/ /\ run' = [script |-> "preflight", stage |-> IF run.remote THEN "passed" ELSE "rehearsed"]
           /\ run.remote => run.stateHead.number <= Latest /\ Header(run.stateHead.number) = run.stateHead
    BY DEF PreflightRecheck, Proceed, Verdicts
  <1>4. CASE run' = Idle
    BY <1>4, NoPreflightKnows DEF Idle
  <1>5. CASE /\ run' = [script |-> "preflight", stage |-> IF run.remote THEN "passed" ELSE "rehearsed"]
             /\ run.remote => run.stateHead.number <= Latest /\ Header(run.stateHead.number) = run.stateHead
    <2>1. run.remote => DeploymentStands(deployRun.txs)
      <3> HAVE run.remote
      <3>1. PICK txs, h, view, receipts :
              txs = deployRun.txs /\ h = run.stateHead /\ view = run.view /\ receipts = run.receipts
        OBVIOUS
      <3>2. Len(txs) = 5 + HouseBlueprints /\ HouseBlueprints \in Nat
        BY <1>2, <3>1, LabelsAre, BlueprintAssumption DEF DeployOK
      <3>3. h.number <= Len(chain) /\ chain[h.number].hash = h.hash /\ ViewOK(view, h)
        BY <1>2, <1>5, <3>1 DEF Latest, Header, Pinned
      <3>4. Len(chain) \in Nat /\ h.number \in 1..Len(chain) /\ DOMAIN view = 1..h.number /\ DOMAIN chain = 1..Len(chain)
        BY <3>3, LenProperties DEF ChainOK, IsSeq, ViewOK
      <3>5. \A j \in 1..h.number : chain[j] = view[j]
        BY <3>3, <3>4 DEF ViewOK
      <3>6. ReceiptsOK(receipts, txs) /\ Targeted(txs)
        BY <1>2, <3>1 DEF Bound
      <3>7. \A i \in 1..Len(txs) : FinalAt(txs[i]) /\ ~txs[i].fails /\ txs[i].from = "deployer" /\ receipts[i].tx = txs[i]
        BY <3>6 DEF ReceiptsOK
      <3>8. ASSUME NEW i \in 1..4, NEW c, CreatedIn(view, c, txs[i].nonce) PROVE txs[i].source = Reviewed
        <4>1. PICK tx \in Mined(view) : tx.nonce = txs[i].nonce /\ tx.from = "deployer" /\ tx.source = Reviewed
          BY <3>8 DEF CreatedIn, Creation
        <4>2. PICK n \in 1..Len(chain) : tx \in ToSet(chain[n].txs)
          BY <3>4, <3>5 DEF Mined
        <4>3. tx = sent[tx.nonce]
          BY <4>1, <4>2, KnownByNonce
        <4>4. i \in 1..Len(txs)
          BY <3>2
        <4>5. txs[i] = sent[txs[i].nonce]
          BY <3>7, <4>4, FinalIsSent
        <4> QED
          BY <4>1, <4>3, <4>5
      <3>9. /\ CreatedIn(view, "launchpadLib", txs[1].nonce) /\ CreatedIn(view, "launchpad", txs[2].nonce)
            /\ CreatedIn(view, "hook", txs[3].nonce) /\ CreatedIn(view, "router", txs[4].nonce)
        BY <1>2, <3>1 DEF Numbered
      <3>10. txs[1].source = Reviewed /\ txs[2].source = Reviewed /\ txs[3].source = Reviewed /\ txs[4].source = Reviewed
        BY <3>8, <3>9
      <3>11. ASSUME NEW i \in 1..4 PROVE txs[i].source = Reviewed
        <4>1. i = 1 \/ i = 2 \/ i = 3 \/ i = 4
          OBVIOUS
        <4> QED
          BY <3>10, <4>1
      <3>12. ASSUME NEW id \in 1..HouseBlueprints PROVE BlueprintId(chain, txs[FirstBlueprint + id - 1]) = id
        <4>1. PICK i \in 1..Len(txs) : i = FirstBlueprint + id - 1
          BY <3>2 DEF FirstBlueprint
        <4>2. receipts[i].tx.call = "saveBlueprint" /\ receipts[i].event = id
          BY <1>2, <3>1, <4>1 DEF Numbered
        <4>3. receipts[i].event = BlueprintId(chain, txs[i])
          BY <3>6, <3>7, <4>2 DEF ReceiptsOK
        <4> QED
          BY <4>1, <4>2, <4>3
      <3> QED
        BY <3>1, <3>6, <3>7, <3>11, <3>12 DEF DeploymentStands
    <2> QED
      BY <1>2, <1>5, <2>1 DEF PreflightOK
  <1> QED
    BY <1>3, <1>4, <1>5

\* Every step of the preflight.
LEMMA PreflightKnows ==
  ASSUME ChainOK, SentOK, BlocksOK, DeployOK, RunOK(run), PreflightOK(run), PreflightNext
  PROVE  PreflightOK(run')
  <1>1. CASE (\E rehearsal, remote \in BOOLEAN : StartPreflight(rehearsal, remote)) \/ PreflightReceiptHead \/ PreflightStateHead
    BY <1>1, PreflightHeadsKnow
  <1>2. CASE PreflightReceipts
    BY <1>2, PreflightReceiptsKnow
  <1>3. CASE PreflightState
    BY <1>3, PreflightStateKnows
  <1>4. CASE PreflightRecheck
    BY <1>4, RecheckKnows
  <1>5. CASE PreflightEnds
    BY <1>5, NoPreflightKnows DEF PreflightEnds, Idle
  <1> QED
    BY <1>1, <1>2, <1>3, <1>4, <1>5 DEF PreflightNext

\* The deployment there is stays the one there was.
DeployKept == deployRun # NoRun => deployRun' # NoRun /\ deployRun'.txs = deployRun.txs

\* The preflight's knowledge stays true under the steps of others.
LEMMA PreflightStays ==
  ASSUME ChainOK, SentOK, BlocksOK, DeployOK, ChainStep, ChainOK', Extends, DeployKept, NEW r, PreflightOK(r)
  PROVE  PreflightOK(r)'
  <1>0. final \in Nat /\ final' \in Nat /\ final <= final'
    BY DEF ChainOK, Extends
  <1>1. Headed(r) => Headed(r)'
    BY <1>0 DEF Headed
  <1>2. Pinned(r) => Pinned(r)'
    <2> HAVE Pinned(r)
    <2>1. ViewOK(r.view, r.stateHead)
      BY DEF Pinned
    <2>2. ViewOK(r.view, r.stateHead)'
      BY <2>1, ViewKept
    <2> QED
      BY <2>2 DEF Pinned
  <1>3. Bound(r) => Bound(r)'
    <2> HAVE Bound(r)
    <2>1. ReceiptsOK(r.receipts, r.deploy.txs)
      BY DEF Bound
    <2>2. ReceiptsOK(r.receipts, r.deploy.txs)'
      BY <2>1, ReceiptsStay
    <2> QED
      BY <2>2 DEF Bound
  <1>4. Numbered(r) => Numbered(r)'
    BY DEF Numbered
  <1>5. ASSUME NEW txs, IsSeq(txs), Len(txs) = 5 + HouseBlueprints, DeploymentStands(txs) PROVE DeploymentStands(txs)'
    <2>1. ASSUME NEW i \in 1..Len(txs) PROVE FinalAt(txs[i])' /\ BlueprintId(chain', txs[i]) = BlueprintId(chain, txs[i])
      <3>1. FinalAt(txs[i])
        BY <1>5 DEF DeploymentStands
      <3> QED
        BY <3>1, FinalStays, BlueprintStays
    <2>2. ASSUME NEW id \in 1..HouseBlueprints PROVE BlueprintId(chain', txs[FirstBlueprint + id - 1]) = id
      <3>1. PICK i \in 1..Len(txs) : i = FirstBlueprint + id - 1
        BY <1>5, BlueprintAssumption DEF FirstBlueprint
      <3>2. BlueprintId(chain, txs[i]) = id
        BY <1>5, <3>1 DEF DeploymentStands
      <3> QED
        BY <2>1, <3>1, <3>2
    <2> QED
      BY <1>5, <2>1, <2>2 DEF DeploymentStands
  <1> QED
    BY <1>1, <1>2, <1>3, <1>4, <1>5, LabelsAre DEF PreflightOK, DeployKept, DeployOK

-----------------------------------------------------------------------------
(* The evidence.                                                              *)

\* PublishedReceiptsStand, PublishedSourceIsDeployed and CanaryOnFinalDeployment hold because
\* nonces and block hashes identify what was read, whatever the chain did in between; and
\* because every receipt was held against a finalized head before the write, or the signing.
EvidenceInvariant ==
  /\ ReleaseInvariant
  /\ SentOK /\ BlocksOK /\ DeployOK
  /\ IsSeq(canaryRun.txs) /\ IsSeq(history)
  /\ PromoterOK(run) /\ PreflightOK(run)
  /\ \A release \in Releases : ReleaseStands(release)

\* It holds at the start.
LEMMA EvidenceStarts == ReleaseInit => EvidenceInvariant
  <1> SUFFICES ASSUME ReleaseInit PROVE EvidenceInvariant
    OBVIOUS
  <1>1. ReleaseInvariant
    BY InvariantStarts
  <1>2. IsSeq(<<>>) /\ Len(<<>>) = 0
    <2>1. <<>> \in Seq({}) /\ Len(<<>>) = 0
      OBVIOUS
    <2> QED
      BY <2>1, SeqIsSeq
  <1>3. SentOK
    BY <1>2 DEF ReleaseInit, SentOK
  <1>4. BlocksOK
    <2> DEFINE block == [hash |-> <<1, 0>>, txs |-> <<>>, clock |-> 1]
    <2>1. chain = <<block>> /\ fork = 0 /\ block.hash[1] = 1 /\ block.hash[2] = 0 /\ block.txs = <<>>
      BY DEF ReleaseInit
    <2> HIDE DEF block
    <2>2. Len(chain) = 1 /\ chain[1] = block
      BY <2>1
    <2>3. ToSet(<<>>) = {}
      BY DEF ToSet
    <2> QED
      BY <2>1, <2>2, <2>3 DEF BlocksOK
  <1>5. DeployOK
    BY DEF ReleaseInit, DeployOK
  <1>6. IsSeq(canaryRun.txs)
    BY <1>2 DEF ReleaseInit, NoRun
  <1>7. IsSeq(history)
    <2>1. history = <<tree>> /\ <<tree>> \in Seq({tree})
      BY DEF ReleaseInit
    <2> QED
      BY <2>1, SeqIsSeq
  <1>8. PromoterOK(run) /\ PreflightOK(run)
    BY DEF ReleaseInit, Idle, PromoterOK, PreflightOK
  <1>9. Releases = {}
    <2> DEFINE old == Expanded(Promotes - 1, <<>>)
    <2>1. file.retained = <<old>> /\ file.current = Alias(Promotes - 1)
      BY DEF ReleaseInit
    <2>2. old.version = Promotes - 1 /\ Alias(Promotes - 1).form = "alias"
      BY DEF Expanded, Alias
    <2> HIDE DEF old
    <2>3. ToSet(<<old>>) = {old}
      <3>1. PICK t : t = <<old>>
        OBVIOUS
      <3>2. t \in Seq({old}) /\ Len(t) = 1 /\ t[1] = old
        BY <3>1
      <3>3. ToSet(t) = {t[i] : i \in 1..Len(t)}
        BY <3>2, SeqIsSeq
      <3> QED
        BY <3>1, <3>2, <3>3
    <2> QED
      BY <2>1, <2>2, <2>3, VersionAssumption DEF Releases
  <1> QED
    BY <1>1, <1>3, <1>4, <1>5, <1>6, <1>7, <1>8, <1>9 DEF EvidenceInvariant

\* What a step must do for it to stay.
LEMMA EvidenceKept ==
  ASSUME EvidenceInvariant, ReleaseInvariant', ChainStep,
         SentOK', ToSet(sent) \subseteq ToSet(sent'), DeployOK', DeployKept,
         IsSeq(canaryRun'.txs), IsSeq(history'), HistoryKept,
         PromoterOK(run'), PreflightOK(run'),
         \A m \in Records(file') : m \in Records(file) \/ ReleaseStands(m.release)
  PROVE  EvidenceInvariant'
  <1> USE DEF EvidenceInvariant
  <1>1. ChainOK /\ SentOK /\ BlocksOK
    BY DEF ReleaseInvariant
  <1>2. ChainOK' /\ Extends /\ BlocksOK'
    BY <1>1, BlocksKept
  <1>3. PICK r : r = run'
    OBVIOUS
  <1>4. PromoterOK(r) /\ PreflightOK(r)
    BY <1>3
  <1>5. PromoterOK(r)' /\ PreflightOK(r)'
    BY <1>1, <1>2, <1>4, KnowledgeStays, PreflightStays
  <1>6. (PromoterOK(run))'
    BY <1>3, <1>5 DEF PromoterOK, Artifacts, Attributed, Headed, Pinned, Received
  <1>7. (PreflightOK(run))'
    BY <1>3, <1>5 DEF PreflightOK, Headed, Pinned, Bound
  <1>8. (\A release \in Releases : ReleaseStands(release))'
    <2> SUFFICES ASSUME NEW release \in Releases' PROVE ReleaseStands(release)'
      OBVIOUS
    <2>1. PICK m \in Records(file') : m.version = Promotes /\ release = m.release
      BY DEF Releases, Records
    <2>2. m \in Records(file) => release \in Releases
      BY <2>1 DEF Releases, Records
    <2>3. ReleaseStands(release)
      BY <2>1, <2>2
    <2> QED
      BY <1>1, <1>2, <2>3, ReleaseGoesOn
  <1> QED
    BY <1>2, <1>6, <1>7, <1>8

\* A deployment, the only one.
LEMMA BroadcastKeeps ==
  ASSUME SentOK, BroadcastDeploy
  PROVE  SentOK' /\ ToSet(sent) \subseteq ToSet(sent') /\ DeployOK' /\ DeployKept /\ ChainStep
  <1>1. PICK txs : /\ txs = DeployTransactions(Len(sent) + 1, tree) /\ Send(txs)
                   /\ deployRun = NoRun /\ deployRun' = [commit |-> head, txs |-> txs, blocks |-> <<>>]
    BY DEF BroadcastDeploy
  <1>2. Len(sent) + 1 \in Nat /\ Len(sent) \in Nat
    BY LenProperties DEF SentOK, IsSeq
  <1>3. /\ IsSeq(txs) /\ Len(txs) = Len(DeploySteps)
        /\ \A k \in 1..Len(txs) :
             /\ txs[k].nonce = Len(sent) + 1 + k - 1 /\ txs[k].from = "deployer"
             /\ txs[k].call = "hook" => txs[k].to = Create2Deployer
             /\ txs[k].call = "setHook" => k = 5
    BY <1>1, <1>2, DeploymentIs
  <1>4. Len(txs) \in Nat /\ Len(txs) # 0
    BY <1>3, LabelsAre, BlueprintAssumption
  <1>5. deployRun' # NoRun
    <2>1. txs # <<>>
      BY <1>4
    <2>2. deployRun'.txs = txs /\ NoRun.txs = <<>>
      BY <1>1 DEF NoRun
    <2> QED
      BY <2>1, <2>2
  <1>6. \A k \in 1..Len(txs) :
          /\ txs[k].nonce = Len(sent) + k /\ txs[k].from = "deployer"
          /\ txs[k].call = "hook" => txs[k].to = Create2Deployer
          /\ txs[k].call = "setHook" => k = 5 /\ deployRun = NoRun
    BY <1>1, <1>2, <1>3, <1>4
  <1>7. SentOK' /\ ToSet(sent) \subseteq ToSet(sent')
    BY <1>1, <1>3, <1>5, <1>6, SendKeeps
  <1>8. DeployOK'
    BY <1>1, <1>3 DEF DeployOK
  <1> QED
    BY <1>1, <1>7, <1>8 DEF DeployKept, ChainStep

\* Its artifact's blocks are the artifact's only change.
LEMMA RecordDeployKeeps ==
  ASSUME DeployOK, RecordDeploy
  PROVE  DeployOK' /\ DeployKept /\ deployRun' # NoRun
  <1>1. PICK now : deployRun # NoRun /\ deployRun' = [deployRun EXCEPT !.blocks = now]
    BY DEF RecordDeploy
  <1>2. /\ deployRun = [commit |-> deployRun.commit, txs |-> deployRun.txs, blocks |-> deployRun.blocks]
        /\ IsSeq(deployRun.txs) /\ Len(deployRun.txs) = Len(DeploySteps)
    BY <1>1 DEF DeployOK
  <1>3. deployRun' = [commit |-> deployRun.commit, txs |-> deployRun.txs, blocks |-> now]
    BY <1>1, <1>2
  <1>4. deployRun'.txs = deployRun.txs /\ deployRun'.commit = deployRun.commit /\ deployRun'.blocks = now
    BY <1>3
  <1>5. deployRun.txs # <<>> /\ NoRun.txs = <<>>
    BY <1>2, LabelsAre, BlueprintAssumption DEF NoRun
  <1>6. deployRun' # NoRun
    BY <1>4, <1>5
  <1> QED
    BY <1>1, <1>2, <1>3, <1>4, <1>6 DEF DeployOK, DeployKept

\* Any artifact of a canary lists four transactions.
LEMMA RecordCanaryKeeps ==
  ASSUME RecordAnyCanary
  PROVE  IsSeq(canaryRun'.txs)
  <1>0. \E a \in Candidates(1), b \in Candidates(2), c \in Candidates(3), d \in Candidates(4),
           i \in DOMAIN CanarySteps, commit \in {head, deployRun.commit} :
          \E tx \in ToSet(sent) \cup {Rehearsed(CanarySteps[i])} :
            canaryRun' = [commit |-> commit, txs |-> [<<a, b, c, d>> EXCEPT ![i] = tx], blocks |-> <<>>]
    BY DEF RecordAnyCanary, RecordCanary
  <1>1. PICK a, b, c, d, i, tx, commit :
          canaryRun' = [commit |-> commit, txs |-> [<<a, b, c, d>> EXCEPT ![i] = tx], blocks |-> <<>>]
    BY <1>0, Zenon
  <1>2. PICK txs : txs = [<<a, b, c, d>> EXCEPT ![i] = tx]
    OBVIOUS
  <1>3. canaryRun'.txs = txs
    BY <1>1, <1>2
  <1>4. DOMAIN txs = 1..4 /\ txs = [k \in 1..4 |-> txs[k]]
    <2>1. PICK old : old = <<a, b, c, d>>
      OBVIOUS
    <2>2. DOMAIN old = 1..4
      <3>1. PICK S : a \in S /\ b \in S /\ c \in S /\ d \in S
        <4>1. a \in {a, b, c, d} /\ b \in {a, b, c, d} /\ c \in {a, b, c, d} /\ d \in {a, b, c, d}
          OBVIOUS
        <4> QED
          BY <4>1
      <3>2. old \in Seq(S) /\ Len(old) = 4
        BY <2>1, <3>1
      <3> QED
        BY <3>2, LenProperties
    <2>3. txs = [old EXCEPT ![i] = tx]
      BY <1>2, <2>1
    <2> QED
      BY <2>2, <2>3
  <1>5. 4 \in Nat
    OBVIOUS
  <1>6. IsSeq(txs)
    BY <1>4, <1>5, ListIsSeq
  <1> QED
    BY <1>3, <1>6

\* A canary's steps, by hand, from the first that is missing.
LEMMA HandKeeps ==
  ASSUME SentOK, DeployOK, HandCanary
  PROVE  SentOK' /\ ToSet(sent) \subseteq ToSet(sent') /\ ChainStep
  <1>1. Missing # {} /\ Missing \in SUBSET (1..4) /\ deployRun # NoRun /\ deployRun' = deployRun
    BY CanaryLabels DEF HandCanary, Missing
  <1>2. \E m \in Missing : \A k \in Missing : m <= k
    <2>1. 4 \in Nat
      OBVIOUS
    <2> QED
      BY <1>1, <2>1, FirstOf
  <1>3. PICK first \in 1..4 : \E last \in first..4 : \E bound, fails : SendCanary(first, last, bound, fails)
    <2> DEFINE first == CHOOSE i \in Missing : \A j \in Missing : i <= j
    <2>1. first \in Missing
      BY <1>2
    <2>2. \E last \in first..Len(CanarySteps), bound \in {"spec", "loose"}, fails \in BOOLEAN : SendCanary(first, last, bound, fails)
      BY DEF HandCanary
    <2> HIDE DEF first
    <2>3. first \in 1..4
      BY <1>1, <2>1
    <2> QED
      BY <2>2, <2>3, CanaryLabels
  <1>4. PICK last \in first..4 : \E bound, fails : SendCanary(first, last, bound, fails)
    BY <1>3
  <1>5. PICK bound, fails : SendCanary(first, last, bound, fails)
    BY <1>4
  <1> QED
    BY <1>1, <1>5, CanarySends

\* A canary's steps, by the script, from the first.
LEMMA ScriptKeeps ==
  ASSUME SentOK, DeployOK, PreflightOK(run), ScriptedCanary
  PROVE  SentOK' /\ ToSet(sent) \subseteq ToSet(sent') /\ ChainStep
  <1>1. deployRun # NoRun /\ deployRun' = deployRun
    BY DEF ScriptedCanary, PreflightOK
  <1>2. PICK last \in 1..4 : \E fails : SendCanary(1, last, "spec", fails)
    BY CanaryLabels DEF ScriptedCanary
  <1>4. PICK fails : SendCanary(1, last, "spec", fails)
    BY <1>2
  <1>3. 1 \in 1..4
    OBVIOUS
  <1> QED
    BY <1>1, <1>3, <1>4, CanarySends

\* The promoter's steps are no preflight's.
LEMMA PromotionIsNoPreflight ==
  ASSUME RunOK(run), PromotionNext
  PROVE  PreflightOK(run')
  <1>1. ASSUME NEW q, q.script = "promote" \/ q = Idle PROVE PreflightOK(q)
    BY <1>1, NoPreflightKnows DEF Idle
  <1>2. ASSUME NEW to, run.script = "promote" PROVE [run EXCEPT !.stage = to].script = "promote"
    BY <1>2, StageMoves DEF RunOK
  <1>3. ASSUME NEW to, NEW facts, "script" \notin DOMAIN facts, run.script = "promote" PROVE Reached(to, facts).script = "promote"
    BY <1>3, ScriptStays
  <1>4. CASE \E dry, remote \in BOOLEAN : StartPromotion(dry, remote)
    BY <1>1, <1>4 DEF StartPromotion
  <1>5. CASE PromotionReceiptHead
    BY <1>1, <1>3, <1>5 DEF PromotionReceiptHead, In
  <1>6. CASE PromotionStateHead
    <2>1. PICK n : run' = Idle \/ run' = Reached("firstPass", [stateHead |-> Header(n), view |-> ChainThrough(n)])
      BY <1>6, Proceeds DEF PromotionStateHead
    <2> QED
      BY <1>1, <1>3, <1>6, <2>1 DEF PromotionStateHead, In
  <1>7. CASE PromotionReceipts
    <2>1. PICK receipts : run' = Idle \/ run' = Reached("state", [receipts |-> receipts])
      BY <1>7, Proceeds DEF PromotionReceipts
    <2> QED
      BY <1>1, <1>3, <1>7, <2>1 DEF PromotionReceipts, In
  <1>8. CASE PromotionFirstPass \/ PromotionRuntimes \/ PromotionState \/ PromotionRecheck \/ ConfirmFinality
    <2>1. run.script = "promote"
      BY <1>8 DEF PromotionFirstPass, PromotionRuntimes, PromotionState, PromotionRecheck, ConfirmFinality, In
    <2>2. CASE PromotionFirstPass
      <3>1. run' = Idle \/ run' = [run EXCEPT !.stage = "runtimes"]
        BY <2>2, Proceeds DEF PromotionFirstPass
      <3> QED
        BY <1>1, <1>2, <2>1, <3>1
    <2>3. CASE PromotionRuntimes
      <3>1. run' = Idle \/ run' = [run EXCEPT !.stage = "receipts"]
        BY <2>3, Proceeds DEF PromotionRuntimes
      <3> QED
        BY <1>1, <1>2, <2>1, <3>1
    <2>4. CASE PromotionState
      <3>1. run' = Idle \/ run' = [run EXCEPT !.stage = "recheck"]
        BY <2>4, Proceeds DEF PromotionState
      <3> QED
        BY <1>1, <1>2, <2>1, <3>1
    <2>5. CASE PromotionRecheck
      <3>1. run' = Idle \/ run' = [run EXCEPT !.stage = IF run.remote THEN "finality" ELSE "write"]
        BY <2>5, Proceeds DEF PromotionRecheck
      <3> QED
        BY <1>1, <1>2, <2>1, <3>1
    <2>6. CASE ConfirmFinality
      <3>1. run' = Idle \/ run' = [run EXCEPT !.stage = "write"]
        BY <2>6, Proceeds DEF ConfirmFinality
      <3> QED
        BY <1>1, <1>2, <2>1, <3>1
    <2> QED
      BY <1>8, <2>2, <2>3, <2>4, <2>5, <2>6
  <1>9. CASE FinalityTimeout \/ WriteManifest
    BY <1>1, <1>9 DEF FinalityTimeout, WriteManifest
  <1> QED
    BY <1>4, <1>5, <1>6, <1>7, <1>8, <1>9 DEF PromotionNext

\* A record the promoter writes is of a release that stands.
LEMMA PromotionWrites ==
  ASSUME ReleaseInvariant, SentOK, BlocksOK, PromoterOK(run), PromotionNext
  PROVE  \A m \in Records(file') : m \in Records(file) \/ ReleaseStands(m.release)
  <1>1. CASE ~WriteManifest
    <2>1. UNCHANGED file
      BY <1>1 DEF PromotionNext, StartPromotion, PromotionReceiptHead, PromotionStateHead, PromotionFirstPass,
                  PromotionRuntimes, PromotionReceipts, PromotionState, PromotionRecheck, ConfirmFinality,
                  FinalityTimeout, OnlyRunChanges
    <2> QED
      BY <2>1
  <1>2. CASE WriteManifest
    <2>1. run.script = "promote" /\ run.stage = "write"
      BY <1>2 DEF WriteManifest, In
    <2>2. CASE run.dry
      BY <1>2, <2>2 DEF WriteManifest
    <2>3. CASE ~run.dry
      <3>1. PICK e : e = Expanded(Promotes, ReleaseRecord)
        OBVIOUS
      <3>2. file' = ReplaceCurrentReleaseManifest(file, e)
        BY <1>2, <2>3, <3>1 DEF WriteManifest
      <3>3. Records(file') \subseteq Records(file) \cup {e}
        BY <3>1, <3>2, ReplacingKeeps, VersionAssumption DEF ReleaseInvariant
      <3>4. e.release = ReleaseRecord
        BY <3>1 DEF Expanded
      <3>5. ReleaseStands(ReleaseRecord)
        BY <2>1, <2>3, WrittenStands DEF ReleaseInvariant
      <3> QED
        BY <3>3, <3>4, <3>5
    <2> QED
      BY <2>2, <2>3
  <1> QED
    BY <1>1, <1>2

\* Every step keeps the evidence.
LEMMA EvidenceSteps ==
  ASSUME EvidenceInvariant, [ReleaseNext]_vars
  PROVE  EvidenceInvariant'
  <1> USE DEF EvidenceInvariant
  <1>1. ReleaseInvariant'
    BY InvariantSteps
  <1>2. ChainOK /\ RunOK(run)
    BY DEF ReleaseInvariant
  <1>3. UNCHANGED history => HistoryKept
    BY DEF HistoryKept
  <1>4. UNCHANGED sent => SentOK' \/ ~UNCHANGED deployRun
    BY DEF SentOK
  <1>5. UNCHANGED deployRun => DeployOK' /\ DeployKept
    BY DEF DeployOK, DeployKept
  <1>6. ASSUME ChainStep, UNCHANGED <<sent, deployRun, canaryRun, history, file>>, PromoterOK(run'), PreflightOK(run')
        PROVE  EvidenceInvariant'
    BY <1>1, <1>3, <1>4, <1>5, <1>6, EvidenceKept
  <1>7. CASE ChainNext
    <2>1. UNCHANGED sent
      BY <1>7 DEF ChainNext, Mine, Grow, AdvanceSafe, AdvanceFinal, Reorganise
    <2> QED
      BY <1>6, <1>7, <2>1 DEF ChainNext, workVars, ChainStep
  <1>8. CASE EditSources \/ Checkout \/ Build
    BY <1>6, <1>8 DEF EditSources, Checkout, Build, chainVars, ChainStep
  <1>9. CASE Commit
    <2>1. history' = Append(history, tree) /\ UNCHANGED <<chainVars, file, deployRun, canaryRun, run>>
      BY <1>9 DEF Commit
    <2>2. /\ IsSeq(history') /\ Len(history') = Len(history) + 1
          /\ \A i \in 1..Len(history) : history'[i] = history[i]
      BY <2>1, AppendIsSeq
    <2>3. DOMAIN history = 1..Len(history) /\ DOMAIN history' = 1..Len(history') /\ Len(history) \in Nat
      BY <2>2, LenProperties DEF IsSeq
    <2>4. HistoryKept
      BY <2>2, <2>3 DEF HistoryKept
    <2>5. ChainStep /\ UNCHANGED sent
      BY <2>1 DEF ChainStep, chainVars
    <2> QED
      BY <1>1, <1>4, <1>5, <2>1, <2>2, <2>4, <2>5, EvidenceKept
  <1>10. CASE RetainRelease
    <2>1. UNCHANGED <<chainVars, history, deployRun, canaryRun, run>>
      BY <1>10 DEF RetainRelease
    <2>2. ChainStep /\ UNCHANGED sent
      BY <2>1 DEF ChainStep, chainVars
    <2>3. Records(file') \subseteq Records(file)
      BY <1>10, RetainingKeeps DEF ReleaseInvariant
    <2> QED
      BY <1>1, <1>3, <1>4, <1>5, <2>1, <2>2, <2>3, EvidenceKept
  <1>11. CASE BroadcastDeploy
    <2>1. UNCHANGED <<history, file, canaryRun, run>>
      BY <1>11 DEF BroadcastDeploy
    <2>2. SentOK' /\ ToSet(sent) \subseteq ToSet(sent') /\ DeployOK' /\ DeployKept /\ ChainStep
      BY <1>11, BroadcastKeeps
    <2> QED
      BY <1>1, <1>3, <2>1, <2>2, EvidenceKept
  <1>12. CASE RecordDeploy
    <2>1. UNCHANGED <<chainVars, history, file, canaryRun, run>>
      BY <1>12 DEF RecordDeploy
    <2>2. ChainStep /\ UNCHANGED sent
      BY <2>1 DEF ChainStep, chainVars
    <2>3. DeployOK' /\ DeployKept /\ deployRun' # NoRun
      BY <1>12, RecordDeployKeeps
    <2>4. SentOK'
      BY <2>2, <2>3 DEF SentOK
    <2> QED
      BY <1>1, <1>3, <2>1, <2>2, <2>3, <2>4, EvidenceKept
  <1>13. CASE RecordAnyCanary
    <2>1. UNCHANGED <<chainVars, history, file, deployRun, run>>
      BY <1>13 DEF RecordAnyCanary, RecordCanary
    <2>2. ChainStep /\ UNCHANGED sent
      BY <2>1 DEF ChainStep, chainVars
    <2>3. IsSeq(canaryRun'.txs)
      BY <1>13, RecordCanaryKeeps
    <2> QED
      BY <1>1, <1>3, <1>4, <1>5, <2>1, <2>2, <2>3, EvidenceKept
  <1>14. CASE HandCanary
    <2>1. UNCHANGED <<history, file, deployRun, canaryRun, run>>
      BY <1>14 DEF HandCanary
    <2>2. SentOK' /\ ToSet(sent) \subseteq ToSet(sent') /\ ChainStep
      BY <1>14, HandKeeps
    <2> QED
      BY <1>1, <1>3, <1>5, <2>1, <2>2, EvidenceKept
  <1>15. CASE ScriptedCanary
    <2>1. UNCHANGED <<history, file, deployRun, canaryRun>> /\ run' = Idle
      BY <1>15 DEF ScriptedCanary
    <2>2. SentOK' /\ ToSet(sent) \subseteq ToSet(sent') /\ ChainStep
      BY <1>15, ScriptKeeps
    <2>3. PromoterOK(run') /\ PreflightOK(run')
      BY <2>1, IdleKnows, NoPreflightKnows DEF Idle
    <2> QED
      BY <1>1, <1>3, <1>5, <2>1, <2>2, <2>3, EvidenceKept
  <1>16. CASE Interrupt
    <2>1. PromoterOK(run') /\ PreflightOK(run')
      BY <1>16, IdleKnows, NoPreflightKnows DEF Interrupt, Idle
    <2> QED
      BY <1>6, <1>16, <2>1 DEF Interrupt, ChainStep, chainVars
  <1>17. CASE PreflightNext
    <2>1. UNCHANGED <<chainVars, history, file, deployRun, canaryRun>>
      BY <1>17 DEF PreflightNext, StartPreflight, PreflightReceiptHead, PreflightStateHead, PreflightReceipts,
                   PreflightState, PreflightRecheck, PreflightEnds, OnlyRunChanges
    <2>2. PromoterOK(run') /\ PreflightOK(run')
      BY <1>2, <1>17, PreflightRuns, IdleKnows, PreflightKnows
    <2>3. UNCHANGED <<sent, deployRun, canaryRun, history, file>> /\ ChainStep
      BY <2>1 DEF chainVars, ChainStep
    <2> QED
      BY <1>6, <2>2, <2>3
  <1>18. CASE PromotionNext
    <2>1. UNCHANGED <<chainVars, history, deployRun, canaryRun>>
      <3>1. CASE WriteManifest
        BY <3>1 DEF WriteManifest
      <3>2. CASE ~WriteManifest
        BY <1>18, <3>2 DEF PromotionNext, StartPromotion, PromotionReceiptHead, PromotionStateHead, PromotionFirstPass,
                           PromotionRuntimes, PromotionReceipts, PromotionState, PromotionRecheck, ConfirmFinality,
                           FinalityTimeout, OnlyRunChanges
      <3> QED
        BY <3>1, <3>2
    <2>2. PromoterOK(run')
      BY <1>2, <1>18, PromotionKnows
    <2>3. PreflightOK(run')
      BY <1>2, <1>18, PromotionIsNoPreflight
    <2>4. \A m \in Records(file') : m \in Records(file) \/ ReleaseStands(m.release)
      BY <1>18, PromotionWrites
    <2>5. UNCHANGED <<sent, deployRun, canaryRun, history>> /\ ChainStep
      BY <2>1 DEF chainVars, ChainStep
    <2> QED
      BY <1>1, <1>3, <1>4, <1>5, <2>2, <2>3, <2>4, <2>5, EvidenceKept
  <1>19. CASE UNCHANGED vars
    BY <1>6, <1>19 DEF vars, workVars, chainVars, ChainStep
  <1> QED
    BY <1>7, <1>8, <1>9, <1>10, <1>11, <1>12, <1>13, <1>14, <1>15, <1>16, <1>17, <1>18, <1>19 DEF ReleaseNext, WorkspaceNext

\* A final transaction is found, no higher than the finalized head.
LEMMA FinalIsFound ==
  ASSUME ChainOK, NEW tx, FinalAt(tx)
  PROVE  tx \in Mined(chain) /\ HeightOf(chain, tx) \in 1..final
  <1>1. /\ DOMAIN chain = 1..Len(chain) /\ Len(chain) \in Nat /\ final \in Nat /\ final <= Len(chain)
    BY LenProperties DEF ChainOK, IsSeq
  <1>2. PICK n \in 1..final : tx \in ToSet(chain[n].txs)
    BY DEF FinalAt
  <1>3. n \in 1..Len(chain)
    BY <1>1
  <1>4. HeightOf(chain, tx) \in 1..n
    BY <1>1, <1>2, <1>3, HeightIsFirst
  <1> QED
    BY <1>1, <1>2, <1>3, <1>4 DEF Mined

\* The receipts of a release that stands are on the chain as its promoter took them.
LEMMA ReceiptsAreLive ==
  ASSUME ChainOK, NEW release, ReleaseStands(release)
  PROVE  LET receipts == ReceiptsOf(release.receipts)
             labels == DeploySteps \o CanarySteps
         IN /\ Found(release.receipts)
            /\ \A i \in DOMAIN receipts :
                 /\ receipts[i].blockNumber <= release.readback.number
                 /\ receipts[i].tx.from = "deployer" /\ ~receipts[i].tx.fails
                 /\ i # 5 => receipts[i].tx.call = labels[i]
                 /\ i > 1 => Before(receipts[i - 1], receipts[i]) /\ receipts[i].blockNumber >= release.deployBlock
            /\ receipts[Launchpad].blockNumber = release.deployBlock
            /\ receipts[Buy].tx.args[1] = receipts[Launch].tx.nonce /\ receipts[Buy].event = 1
            /\ receipts[Sell].tx.args[1] = receipts[Launch].tx.nonce
  <1>1. PICK txs, live : txs = release.receipts /\ live = ReceiptsOf(txs)
    OBVIOUS
  <1>2. PICK taken : /\ ReceiptsOK(taken, txs) /\ Len(taken) = Len(txs)
                     /\ Ordered(taken, release.deployBlock, release.readback.number) /\ Listed(taken)
    BY <1>1 DEF ReleaseStands
  <1>3. PICK n \in Nat : /\ n = Len(txs) /\ n = Len(DeploySteps) + 4 /\ Len(DeploySteps) = 5 + HouseBlueprints
                         /\ IsSeq(txs) /\ DOMAIN txs = 1..n /\ DOMAIN taken = 1..n /\ HouseBlueprints \in Nat
    <2>1. IsSeq(txs) /\ Len(txs) = Len(DeploySteps) + 4
      BY <1>1 DEF ReleaseStands
    <2> QED
      BY <1>2, <2>1, LenProperties, ReleaseLabels DEF IsSeq, ReceiptsOK
  <1>4. /\ DOMAIN chain = 1..Len(chain) /\ Len(chain) \in Nat
    BY LenProperties DEF ChainOK, IsSeq
  <1>5. DOMAIN live = 1..n /\ \A i \in 1..n : live[i] = Receipt(chain, txs[i])
    BY <1>1, <1>3 DEF ReceiptsOf
  <1>6. ASSUME NEW i \in 1..n
        PROVE  /\ FinalAt(txs[i]) /\ ~txs[i].fails /\ txs[i].from = "deployer"
               /\ live[i].tx = txs[i] /\ taken[i].tx = txs[i]
               /\ live[i].blockNumber = taken[i].blockNumber /\ live[i].transactionIndex = taken[i].transactionIndex
               /\ taken[i].clock = ReceiptIn(chain, txs[i]).clock
               /\ live[i].event = EventOf(chain, txs[i])
    BY <1>2, <1>3, <1>5, ReceiptFields DEF ReceiptsOK
  <1>7. /\ \A i \in 1..n : taken[i].blockNumber <= release.readback.number
        /\ \A i \in 2..n : Before(taken[i - 1], taken[i]) /\ taken[i].blockNumber >= release.deployBlock
        /\ taken[Launchpad].blockNumber = release.deployBlock
    BY <1>2, <1>3 DEF Ordered
  <1>8. /\ \A i \in 1..n : i # 5 => taken[i].tx.call = (DeploySteps \o CanarySteps)[i]
        /\ taken[Buy].tx.args[1] = taken[Launch].tx.nonce /\ taken[Buy].event = 1
        /\ taken[Sell].tx.args[1] = taken[Launch].tx.nonce
    BY <1>2, <1>3 DEF Listed
  <1>9. Found(txs)
    <2>1. ToSet(txs) = {txs[i] : i \in 1..n}
      BY <1>3, IsSeqFacts
    <2>2. \A i \in 1..n : txs[i] \in Mined(chain)
      BY <1>6, FinalIsFound
    <2> QED
      BY <2>1, <2>2 DEF Found
  <1>10. ASSUME NEW i \in 1..n, i > 1 PROVE Before(live[i - 1], live[i])
    <2>1. i \in 2..n /\ i - 1 \in 1..n
      BY <1>10
    <2>2. Before(taken[i - 1], taken[i])
      BY <1>7, <2>1
    <2>3. /\ live[i].blockNumber = taken[i].blockNumber /\ live[i].transactionIndex = taken[i].transactionIndex
          /\ live[i - 1].blockNumber = taken[i - 1].blockNumber /\ live[i - 1].transactionIndex = taken[i - 1].transactionIndex
      BY <1>6, <2>1
    <2> QED
      BY <2>2, <2>3 DEF Before
  <1>11. Launchpad \in 1..n /\ Launch \in 1..n /\ Buy \in 1..n /\ Sell \in 1..n /\ Launch # 5 /\ Buy # 5
    BY <1>3 DEF Launchpad, Launch, Buy, Sell
  <1>12. txs[Launch].call = "launchInstantWithIntent" /\ txs[Buy].call = "buy"
    <2>1. Launch = Len(DeploySteps) + 1 /\ Buy = Len(DeploySteps) + 2
      BY DEF Launch, Buy
    <2>3. (DeploySteps \o CanarySteps)[Launch] = CanarySteps[1] /\ (DeploySteps \o CanarySteps)[Buy] = CanarySteps[2]
      <3>1. PICK labels, m : labels = DeploySteps \o CanarySteps /\ m = Len(DeploySteps)
        OBVIOUS
      <3>2. \A k \in 1..4 : labels[m + k] = CanarySteps[k]
        BY <3>1, ReleaseLabels
      <3>3. labels[m + 1] = CanarySteps[1] /\ labels[m + 2] = CanarySteps[2]
        BY <3>2
      <3> QED
        BY <2>1, <3>1, <3>3
    <2>2. taken[Launch].tx.call = CanarySteps[1] /\ taken[Buy].tx.call = CanarySteps[2]
      BY <1>8, <1>11, <2>3
    <2> QED
      BY <1>6, <1>11, <2>2, CanaryLabels
  <1>13. live[Buy].event = 1
    <2>1. txs[Launch] \in LaunchOf(chain, txs[Buy].args[1])
      <3>1. txs[Launch] \in Mined(chain) /\ ~txs[Launch].fails /\ txs[Launch].from = "deployer"
        BY <1>6, <1>11, FinalIsFound
      <3>2. txs[Launch].nonce = txs[Buy].args[1]
        BY <1>6, <1>8, <1>11
      <3> QED
        BY <1>12, <3>1, <3>2 DEF LaunchOf, Succeeded
    <2>2. taken[Buy].clock - taken[Launch].clock < GuardBlocks
      <3>1. Buy \in 1..Len(txs) /\ Launch \in 1..Len(txs) /\ txs[Launch].nonce = txs[Buy].args[1]
        BY <1>3, <1>6, <1>8, <1>11
      <3> QED
        BY <1>2, <1>8, <1>12, <3>1 DEF ReceiptsOK
    <2>3. ClockOf(chain, txs[Buy]) - ClockOf(chain, txs[Launch]) < GuardBlocks
      BY <1>6, <1>11, <2>2 DEF ClockOf
    <2>4. Guarded(chain, txs[Buy])
      BY <2>1, <2>3 DEF Guarded
    <2>5. EventOf(chain, txs[Buy]) = 1
      BY <1>6, <1>11, <1>12, <2>4 DEF EventOf
    <2> QED
      BY <1>6, <1>11, <2>5
  <1>14. \A i \in 1..n : i > 1 => live[i].blockNumber >= release.deployBlock
    BY <1>3, <1>6, <1>7
  <1> HIDE DEF Launchpad, Launch, Buy, Sell
  <1>15. /\ live[Launchpad].blockNumber = release.deployBlock
         /\ live[Buy].tx.args[1] = live[Launch].tx.nonce /\ live[Sell].tx.args[1] = live[Launch].tx.nonce
    <2>1. live[Launchpad].blockNumber = release.deployBlock
      BY <1>6, <1>7, <1>11
    <2>2. /\ live[Buy].tx = taken[Buy].tx /\ live[Launch].tx = taken[Launch].tx
          /\ live[Sell].tx = taken[Sell].tx
      BY <1>6, <1>11
    <2> QED
      BY <1>8, <2>1, <2>2
  <1>16. \A i \in DOMAIN live :
           /\ live[i].blockNumber <= release.readback.number
           /\ live[i].tx.from = "deployer" /\ ~live[i].tx.fails
           /\ i # 5 => live[i].tx.call = (DeploySteps \o CanarySteps)[i]
           /\ i > 1 => Before(live[i - 1], live[i]) /\ live[i].blockNumber >= release.deployBlock
    <2>1. ASSUME NEW i \in 1..n
          PROVE  /\ live[i].blockNumber <= release.readback.number
                 /\ live[i].tx.from = "deployer" /\ ~live[i].tx.fails
                 /\ i # 5 => live[i].tx.call = (DeploySteps \o CanarySteps)[i]
                 /\ i > 1 => Before(live[i - 1], live[i]) /\ live[i].blockNumber >= release.deployBlock
      <3>1. live[i].tx = taken[i].tx /\ live[i].blockNumber = taken[i].blockNumber
        BY <1>6
      <3>2. live[i].blockNumber <= release.readback.number /\ live[i].tx.from = "deployer" /\ ~live[i].tx.fails
        BY <1>6, <1>7, <3>1
      <3>3. i # 5 => live[i].tx.call = (DeploySteps \o CanarySteps)[i]
        BY <1>8, <3>1
      <3>4. i > 1 => Before(live[i - 1], live[i]) /\ live[i].blockNumber >= release.deployBlock
        BY <1>10, <1>14
      <3> QED
        BY <3>2, <3>3, <3>4
    <2> QED
      BY <1>5, <2>1
  <1>17. release.receipts = txs /\ ReceiptsOf(release.receipts) = live
    BY <1>1
  <1> QED
    BY <1>9, <1>13, <1>15, <1>16, <1>17, Zenon

(* Every receipt a published release lists stands on the final chain, in the     *)
(* order of the labels and of the calls they name, and the canary's four are one *)
(* guarded round trip of one token: whatever reorganisations, late transactions  *)
(* and other accounts' calls came between the promoter's reads and its write.    *)
THEOREM ReceiptsStand == ReleaseSpec => []PublishedReceiptsStand
  <1>1. EvidenceInvariant => PublishedReceiptsStand
    BY ReceiptsAreLive DEF EvidenceInvariant, ReleaseInvariant, PublishedReceiptsStand
  <1> QED
    BY <1>1, EvidenceStarts, EvidenceSteps, PTL DEF ReleaseSpec

(* The code at a published release's addresses was built from the reviewed       *)
(* sources, and so was the commit the release names, however HEAD, the working   *)
(* tree and the compiler's output moved between broadcast and promotion.         *)
THEOREM SourceDeployed == ReleaseSpec => []PublishedSourceIsDeployed
  <1>1. ASSUME EvidenceInvariant PROVE PublishedSourceIsDeployed
    <2> SUFFICES ASSUME NEW release \in Releases
                 PROVE  /\ history[release.sourceCommit] = Reviewed
                        /\ \A i \in 1..4 : CodeAt(chain, release.receipts[i].nonce)[1] = history[release.sourceCommit]
      BY DEF PublishedSourceIsDeployed
    <2>1. ReleaseStands(release) /\ ChainOK /\ SentOK /\ BlocksOK
      BY <1>1 DEF EvidenceInvariant, ReleaseInvariant
    <2>2. history[release.sourceCommit] = Reviewed
      BY <2>1 DEF ReleaseStands
    <2>3. ASSUME NEW i \in 1..4 PROVE CodeAt(chain, release.receipts[i].nonce)[1] = Reviewed
      <3>1. i = 1 \/ i = 2 \/ i = 3 \/ i = 4
        OBVIOUS
      <3>2. \E c : CreatedFinal(c, release.receipts[i].nonce)
        BY <2>1, <3>1 DEF ReleaseStands
      <3> QED
        BY <2>1, <3>2, CodeIsReviewed
    <2> QED
      BY <2>2, <2>3
  <1> QED
    BY <1>1, EvidenceStarts, EvidenceSteps, PTL DEF ReleaseSpec

\* The hook of a deployment that stands is the one its own setHook named.
LEMMA HookIsSet ==
  ASSUME ChainOK, SentOK, BlocksOK, NEW txs, Len(txs) \in Nat, Len(txs) >= 5, DeploymentStands(txs)
  PROVE  HookOf(chain, txs[Launchpad].nonce) = txs[3].nonce
  <1>1. 5 \in 1..Len(txs)
    OBVIOUS
  <1>2. /\ FinalAt(txs[5]) /\ ~txs[5].fails /\ txs[5].from = "deployer"
        /\ txs[5].call = "setHook" /\ txs[5].to = txs[Launchpad].nonce /\ txs[5].args = <<txs[3].nonce>>
    BY <1>1 DEF DeploymentStands, Targeted
  <1>3. txs[5].nonce \in 1..Len(sent) /\ txs[5] = sent[txs[5].nonce]
    BY <1>2, FinalIsSent
  <1> DEFINE calls == {tx \in Succeeded(chain) : tx.call = "setHook" /\ tx.to = txs[Launchpad].nonce}
  <1>4. txs[5] \in calls
    BY <1>2, FinalIsFound DEF Succeeded
  <1>5. ASSUME NEW tx \in calls PROVE tx = txs[5]
    <2>1. DOMAIN chain = 1..Len(chain)
      BY LenProperties DEF ChainOK, IsSeq
    <2>2. PICK n \in 1..Len(chain) : tx \in ToSet(chain[n].txs)
      BY <2>1 DEF Succeeded, Mined
    <2>3. tx.call = "setHook"
      OBVIOUS
    <2>4. tx.from = "deployer"
      BY <2>2, <2>3 DEF BlocksOK, MaybeMined
    <2>5. tx.nonce \in 1..Len(sent) /\ tx = sent[tx.nonce]
      BY <2>2, <2>4, KnownByNonce
    <2>6. tx.nonce = txs[5].nonce
      BY <1>2, <1>3, <2>3, <2>5 DEF SentOK
    <2> QED
      BY <1>3, <2>5, <2>6
  <1> HIDE DEF calls
  <1>6. (CHOOSE tx \in calls : TRUE) = txs[5] /\ calls # {}
    BY <1>4, <1>5
  <1>7. HookOf(chain, txs[Launchpad].nonce) = txs[5].args[1]
    BY <1>6 DEF HookOf, calls
  <1> QED
    BY <1>2, <1>7

(* run-canary.sh spends the intent only on a deployment all of whose receipts    *)
(* are final, whose hook is its own, whose contracts are of the reviewed sources *)
(* and whose house blueprints have their numbers, though the chain may have been *)
(* reorganised, and others may have saved blueprints, while the preflight read.  *)
THEOREM CanarySpendsFinal == ReleaseSpec => CanaryOnFinalDeployment
  <1>1. ASSUME EvidenceInvariant, [ReleaseNext]_vars, run # Idle, run' = Idle, sent' # sent
        PROVE  LET txs == deployRun.txs
               IN /\ Found(txs)
                  /\ \A i \in DOMAIN txs : HeightOf(chain, txs[i]) <= final /\ ~txs[i].fails
                  /\ \A i \in 1..HouseBlueprints : BlueprintId(chain, txs[FirstBlueprint + i - 1]) = i
                  /\ HookOf(chain, txs[Launchpad].nonce) = txs[3].nonce
                  /\ \A i \in 1..4 : txs[i].source = Reviewed
    <2>1. ScriptedCanary
      <3>1. UNCHANGED sent => FALSE
        BY <1>1
      <3>2. ~(BroadcastDeploy \/ HandCanary)
        BY <1>1 DEF BroadcastDeploy, HandCanary
      <3>3. ~ChainNext
        BY <1>1 DEF ChainNext, workVars
      <3>4. ~(EditSources \/ Commit \/ Checkout \/ Build \/ RetainRelease \/ RecordDeploy \/ Interrupt \/ RecordAnyCanary)
        BY <3>1 DEF EditSources, Commit, Checkout, Build, RetainRelease, RecordDeploy, Interrupt, RecordAnyCanary, RecordCanary, chainVars
      <3>5. ~PreflightNext
        <4>1. PreflightNext => UNCHANGED chainVars
          BY DEF PreflightNext, StartPreflight, PreflightReceiptHead, PreflightStateHead, PreflightReceipts,
                 PreflightState, PreflightRecheck, PreflightEnds, OnlyRunChanges
        <4> QED
          BY <3>1, <4>1 DEF chainVars
      <3>6. ~PromotionNext
        <4>1. PromotionNext /\ ~WriteManifest => UNCHANGED chainVars
          BY DEF PromotionNext, StartPromotion, PromotionReceiptHead, PromotionStateHead, PromotionFirstPass,
                 PromotionRuntimes, PromotionReceipts, PromotionState, PromotionRecheck, ConfirmFinality,
                 FinalityTimeout, OnlyRunChanges
        <4>2. WriteManifest => UNCHANGED chainVars
          BY DEF WriteManifest
        <4> QED
          BY <3>1, <4>1, <4>2 DEF chainVars
      <3>7. ~UNCHANGED vars
        BY <3>1 DEF vars, chainVars
      <3> QED
        BY <1>1, <3>2, <3>3, <3>4, <3>5, <3>6, <3>7 DEF ReleaseNext, WorkspaceNext
    <2>2. DeploymentStands(deployRun.txs) /\ deployRun # NoRun /\ DeployOK /\ ChainOK /\ SentOK /\ BlocksOK
      BY <1>1, <2>1 DEF ScriptedCanary, EvidenceInvariant, ReleaseInvariant, PreflightOK
    <2>3. PICK txs : txs = deployRun.txs
      OBVIOUS
    <2>4. /\ IsSeq(txs) /\ Len(txs) \in Nat /\ Len(txs) >= 5 /\ DOMAIN txs = 1..Len(txs)
          /\ ToSet(txs) = {txs[i] : i \in 1..Len(txs)}
      <3>1. IsSeq(txs) /\ Len(txs) = 5 + HouseBlueprints /\ HouseBlueprints \in Nat
        BY <2>2, <2>3, LabelsAre, BlueprintAssumption DEF DeployOK
      <3> QED
        BY <3>1, LenProperties, SeqIsSeq DEF IsSeq
    <2>5. \A i \in 1..Len(txs) : txs[i] \in Mined(chain) /\ HeightOf(chain, txs[i]) <= final /\ ~txs[i].fails
      <3> SUFFICES ASSUME NEW i \in 1..Len(txs)
                   PROVE  txs[i] \in Mined(chain) /\ HeightOf(chain, txs[i]) <= final /\ ~txs[i].fails
        OBVIOUS
      <3>1. FinalAt(txs[i]) /\ ~txs[i].fails
        BY <2>2, <2>3 DEF DeploymentStands
      <3>2. txs[i] \in Mined(chain) /\ HeightOf(chain, txs[i]) \in 1..final
        BY <2>2, <3>1, FinalIsFound
      <3> QED
        BY <2>2, <3>1, <3>2 DEF ChainOK
    <2>6. Found(txs)
      BY <2>4, <2>5 DEF Found
    <2>7. HookOf(chain, txs[Launchpad].nonce) = txs[3].nonce
      BY <2>2, <2>3, <2>4, HookIsSet
    <2>8. /\ \A i \in 1..HouseBlueprints : BlueprintId(chain, txs[FirstBlueprint + i - 1]) = i
          /\ \A i \in 1..4 : txs[i].source = Reviewed
      BY <2>2, <2>3 DEF DeploymentStands
    <2> QED
      BY <2>3, <2>4, <2>5, <2>6, <2>7, <2>8
  <1>2. EvidenceInvariant /\ [ReleaseNext]_vars =>
          [run # Idle /\ run' = Idle /\ sent' # sent =>
             LET txs == deployRun.txs
             IN /\ Found(txs)
                /\ \A i \in DOMAIN txs : HeightOf(chain, txs[i]) <= final /\ ~txs[i].fails
                /\ \A i \in 1..HouseBlueprints : BlueprintId(chain, txs[FirstBlueprint + i - 1]) = i
                /\ HookOf(chain, txs[Launchpad].nonce) = txs[3].nonce
                /\ \A i \in 1..4 : txs[i].source = Reviewed]_vars
    BY <1>1
  <1> QED
    BY <1>2, EvidenceStarts, EvidenceSteps, PTL DEF ReleaseSpec, CanaryOnFinalDeployment

-----------------------------------------------------------------------------
(* The utilities' release: the commits, the four artifacts and the script that *)
(* is running.                                                                 *)

\* Each commit has its sources and its inputs, and one of them is checked out.
CommitsOK ==
  /\ IsSeq(history) /\ IsSeq(book) /\ Len(book) = Len(history)
  /\ head \in 1..Len(history)

\* An artifact names a commit, and the deployment's has the three labels.
ArtifactOK(a) ==
  /\ a = [commit |-> a.commit, txs |-> a.txs, blocks |-> a.blocks]
  /\ IsSeq(a.txs)
  /\ a # NoRun => a.commit \in 1..Len(history)

StagesOK ==
  /\ stages = [stage \in Stages |-> stages[stage]]
  /\ \A stage \in Stages : ArtifactOK(stages[stage])
  /\ stages["deploy"] # NoRun => Len(stages["deploy"].txs) = 3

\* A commit holds these sources, this record of the core and these terms, with their copy and hash.
Backed(commit, source, core, text) ==
  /\ commit \in 1..Len(history)
  /\ history[commit] = source
  /\ core = CurrentRelease(book[commit].file)
  /\ book[commit].terms.canonical = text /\ book[commit].terms.public = text /\ book[commit].terms.artifact = text

CanaryFields == {"remote", "rehearsal", "commit", "txs", "built", "core", "terms"}

\* What the promoter of the candidate took from one commit when it started it keeps, and a
\* candidate for production comes from a compiler's output that was the reviewed one.
CanaryOK(r) ==
  r.script = "utilityCanary" =>
    /\ CanaryFields \subseteq DOMAIN r
    /\ ~r.rehearsal =>
         /\ r.remote
         /\ Backed(r.commit, r.built, r.core, r.terms)
         /\ \A i \in 1..2 : r.txs[i].source = r.built
         /\ r.stage \in {"recheck", "finality", "emit"} => r.built = Reviewed

UtilityScripts == {"none", "utilityPreflight", "utilityCanary"}

\* The candidate is as its script found it.
CandidateOK ==
  ForProduction =>
    \E core : /\ Backed(candidate.sourceCommit, Reviewed, core, candidate.terms)
              /\ candidate.core = core.release
              /\ \A i \in 1..2 : candidate.receipts[i].source = Reviewed

AttributionInvariant ==
  /\ CommitsOK /\ StagesOK
  /\ RunOK(run) /\ run.script \in UtilityScripts
  /\ CanaryOK(run) /\ CandidateOK

\* Commits are only added.
CommitsKept ==
  UNCHANGED <<history, book>> \/ \E source, inputs : history' = Append(history, source) /\ book' = Append(book, inputs)

\* What a commit holds it goes on holding.
LEMMA BackedStays ==
  ASSUME CommitsOK, CommitsKept
  PROVE  \A commit, source, core, text : Backed(commit, source, core, text) => Backed(commit, source, core, text)'
  <1>1. CASE UNCHANGED <<history, book>>
    BY <1>1 DEF Backed
  <1>2. CASE ~UNCHANGED <<history, book>>
    <2>1. PICK source, inputs : history' = Append(history, source) /\ book' = Append(book, inputs)
      BY <1>2 DEF CommitsKept
    <2>2. /\ Len(history') = Len(history) + 1 /\ \A i \in 1..Len(history) : history'[i] = history[i]
          /\ \A i \in 1..Len(book) : book'[i] = book[i]
      BY <2>1, AppendIsSeq DEF CommitsOK
    <2>3. Len(history) \in Nat /\ Len(book) = Len(history)
      BY SeqIsSeq DEF CommitsOK, IsSeq
    <2>4. \A i \in 1..Len(history) : i \in 1..Len(history') /\ history'[i] = history[i] /\ book'[i] = book[i]
      BY <2>2, <2>3
    <2> QED
      BY <2>4 DEF Backed
  <1> QED
    BY <1>1, <1>2

\* The commits, whatever is done.
LEMMA CommitsSteps ==
  ASSUME CommitsOK, [UtilityNext]_<<vars, utilityVars>>
  PROVE  CommitsOK' /\ CommitsKept
  <1>1. CASE UNCHANGED <<history, book, head>>
    BY <1>1 DEF CommitsOK, CommitsKept
  <1>2. CASE UtilityCommit
    <2>1. /\ history' = Append(history, tree) /\ book' = Append(book, Inputs)
          /\ head = Len(history) /\ head' = head + 1
      BY <1>2 DEF UtilityCommit, Commit
    <2>2. /\ IsSeq(history') /\ Len(history') = Len(history) + 1
          /\ IsSeq(book') /\ Len(book') = Len(book) + 1
      BY <2>1, AppendIsSeq DEF CommitsOK
    <2> QED
      BY <2>1, <2>2 DEF CommitsOK, CommitsKept
  <1>3. CASE UtilityCheckout
    <2>1. UNCHANGED <<history, book>> /\ head' \in DOMAIN history
      BY <1>3 DEF UtilityCheckout
    <2>2. DOMAIN history = 1..Len(history)
      BY SeqIsSeq, LenProperties DEF CommitsOK, IsSeq
    <2> QED
      BY <2>1, <2>2 DEF CommitsOK, CommitsKept
  <1>4. CASE UtilityChainNext \/ UtilityHeadsNext
    <2>1. UNCHANGED <<workVars, utilityVars>>
      BY <1>4 DEF UtilityChainNext, UtilityHeadsNext
    <2> QED
      BY <1>1, <2>1 DEF workVars, utilityVars
  <1>5. CASE UtilityTreeNext /\ ~UtilityCommit /\ ~UtilityCheckout
    <2>1. CASE (EditSources \/ Build \/ RetainRelease \/ Interrupt) /\ UNCHANGED utilityVars
      BY <1>1, <2>1 DEF EditSources, Build, RetainRelease, Interrupt, utilityVars
    <2>2. CASE EditTerms \/ GenerateTerms \/ \E dies \in BOOLEAN : GenerateTermsHash(dies)
      BY <1>1, <2>2 DEF EditTerms, GenerateTerms, GenerateTermsHash, vars, workVars
    <2> QED
      BY <1>5, <2>1, <2>2 DEF UtilityTreeNext
  <1>6. CASE UtilityBroadcastNext
    <2>1. CASE DeployUtilities
      BY <1>1, <2>1 DEF DeployUtilities, Broadcast
    <2>2. ASSUME NEW stage, RunStage(stage) PROVE UNCHANGED <<history, book, head>>
      BY <2>2 DEF RunStage, Broadcast
    <2>3. ASSUME NEW stage, NEW kept, HandStage(stage, kept) PROVE UNCHANGED <<history, book, head>>
      BY <2>3 DEF HandStage, Broadcast
    <2>4. ASSUME NEW stage, RecordStage(stage) PROVE UNCHANGED <<history, book, head>>
      BY <2>4 DEF RecordStage, vars, workVars
    <2> QED
      BY <1>1, <1>6, <2>1, <2>2, <2>3, <2>4 DEF UtilityBroadcastNext
  <1>7. CASE UtilityScriptNext
    BY <1>1, <1>7 DEF UtilityScriptNext, StartUtilityPreflight, StartCandidate, UtilityReceiptHead, UtilityStateHead,
       UtilityCore, UtilityPreflightReceipts, UtilityPreflightState, UtilityPreflightRecheck, UtilityPreflightEnds,
       UtilityCanaryReceipts, UtilityCanaryState, UtilityCanaryRecheck, UtilityConfirmFinality, UtilityFinalityTimeout,
       EmitCandidate, OnlyUtilityRunChanges, OnlyRunChanges, utilityVars
  <1>8. CASE UNCHANGED <<vars, utilityVars>>
    BY <1>1, <1>8 DEF vars, workVars, utilityVars
  <1> QED
    BY <1>2, <1>3, <1>4, <1>5, <1>6, <1>7, <1>8 DEF UtilityNext

\* A broadcast's artifact, when it is kept, names the commit checked out.
LEMMA BroadcastKept ==
  ASSUME CommitsOK, StagesOK, NEW stage \in Stages, NEW txs, NEW kept, Broadcast(stage, txs, kept),
         IsSeq(txs), stage = "deploy" => Len(txs) = 3
  PROVE  StagesOK'
  <1> DEFINE a == [commit |-> head, txs |-> txs, blocks |-> <<>>]
  <1>1. UNCHANGED history /\ stages' = IF kept THEN [stages EXCEPT ![stage] = a] ELSE stages
    BY DEF Broadcast
  <1>2. ArtifactOK(a)
    BY DEF ArtifactOK, CommitsOK
  <1>3. a.txs = txs
    OBVIOUS
  <1> HIDE DEF a
  <1>4. CASE kept
    <2>1. /\ stages' = [s \in Stages |-> stages'[s]]
          /\ \A s \in Stages : stages'[s] = IF s = stage THEN a ELSE stages[s]
      BY <1>1, <1>4 DEF StagesOK
    <2>2. \A s \in Stages : ArtifactOK(stages'[s])
      BY <1>2, <2>1 DEF StagesOK
    <2>3. (\A s \in Stages : ArtifactOK(stages[s]))'
      BY <1>1, <2>2 DEF ArtifactOK
    <2>4. stages'["deploy"] # NoRun => Len(stages'["deploy"].txs) = 3
      BY <1>3, <2>1 DEF StagesOK, Stages
    <2> QED
      BY <2>1, <2>3, <2>4 DEF StagesOK
  <1>5. CASE ~kept
    BY <1>1, <1>5 DEF StagesOK, ArtifactOK
  <1> QED
    BY <1>4, <1>5

\* The transactions of a stage are a list.
LEMMA StageLists ==
  ASSUME NEW u, NEW stage, NEW epoch, NEW deadline
  PROVE  IsSeq(StageTransactions(u, stage, epoch, deadline))
  <1>1. CASE stage = "lock"
    <2>1. PICK a, b : StageTransactions(u, stage, epoch, deadline) = <<a, b>>
      BY <1>1 DEF StageTransactions
    <2> QED
      BY <2>1, TuplesAreSeqs
  <1>2. CASE stage = "boost"
    <2>1. PICK a, b : StageTransactions(u, stage, epoch, deadline) = <<a, b>>
      BY <1>2 DEF StageTransactions
    <2> QED
      BY <2>1, TuplesAreSeqs
  <1>3. CASE stage \notin {"lock", "boost"}
    <2>1. PICK a : StageTransactions(u, stage, epoch, deadline) = <<a>>
      BY <1>3 DEF StageTransactions
    <2> QED
      BY <2>1, TuplesAreSeqs
  <1> QED
    BY <1>1, <1>2, <1>3

\* The artifacts, whatever is done.
LEMMA StagesSteps ==
  ASSUME CommitsOK, StagesOK, [UtilityNext]_<<vars, utilityVars>>
  PROVE  StagesOK'
  <1>0. CommitsKept
    BY CommitsSteps
  <1>1. ASSUME UNCHANGED stages PROVE StagesOK'
    <2>1. \A i \in 1..Len(history) : i \in 1..Len(history')
      <3>1. CASE UNCHANGED history
        BY <3>1
      <3>2. CASE ~UNCHANGED history
        <4>1. PICK source : history' = Append(history, source)
          BY <1>0, <3>2 DEF CommitsKept
        <4>2. Len(history') = Len(history) + 1
          BY <4>1, AppendIsSeq DEF CommitsOK
        <4> QED
          BY <4>2, SeqIsSeq DEF CommitsOK, IsSeq
      <3> QED
        BY <3>1, <3>2
    <2> QED
      BY <1>1, <2>1 DEF StagesOK, ArtifactOK
  <1>2. CASE UtilityChainNext \/ UtilityHeadsNext
    BY <1>1, <1>2 DEF UtilityChainNext, UtilityHeadsNext, utilityVars
  <1>3. CASE UtilityTreeNext
    BY <1>1, <1>3 DEF UtilityTreeNext, EditTerms, GenerateTerms, GenerateTermsHash, UtilityCommit, UtilityCheckout, utilityVars
  <1>4. CASE DeployUtilities
    <2>1. PICK a, b, c : Broadcast("deploy", <<a, b, c>>, TRUE)
      BY <1>4 DEF DeployUtilities
    <2>2. IsSeq(<<a, b, c>>) /\ Len(<<a, b, c>>) = 3
      BY TuplesAreSeqs
    <2>3. "deploy" \in Stages
      BY DEF Stages
    <2>4. PICK txs : txs = <<a, b, c>>
      OBVIOUS
    <2> QED
      BY <2>1, <2>2, <2>3, <2>4, BroadcastKept
  <1>5. ASSUME NEW stage \in Stages \ {"deploy"},
               RunStage(stage) \/ \E kept \in BOOLEAN : HandStage(stage, kept)
        PROVE  StagesOK'
    <2>1. PICK u, epoch, deadline, kept : Broadcast(stage, StageTransactions(u, stage, epoch, deadline), kept)
      BY <1>5, Zenon DEF RunStage, HandStage
    <2>2. PICK txs : txs = StageTransactions(u, stage, epoch, deadline)
      OBVIOUS
    <2>3. IsSeq(txs)
      BY <2>2, StageLists
    <2> QED
      BY <1>5, <2>1, <2>2, <2>3, BroadcastKept
  <1>6. ASSUME NEW stage \in Stages, RecordStage(stage) PROVE StagesOK'
    <2>1. PICK now : stages' = [stages EXCEPT ![stage].blocks = now]
      BY <1>6 DEF RecordStage
    <2>2. UNCHANGED history /\ stages[stage] # NoRun
      BY <1>6 DEF RecordStage, vars, workVars
    <2>3. stages[stage] = [commit |-> stages[stage].commit, txs |-> stages[stage].txs, blocks |-> stages[stage].blocks]
      BY DEF StagesOK, ArtifactOK
    <2> DEFINE a == [commit |-> stages[stage].commit, txs |-> stages[stage].txs, blocks |-> now]
    <2>4. [stages[stage] EXCEPT !.blocks = now] = a
      BY <2>3
    <2>5. /\ stages' = [s \in Stages |-> stages'[s]]
          /\ \A s \in Stages : stages'[s] = IF s = stage THEN a ELSE stages[s]
      BY <2>1, <2>4 DEF StagesOK
    <2>6. ArtifactOK(a)
      BY <2>2 DEF StagesOK, ArtifactOK
    <2>7. a.txs = stages[stage].txs
      OBVIOUS
    <2> HIDE DEF a
    <2>8. \A s \in Stages : ArtifactOK(stages'[s])
      BY <2>5, <2>6 DEF StagesOK
    <2>9. (\A s \in Stages : ArtifactOK(stages[s]))'
      BY <2>2, <2>8 DEF ArtifactOK
    <2>10. stages'["deploy"] # NoRun => Len(stages'["deploy"].txs) = 3
      BY <2>2, <2>5, <2>7 DEF StagesOK, Stages
    <2> QED
      BY <2>5, <2>9, <2>10 DEF StagesOK
  <1>7. CASE UtilityScriptNext
    BY <1>1, <1>7 DEF UtilityScriptNext, StartUtilityPreflight, StartCandidate, UtilityReceiptHead, UtilityStateHead,
       UtilityCore, UtilityPreflightReceipts, UtilityPreflightState, UtilityPreflightRecheck, UtilityPreflightEnds,
       UtilityCanaryReceipts, UtilityCanaryState, UtilityCanaryRecheck, UtilityConfirmFinality, UtilityFinalityTimeout,
       EmitCandidate, OnlyUtilityRunChanges, OnlyRunChanges, utilityVars
  <1>8. CASE UNCHANGED <<vars, utilityVars>>
    BY <1>1, <1>8 DEF utilityVars
  <1> QED
    BY <1>2, <1>3, <1>4, <1>5, <1>6, <1>7, <1>8 DEF UtilityNext, UtilityBroadcastNext

\* A utility's artifact opens with the cell that tells the versions apart, and no slot covers it.
LEMMA UtilityArtifactOpens ==
  ASSUME NEW c, NEW s
  PROVE  LET a == UtilityArtifactOf(c, s)
         IN /\ 1 \in DOMAIN a.object /\ a.object[1] = s
            /\ \A r \in References(Groups(a)) : 1 \notin Cells(r)
  <1>1. PICK words : words = IF c = "lockRewardsDeploy" THEN 5 ELSE 4
    OBVIOUS
  <1> DEFINE a == UtilityArtifactOf(c, s)
  <1>2. /\ a.object = [i \in 1..2 * words + 1 |-> IF i = 1 THEN s ELSE 0]
        /\ a.immutables = {{[start |-> 2 * w, length |-> WordLength]} : w \in 1..words}
        /\ a.links = << >>
    BY <1>1 DEF UtilityArtifactOf
  <1>3. 1 \in DOMAIN a.object /\ a.object[1] = s
    BY <1>1, <1>2
  <1>4. \A g \in a.immutables : \A r \in g : r.start >= 2 /\ r.start \in Nat /\ r.length = 2
    BY <1>1, <1>2 DEF WordLength
  <1>5. DOMAIN a.links = {}
    BY <1>2
  <1> HIDE DEF a
  <1>6. \A g \in Groups(a) : \A r \in g.references : r.start >= 2 /\ r.start \in Nat /\ r.length = 2
    <2>1. ASSUME NEW g \in ImmutableGroups(a), NEW r \in g.references
          PROVE  r.start >= 2 /\ r.start \in Nat /\ r.length = 2
      <3>1. PICK slots \in a.immutables : g = [kind |-> "immutable", id |-> "", references |-> slots]
        BY <2>1 DEF ImmutableGroups
      <3> QED
        BY <1>4, <2>1, <3>1
    <2>2. LinkGroups(a) = {}
      BY <1>5 DEF LinkGroups
    <2> QED
      BY <2>1, <2>2 DEF Groups
  <1>7. \A r \in References(Groups(a)) : r.start >= 2 /\ r.start \in Nat /\ r.length = 2
    BY <1>6 DEF References
  <1>8. \A r \in References(Groups(a)) : 1 \notin Cells(r)
    BY <1>7 DEF Cells
  <1> QED
    BY <1>3, <1>8 DEF a

\* Runtimes that pass the review are compared with artifacts built from the reviewed sources.
LEMMA UtilityReviewed ==
  ASSUME NEW u, NEW txs, NEW built, NEW launchpad, UtilityRuntimesHold(u, txs, built, launchpad)
  PROVE  built = Reviewed
  <1> DEFINE label == UtilityLabels[1]
             a == UtilityArtifactOf(label, built)
             b == UtilityArtifactOf(label, Reviewed)
  <1>1. PICK words :
          ValidateReviewedUtilityV2Runtime(UtilityArtifactOf(label, built), UtilityRuntimeOf(u, txs[1]),
            [target |-> label, layout |-> ReferenceLayout(b), words |-> words, template |-> Masked(Groups(b), b.object)])
    BY DEF UtilityRuntimesHold
  <1>2. PICK code, want :
          /\ ValidateReviewedUtilityV2Runtime(a, code, want)
          /\ want.template = Masked(Groups(b), b.object)
    BY <1>1
  <1>3. 1 \in DOMAIN a.object /\ a.object[1] = built /\ \A r \in References(Groups(a)) : 1 \notin Cells(r)
    BY UtilityArtifactOpens
  <1>4. 1 \in DOMAIN b.object /\ b.object[1] = Reviewed /\ \A r \in References(Groups(b)) : 1 \notin Cells(r)
    BY UtilityArtifactOpens
  <1>5. Groups(a) = ImmutableGroups(a)
    <2>1. DOMAIN a.links = {}
      BY <1>2 DEF ValidateReviewedUtilityV2Runtime
    <2> HIDE DEF a
    <2>2. LinkGroups(a) = {}
      BY <2>1 DEF LinkGroups
    <2> QED
      BY <2>2 DEF Groups
  <1> HIDE DEF a, b
  <1>6. Masked(Groups(a), a.object) = Masked(Groups(b), b.object)
    BY <1>2, <1>5 DEF ValidateReviewedUtilityV2Runtime
  <1>7. Masked(Groups(a), a.object)[1] = built
    BY <1>3, UncoveredCell
  <1>8. Masked(Groups(b), b.object)[1] = Reviewed
    BY <1>4, UncoveredCell
  <1> QED
    BY <1>6, <1>7, <1>8

\* What the promoter of the candidate takes from the commit it starts at.
LEMMA CandidateStarts ==
  ASSUME CommitsOK, StagesOK, NEW rehearsal \in BOOLEAN, NEW remote \in BOOLEAN, StartCandidate(rehearsal, remote)
  PROVE  CanaryOK(run') /\ RunOK(run') /\ run'.script = "utilityCanary"
  <1> DEFINE d == stages["deploy"]
             commit == d.commit
             txs == AllStages("txs")
             manifest == CurrentRelease(file)
  <1>1. run' = [script |-> "utilityCanary", stage |-> "receiptHead", remote |-> remote, rehearsal |-> rehearsal,
                commit |-> commit, txs |-> txs, blocks |-> AllStages("blocks"),
                built |-> out, core |-> manifest, terms |-> terms.canonical]
    BY DEF StartCandidate
  <1>2. PICK r : r = run'
    OBVIOUS
  <1>3. /\ CanaryFields \subseteq DOMAIN r /\ {"script", "stage"} \subseteq DOMAIN r /\ r = [x \in DOMAIN r |-> r[x]]
        /\ r.script = "utilityCanary" /\ r.stage = "receiptHead" /\ r.remote = remote /\ r.rehearsal = rehearsal
        /\ r.commit = commit /\ r.txs = txs /\ r.built = out /\ r.core = manifest /\ r.terms = terms.canonical
    BY <1>1, <1>2 DEF CanaryFields
  <1>4. /\ d.blocks # <<>>
        /\ InputsAttributed(rehearsal) /\ out = tree /\ VerifyUtilityTerms
        /\ rehearsal = ~remote
        /\ ConstructorsHold(d.txs, CoreLaunchpad(manifest), out)
    BY DEF StartCandidate, Stages
  <1>5. commit \in 1..Len(history) /\ IsSeq(d.txs) /\ Len(d.txs) = 3
    BY <1>4 DEF StagesOK, ArtifactOK, Stages, NoRun
  <1>6. \A i \in 1..2 : txs[i].source = out
    <2>1. \A s \in Stages : IsSeq(stages[s].txs)
      BY DEF StagesOK, ArtifactOK
    <2>2. \E a, b, c, e : a = d.txs /\ b = stages["lock"].txs /\ c = stages["boost"].txs /\ e = stages["claim"].txs
      BY Zenon
    <2>3. PICK a, b, c, e : a = d.txs /\ b = stages["lock"].txs /\ c = stages["boost"].txs /\ e = stages["claim"].txs
      BY <2>2, Zenon
    <2>4. IsSeq(a) /\ IsSeq(b) /\ IsSeq(c) /\ IsSeq(e) /\ Len(a) = 3
      <3>1. IsSeq(stages["lock"].txs) /\ IsSeq(stages["boost"].txs) /\ IsSeq(stages["claim"].txs)
        BY <2>1 DEF Stages
      <3>2. IsSeq(a) /\ Len(a) = 3
        BY <1>5, <2>3, Zenon
      <3>3. IsSeq(b) /\ IsSeq(c) /\ IsSeq(e)
        BY <2>3, <3>1, Zenon
      <3> QED
        BY <3>2, <3>3
    <2>5. PICK x : x = a \o b
      OBVIOUS
    <2>6. IsSeq(x) /\ Len(x) = 3 + Len(b) /\ Len(b) \in Nat /\ \A i \in 1..3 : x[i] = a[i]
      <3>1. IsSeq(a \o b) /\ Len(a \o b) = Len(a) + Len(b) /\ Len(b) \in Nat /\ \A i \in 1..Len(a) : (a \o b)[i] = a[i]
        BY <2>4, JoinIsSeq
      <3> QED
        BY <2>4, <2>5, <3>1
    <2>7. PICK y : y = x \o c
      OBVIOUS
    <2>8. /\ IsSeq(y) /\ Len(y) = Len(x) + Len(c) /\ Len(c) \in Nat
          /\ Len(x) \in Nat /\ \A i \in 1..Len(x) : y[i] = x[i]
      <3>1. IsSeq(x) /\ IsSeq(c)
        BY <2>4, <2>6
      <3>2. /\ IsSeq(x \o c) /\ Len(x \o c) = Len(x) + Len(c) /\ Len(c) \in Nat
            /\ Len(x) \in Nat /\ \A i \in 1..Len(x) : (x \o c)[i] = x[i]
        BY <3>1, JoinIsSeq, Zenon
      <3> QED
        BY <2>7, <3>2, Zenon
    <2>9. PICK z : z = y \o e
      OBVIOUS
    <2>10. \A i \in 1..Len(y) : z[i] = y[i]
      BY <2>4, <2>8, <2>9, JoinIsSeq
    <2>11. z = txs
      BY <2>3, <2>5, <2>7, <2>9 DEF AllStages
    <2>12. \A i \in 1..2 : i \in 1..3 /\ i \in 1..Len(x) /\ i \in 1..Len(y)
      BY <2>6, <2>8
    <2>13. \A i \in 1..2 : a[i].source = out
      BY <1>4, <2>3 DEF ConstructorsHold
    <2> HIDE DEF txs, d
    <2> QED
      BY <2>6, <2>8, <2>10, <2>11, <2>12, <2>13
  <1>7. ASSUME ~rehearsal PROVE Backed(commit, out, manifest, terms.canonical)
    <2>1. /\ history[commit] = history[head] /\ book[commit] = book[head]
          /\ tree = history[head] /\ book[head] = [terms |-> terms, file |-> file]
      BY <1>4, <1>7 DEF InputsAttributed, SameInputs, UtilityDirty, Dirty, Inputs
    <2>2. book[commit].terms = terms /\ book[commit].file = file
      BY <2>1
    <2> HIDE DEF d
    <2> QED
      BY <1>4, <1>5, <2>1, <2>2 DEF Backed, VerifyUtilityTerms
  <1> HIDE DEF d, txs, manifest
  <1>8. CanaryOK(r)
    BY <1>3, <1>4, <1>6, <1>7 DEF CanaryOK
  <1>9. RunOK(r)
    BY <1>3 DEF RunOK
  <1> QED
    BY <1>2, <1>3, <1>8, <1>9

\* The promoter's next stage, at which the compiler's output has to be the reviewed one from the
\* recheck on.
LEMMA CanaryGoesOn ==
  ASSUME CanaryOK(run), run.script = "utilityCanary",
         NEW r, r.script = "utilityCanary", Same(run, r, CanaryFields),
         ~run.rehearsal /\ r.stage \in {"recheck", "finality", "emit"} => run.built = Reviewed
  PROVE  CanaryOK(r)
  <1>1. /\ CanaryFields \subseteq DOMAIN r
        /\ r["remote"] = run["remote"] /\ r["rehearsal"] = run["rehearsal"] /\ r["commit"] = run["commit"]
        /\ r["txs"] = run["txs"] /\ r["built"] = run["built"] /\ r["core"] = run["core"] /\ r["terms"] = run["terms"]
    BY DEF CanaryOK, Same, CanaryFields
  <1> QED
    BY <1>1 DEF CanaryOK

\* The steps of both scripts.
LEMMA UtilityRuns ==
  ASSUME CommitsOK, StagesOK, RunOK(run), run.script \in UtilityScripts, CanaryOK(run), UtilityScriptNext
  PROVE  CanaryOK(run') /\ RunOK(run') /\ run'.script \in UtilityScripts
  <1>0. ASSUME run' = Idle PROVE CanaryOK(run') /\ RunOK(run') /\ run'.script \in UtilityScripts
    BY <1>0, IdleOK DEF Idle, CanaryOK, UtilityScripts
  <1>1. ASSUME NEW to, run' = [run EXCEPT !.stage = to],
               run.script = "utilityCanary" /\ ~run.rehearsal /\ to \in {"recheck", "finality", "emit"} => run.built = Reviewed
        PROVE  CanaryOK(run') /\ RunOK(run') /\ run'.script \in UtilityScripts
    <2>1. PICK r : r = [run EXCEPT !.stage = to]
      OBVIOUS
    <2>2. r.stage = to /\ r.script = run.script /\ Same(run, r, CanaryFields)
      BY <2>1, MovesSame DEF CanaryFields
    <2>3. DOMAIN r = DOMAIN run /\ r = [x \in DOMAIN r |-> r[x]]
      BY <2>1, StageMoves
    <2>4. RunOK(r)
      BY <2>2, <2>3 DEF RunOK, UtilityScripts
    <2>5. CanaryOK(r)
      BY <1>1, <2>2, CanaryGoesOn DEF CanaryOK
    <2> QED
      BY <1>1, <2>1, <2>2, <2>4, <2>5
  <1>2. ASSUME NEW to, NEW facts, run' = Reached(to, facts), to \notin {"recheck", "finality", "emit"},
               DOMAIN facts \cap (CanaryFields \cup {"script", "stage"}) = {}
        PROVE  CanaryOK(run') /\ RunOK(run') /\ run'.script \in UtilityScripts
    <2>1. PICK r : r = Reached(to, facts)
      OBVIOUS
    <2>2. "script" \notin DOMAIN facts /\ "stage" \notin DOMAIN facts /\ DOMAIN facts \cap CanaryFields = {}
      BY <1>2
    <2>3. r.stage = to /\ r.script = run.script /\ Same(run, r, CanaryFields)
      BY <2>1, <2>2, ReachesSame DEF CanaryFields
    <2>4. {"script", "stage"} \subseteq DOMAIN r /\ r = [x \in DOMAIN r |-> r[x]]
      BY <2>1, <2>2, ScriptStays
    <2>5. RunOK(r)
      BY <2>3, <2>4 DEF RunOK, UtilityScripts
    <2>6. CanaryOK(r)
      BY <1>2, <2>3, CanaryGoesOn DEF CanaryOK
    <2> QED
      BY <1>2, <2>1, <2>3, <2>5, <2>6
  <1>3. ASSUME NEW stage, run' = [script |-> "utilityPreflight", stage |-> stage]
        PROVE  CanaryOK(run') /\ RunOK(run') /\ run'.script \in UtilityScripts
    <2>1. PICK r : r = run'
      OBVIOUS
    <2>2. {"script", "stage"} \subseteq DOMAIN r /\ r = [x \in DOMAIN r |-> r[x]] /\ r.script = "utilityPreflight"
      BY <1>3, <2>1
    <2> QED
      BY <2>1, <2>2 DEF RunOK, CanaryOK, UtilityScripts
  <1>4. CASE \E rehearsal, remote \in BOOLEAN : StartUtilityPreflight(rehearsal, remote)
    <2>1. PICK r : r = run'
      OBVIOUS
    <2>2. {"script", "stage"} \subseteq DOMAIN r /\ r = [x \in DOMAIN r |-> r[x]] /\ r.script = "utilityPreflight"
      BY <1>4, <2>1 DEF StartUtilityPreflight
    <2> QED
      BY <2>1, <2>2 DEF RunOK, CanaryOK, UtilityScripts
  <1>5. CASE \E rehearsal, remote \in BOOLEAN : StartCandidate(rehearsal, remote)
    BY <1>5, CandidateStarts DEF UtilityScripts
  <1>6. CASE UtilityReceiptHead
    <2> DEFINE h == Header(IF run.remote THEN final ELSE Latest)
    <2>1. run' = Reached(IF run.script = "utilityCanary" THEN "receipts" ELSE "stateHead", [receiptHead |-> h])
      BY <1>6 DEF UtilityReceiptHead
    <2>2. PICK to : to = (IF run.script = "utilityCanary" THEN "receipts" ELSE "stateHead")
                    /\ to \notin {"recheck", "finality", "emit"}
      OBVIOUS
    <2>3. PICK facts : facts = [receiptHead |-> h]
      OBVIOUS
    <2>4. DOMAIN facts \cap (CanaryFields \cup {"script", "stage"}) = {}
      BY <2>3 DEF CanaryFields
    <2> HIDE DEF h
    <2> QED
      BY <1>2, <2>1, <2>2, <2>3, <2>4
  <1>7. CASE UtilityStateHead
    <2> DEFINE n == IF run.remote THEN safe ELSE Latest
               h == Header(n)
               v == ChainThrough(n)
    <2>1. run' = Idle \/ run' = Reached("core", [stateHead |-> h, view |-> v])
      BY <1>7, Zenon DEF UtilityStateHead, Proceed
    <2> HIDE DEF h, v
    <2>2. PICK facts : facts = [stateHead |-> h, view |-> v]
      OBVIOUS
    <2>3. DOMAIN facts \cap (CanaryFields \cup {"script", "stage"}) = {}
      BY <2>2 DEF CanaryFields
    <2> QED
      BY <1>0, <1>2, <2>1, <2>2, <2>3
  <1>8. CASE UtilityCore
    <2>1. run' = Idle \/ run' = [run EXCEPT !.stage = IF run.script = "utilityCanary" THEN "state" ELSE "receipts"]
      BY <1>8, Proceeds DEF UtilityCore
    <2>2. PICK to : to = (IF run.script = "utilityCanary" THEN "state" ELSE "receipts") /\ to \notin {"recheck", "finality", "emit"}
      OBVIOUS
    <2> QED
      BY <1>0, <1>1, <2>1, <2>2
  <1>9. CASE UtilityPreflightReceipts \/ UtilityCanaryReceipts
    <2>1. CASE UtilityPreflightReceipts
      <3>1. PICK records : run' = Idle \/ run' = Reached("state", [records |-> records])
        BY <2>1, Proceeds DEF UtilityPreflightReceipts
      <3>2. PICK facts : facts = [records |-> records]
        OBVIOUS
      <3>3. DOMAIN facts \cap (CanaryFields \cup {"script", "stage"}) = {}
        BY <3>2 DEF CanaryFields
      <3> QED
        BY <1>0, <1>2, <3>1, <3>2, <3>3
    <2>2. CASE UtilityCanaryReceipts
      <3>1. PICK records : run' = Idle \/ run' = Reached("stateHead", [records |-> records])
        BY <2>2, Proceeds DEF UtilityCanaryReceipts
      <3>2. PICK facts : facts = [records |-> records]
        OBVIOUS
      <3>3. DOMAIN facts \cap (CanaryFields \cup {"script", "stage"}) = {}
        BY <3>2 DEF CanaryFields
      <3> QED
        BY <1>0, <1>2, <3>1, <3>2, <3>3
    <2> QED
      BY <1>9, <2>1, <2>2
  <1>10. CASE UtilityPreflightState
    <2>1. (run' = Idle \/ run' = [run EXCEPT !.stage = "recheck"]) /\ run.script = "utilityPreflight"
      BY <1>10, Proceeds DEF UtilityPreflightState, In
    <2> QED
      BY <1>0, <1>1, <2>1
  <1>11. CASE UtilityCanaryState
    <2>1. run.script = "utilityCanary" /\ run.stage = "state"
      BY <1>11 DEF UtilityCanaryState, In
    <2>2. PICK u : run' = Idle \/ (run' = [run EXCEPT !.stage = "recheck"] /\ (run.remote => UtilityStateHolds(u)))
      BY <1>11 DEF UtilityCanaryState, Proceed, Verdicts
    <2>3. UtilityStateHolds(u) => run.built = Reviewed
      BY UtilityReviewed DEF UtilityStateHolds
    <2>4. ~run.rehearsal => run.remote
      BY <2>1 DEF CanaryOK
    <2> QED
      BY <1>0, <1>1, <2>2, <2>3, <2>4
  <1>12. CASE UtilityPreflightRecheck
    BY <1>0, <1>3, <1>12, Proceeds DEF UtilityPreflightRecheck
  <1>13. CASE UtilityCanaryRecheck
    <2>1. run.script = "utilityCanary" /\ run.stage = "recheck"
      BY <1>13 DEF UtilityCanaryRecheck, In
    <2>2. PICK to : run' = Idle \/ run' = [run EXCEPT !.stage = to]
      BY <1>13, Proceeds DEF UtilityCanaryRecheck
    <2> QED
      BY <1>0, <1>1, <2>1, <2>2 DEF CanaryOK
  <1>14. CASE UtilityConfirmFinality
    <2>1. run.script = "utilityCanary" /\ run.stage = "finality"
      BY <1>14 DEF UtilityConfirmFinality, In
    <2>2. run' = Idle \/ run' = [run EXCEPT !.stage = "emit"]
      BY <1>14, Proceeds DEF UtilityConfirmFinality
    <2> QED
      BY <1>0, <1>1, <2>1, <2>2 DEF CanaryOK
  <1>15. CASE UtilityPreflightEnds \/ UtilityFinalityTimeout \/ EmitCandidate
    BY <1>0, <1>15 DEF UtilityPreflightEnds, UtilityFinalityTimeout, EmitCandidate
  <1> QED
    BY <1>4, <1>5, <1>6, <1>7, <1>8, <1>9, <1>10, <1>11, <1>12, <1>13, <1>14, <1>15 DEF UtilityScriptNext

\* Only the promoter's last stage makes a candidate.
LEMMA CandidateKept ==
  ASSUME [UtilityNext]_<<vars, utilityVars>>
  PROVE  UNCHANGED candidate \/ (EmitCandidate /\ CandidateWellFormed)
  <1>1. CASE EmitCandidate
    BY <1>1 DEF EmitCandidate
  <1>2. CASE UtilityScriptNext /\ ~EmitCandidate
    BY <1>2 DEF UtilityScriptNext, StartUtilityPreflight, StartCandidate, UtilityReceiptHead, UtilityStateHead,
       UtilityCore, UtilityPreflightReceipts, UtilityPreflightState, UtilityPreflightRecheck, UtilityPreflightEnds,
       UtilityCanaryReceipts, UtilityCanaryState, UtilityCanaryRecheck, UtilityConfirmFinality, UtilityFinalityTimeout,
       OnlyUtilityRunChanges, utilityVars
  <1>3. CASE UtilityChainNext \/ UtilityHeadsNext \/ UNCHANGED <<vars, utilityVars>>
    BY <1>3 DEF UtilityChainNext, UtilityHeadsNext, utilityVars
  <1>4. CASE UtilityTreeNext
    BY <1>4 DEF UtilityTreeNext, EditTerms, GenerateTerms, GenerateTermsHash, UtilityCommit, UtilityCheckout, utilityVars
  <1>5. CASE UtilityBroadcastNext
    BY <1>5 DEF UtilityBroadcastNext, DeployUtilities, RunStage, HandStage, RecordStage, Broadcast
  <1> QED
    BY <1>1, <1>2, <1>3, <1>4, <1>5 DEF UtilityNext

\* A candidate is printed as its script found things.
LEMMA CandidateSteps ==
  ASSUME AttributionInvariant, [UtilityNext]_<<vars, utilityVars>>
  PROVE  CandidateOK'
  <1>1. \A commit, source, core, text : Backed(commit, source, core, text) => Backed(commit, source, core, text)'
    BY BackedStays, CommitsSteps DEF AttributionInvariant
  <1>2. CASE UNCHANGED candidate
    BY <1>1, <1>2 DEF AttributionInvariant, CandidateOK, ForProduction
  <1>3. CASE EmitCandidate /\ CandidateWellFormed
    <2>1. run.script = "utilityCanary" /\ run.stage = "emit"
      BY <1>3 DEF EmitCandidate, In
    <2>2. candidate' = [productionAllowed |-> ~run.rehearsal, sourceCommit |-> run.commit, core |-> run.core.release,
                        receipts |-> run.txs, linkage |-> run.stateHead, terms |-> run.terms]
      BY <1>3 DEF EmitCandidate, BuildUtilityV2ReleaseCandidate
    <2>3. /\ candidate'.productionAllowed = ~run.rehearsal /\ candidate'.sourceCommit = run.commit
          /\ candidate'.core = run.core.release /\ candidate'.receipts = run.txs /\ candidate'.terms = run.terms
      BY <2>2
    <2>4. PICK commit, core, text : commit = run.commit /\ core = run.core /\ text = run.terms
      BY Zenon
    <2>5. ASSUME ~run.rehearsal
          PROVE  Backed(commit, Reviewed, core, text)' /\ \A i \in 1..2 : run.txs[i].source = Reviewed
      BY <1>1, <2>1, <2>4, <2>5 DEF AttributionInvariant, CanaryOK
    <2> QED
      BY <2>3, <2>4, <2>5 DEF CandidateOK, ForProduction
  <1> QED
    BY <1>2, <1>3, CandidateKept

\* Outside the scripts, a script is left as it is or stops.
LEMMA UtilityRunKept ==
  ASSUME UtilityNext, ~UtilityScriptNext
  PROVE  run' = run \/ run' = Idle
  <1>1. CASE UtilityChainNext \/ UtilityHeadsNext
    BY <1>1 DEF UtilityChainNext, UtilityHeadsNext, workVars
  <1>2. CASE UtilityTreeNext
    BY <1>2 DEF UtilityTreeNext, EditSources, Build, RetainRelease, Interrupt, EditTerms, GenerateTerms, GenerateTermsHash,
       UtilityCommit, UtilityCheckout, Commit, vars, workVars
  <1>3. CASE UtilityBroadcastNext
    BY <1>3 DEF UtilityBroadcastNext, DeployUtilities, RunStage, HandStage, RecordStage, Broadcast, vars, workVars
  <1> QED
    BY <1>1, <1>2, <1>3 DEF UtilityNext

\* Every step keeps the invariant.
LEMMA AttributionSteps ==
  ASSUME AttributionInvariant, [UtilityNext]_<<vars, utilityVars>>
  PROVE  AttributionInvariant'
  <1>1. CommitsOK' /\ CommitsKept /\ StagesOK' /\ CandidateOK'
    BY CommitsSteps, StagesSteps, CandidateSteps DEF AttributionInvariant
  <1>2. CanaryOK(run') /\ RunOK(run') /\ run'.script \in UtilityScripts
    <2>1. CASE UtilityScriptNext
      BY <2>1, UtilityRuns DEF AttributionInvariant
    <2>2. CASE UtilityNext /\ ~UtilityScriptNext
      <3>1. CASE run' = run
        BY <3>1 DEF AttributionInvariant
      <3>2. CASE run' = Idle
        BY <3>2, IdleOK DEF Idle, CanaryOK, UtilityScripts
      <3> QED
        BY <2>2, <3>1, <3>2, UtilityRunKept
    <2>3. CASE UNCHANGED <<vars, utilityVars>>
      BY <2>3 DEF AttributionInvariant, vars, workVars
    <2> QED
      BY <2>1, <2>2, <2>3
  <1>3. (CanaryOK(run))'
    <2>1. PICK r : r = run'
      OBVIOUS
    <2>2. \A commit, source, core, text : Backed(commit, source, core, text) => Backed(commit, source, core, text)'
      BY <1>1, BackedStays DEF AttributionInvariant
    <2>3. CanaryOK(r)
      BY <1>2, <2>1
    <2>4. CanaryOK(r)'
      BY <2>2, <2>3 DEF CanaryOK
    <2> QED
      BY <2>1, <2>4 DEF CanaryOK
  <1>4. (RunOK(run))' /\ (run.script \in UtilityScripts)'
    <2>1. PICK r : r = run'
      OBVIOUS
    <2>2. RunOK(r) /\ r.script \in UtilityScripts
      BY <1>2, <2>1
    <2>3. (RunOK(run))'
      BY <2>1, <2>2 DEF RunOK, UtilityScripts
    <2> QED
      BY <1>2, <2>3
  <1> QED
    BY <1>1, <1>3, <1>4 DEF AttributionInvariant

\* The invariant holds when the core is published and no utility is deployed.
LEMMA AttributionStarts == UtilityInit => AttributionInvariant
  <1> SUFFICES ASSUME UtilityInit PROVE AttributionInvariant
    OBVIOUS
  <1>1. /\ history = <<Reviewed>> /\ head = 1 /\ run = Idle /\ stages = [stage \in Stages |-> NoRun]
        /\ book = <<Inputs>> /\ candidate = NoCandidate
    BY DEF UtilityInit
  <1>2. CommitsOK
    BY <1>1, TuplesAreSeqs DEF CommitsOK
  <1>3. StagesOK
    <2>1. IsSeq(NoRun.txs)
      BY EmptySeq DEF NoRun, IsSeq
    <2>2. ArtifactOK(NoRun)
      BY <2>1 DEF ArtifactOK, NoRun
    <2>3. stages["deploy"] = NoRun
      BY <1>1 DEF Stages
    <2> QED
      BY <1>1, <2>2, <2>3 DEF StagesOK
  <1>4. RunOK(run) /\ run.script \in UtilityScripts /\ CanaryOK(run)
    BY <1>1, IdleOK DEF Idle, CanaryOK, UtilityScripts
  <1>5. CandidateOK
    BY <1>1 DEF CandidateOK, ForProduction
  <1> QED
    BY <1>2, <1>3, <1>4, <1>5 DEF AttributionInvariant

(* A candidate for production names a commit that holds everything it was        *)
(* checked against: its commit is compared with HEAD, HEAD with the tree, the    *)
(* compiler's output with the tree, and that output with the review; and commits *)
(* do not change, whatever the tree, HEAD and the generator do afterwards.       *)
THEOREM CandidateAttributed == UtilitySpec => []CandidateIsAttributed
  <1>1. AttributionInvariant => CandidateIsAttributed
    BY DEF AttributionInvariant, CandidateOK, CandidateIsAttributed, Backed
  <1> QED
    BY <1>1, AttributionStarts, AttributionSteps, PTL DEF UtilitySpec

-----------------------------------------------------------------------------
(* The rewards contract's books.                                              *)

UtilityFields ==
  {"rewards", "boost", "core", "linked", "source", "configurator", "schedule", "checkpoint", "index", "pot",
   "reserve", "carry", "notified", "claimed", "held", "positions", "boosts", "approved", "log"}

Shaped(u) == u = [f \in UtilityFields |-> u[f]]

ScheduleOK(s) ==
  /\ s.fee \in Int /\ s.claim \in Int /\ s.weekly \in Int
  /\ s.fee <= s.claim /\ s.claim <= s.weekly

IndexOK(u) ==
  /\ u.checkpoint \in Nat
  /\ \A e \in 0..u.checkpoint : u.index[e] \in Nat
  /\ \A d, e \in 0..u.checkpoint : d <= e => u.index[d] <= u.index[e]

\* What a position began with, and how far it has claimed.
PositionOK(p, checkpoint) ==
  /\ p = [owner |-> p.owner, weight |-> p.weight, unlockAt |-> p.unlockAt, activation |-> p.activation,
          last |-> p.last, expiry |-> p.expiry]
  /\ p.weight \in Nat /\ p.activation \in Nat /\ p.last \in Nat /\ p.expiry \in Nat
  /\ p.activation <= p.last /\ p.last <= p.expiry
  /\ p.last = p.activation \/ p.last <= checkpoint

PositionsOK(u) == IsSeq(u.positions) /\ \A i \in 1..Len(u.positions) : PositionOK(u.positions[i], u.checkpoint)

BoostOK(b) == b.fee \in Nat /\ b.principal = BoostGross - b.fee

BoostsOK(u) == IsSeq(u.boosts) /\ \A i \in 1..Len(u.boosts) : BoostOK(u.boosts[i])

LedgersOK(u) ==
  /\ u.pot \in Nat /\ u.reserve \in Nat /\ u.notified \in Nat /\ u.claimed \in Nat /\ u.held \in Nat
  /\ u.reserve + u.claimed = u.notified
  /\ FeesForwarded(u) = u.notified
  /\ Cardinality(BoostedTokens(u)) <= MaxActiveBoosts
  /\ Solvent(u)

\* What a position can claim, before it is rounded: the scale is Q128.
Due(u, i) ==
  LET p == u.positions[i]
  IN IF EndEpoch(u, p) <= p.last THEN 0 ELSE p.weight * (u.index[EndEpoch(u, p)] - u.index[p.last])

TotalDue(u) == SumFunctionOnSet([i \in 1..Len(u.positions) |-> Due(u, i)], 1..Len(u.positions))

\* All that can be claimed, was claimed or waits for its period was paid in.
DuesCovered(u) == TotalDue(u) + (u.claimed + u.pot) * Q128 <= u.notified * Q128

\* Before the contract is there nothing is.
Undeployed(u) == u.rewards = 0 => u.source = 0 /\ ~u.configurator /\ u.checkpoint = 0 /\ u.positions = <<>>

BooksOK(u) ==
  /\ Shaped(u) /\ ScheduleOK(u.schedule)
  /\ IndexOK(u) /\ PositionsOK(u) /\ BoostsOK(u) /\ LedgersOK(u)
  /\ DuesCovered(u) /\ Undeployed(u)

-----------------------------------------------------------------------------

\* Division of any integer rounds down.
LEMMA DivisionFloors ==
  ASSUME NEW n \in Int, NEW d \in Nat \ {0}
  PROVE  n \div d \in Int /\ n < (n \div d) * d + d
  OBVIOUS

\* The bounds the proofs need.
LEMMA UtilityNumbers ==
  /\ BootstrapLength \in Nat \ {0} /\ WeekLength \in Nat \ {0} /\ LockLength \in Nat \ {0}
  /\ Fee \in Nat \ {0} /\ Q128 \in Nat \ {0} /\ MaxActiveBoosts \in Nat \ {0}
  /\ MondayOffset \in Nat /\ BoostGross \in Nat /\ BoostGross > Fee
  BY UtilityAssumption

\* The constructor's boundaries follow each other.
LEMMA SchedulesAreOrdered ==
  ASSUME NEW start \in Nat
  PROVE  LET s == ScheduleFrom(start)
         IN /\ s.bootstrap = start /\ s.fee = start + BootstrapLength /\ s.claim = s.fee + BootstrapLength
            /\ s.fee \in Nat /\ s.claim \in Nat /\ s.weekly \in Int /\ s.claim < s.weekly
            /\ s.fee < s.claim /\ ScheduleOK(s)
  <1> DEFINE s == ScheduleFrom(start)
             x == ((start + BootstrapLength) + BootstrapLength) - MondayOffset
             q == x \div WeekLength
  <1>1. /\ s.bootstrap = start /\ s.fee = start + BootstrapLength /\ s.claim = (start + BootstrapLength) + BootstrapLength
        /\ s.weekly = MondayOffset + (q + 1) * WeekLength
    <2>1. s.bootstrap = start
      BY DEF ScheduleFrom
    <2>2. s.fee = start + BootstrapLength
      BY DEF ScheduleFrom
    <2>3. s.claim = (start + BootstrapLength) + BootstrapLength
      BY DEF ScheduleFrom
    <2>4. s.weekly = MondayOffset + (q + 1) * WeekLength
      BY Zenon DEF ScheduleFrom
    <2> QED
      BY <2>1, <2>2, <2>3, <2>4
  <1>2. x \in Int /\ WeekLength \in Nat \ {0}
    BY UtilityNumbers
  <1>3. q \in Int /\ x < q * WeekLength + WeekLength
    <2>1. PICK y \in Int, d \in Nat \ {0} : y = x /\ d = WeekLength
      BY <1>2
    <2>2. y \div d \in Int /\ y < (y \div d) * d + d
      BY DivisionFloors
    <2> QED
      BY <2>1, <2>2
  <1>4. (q + 1) * WeekLength = q * WeekLength + WeekLength
    BY <1>2, <1>3
  <1>5. q * WeekLength \in Int
    BY <1>2, <1>3
  <1> HIDE DEF q, s
  <1>6. s.claim < s.weekly
    BY <1>1, <1>3, <1>4, <1>5, UtilityNumbers
  <1> QED
    BY <1>1, <1>3, <1>4, <1>5, <1>6, UtilityNumbers DEF ScheduleOK, s

\* Epochs are numbers that grow with the clock.
LEMMA EpochsGrow ==
  ASSUME NEW s, ScheduleOK(s), NEW time \in Int, NEW later \in Int, time <= later
  PROVE  EpochAt(s, time) \in Nat /\ EpochAt(s, time) <= EpochAt(s, later)
  <1>1. WeekLength \in Nat \ {0}
    BY UtilityNumbers
  <1>2. ASSUME NEW t \in Int PROVE
          /\ t < s.fee => EpochAt(s, t) = 0
          /\ t >= s.fee /\ t < s.claim => EpochAt(s, t) = 1
          /\ t >= s.claim /\ t < s.weekly => EpochAt(s, t) = 2
          /\ t >= s.weekly => EpochAt(s, t) = 3 + (t - s.weekly) \div WeekLength /\ (t - s.weekly) \div WeekLength \in Nat
    <2>1. t >= s.weekly => (t - s.weekly) \div WeekLength \in Nat
      BY <1>1, DivisionBounds DEF ScheduleOK
    <2>2. CASE t < s.fee
      BY <2>2 DEF EpochAt, ScheduleOK
    <2>3. CASE t >= s.fee /\ t < s.claim
      BY <2>3 DEF EpochAt, ScheduleOK
    <2>4. CASE t >= s.claim /\ t < s.weekly
      BY <2>4 DEF EpochAt, ScheduleOK
    <2>5. CASE t >= s.weekly
      BY <2>1, <2>5 DEF EpochAt, ScheduleOK
    <2> QED
      BY <2>2, <2>3, <2>4, <2>5 DEF ScheduleOK
  <1>3. CASE time >= s.weekly
    <2>1. time - s.weekly \in Nat /\ later - s.weekly \in Nat /\ time - s.weekly <= later - s.weekly
      BY <1>3 DEF ScheduleOK
    <2>2. (time - s.weekly) \div WeekLength <= (later - s.weekly) \div WeekLength
      BY <1>1, <2>1, DivisionMonotone
    <2> QED
      BY <1>2, <1>3, <2>1, <2>2 DEF ScheduleOK
  <1>4. CASE time < s.weekly
    BY <1>2, <1>4 DEF ScheduleOK
  <1> QED
    BY <1>3, <1>4 DEF ScheduleOK

\* Positions and boosts are lists over a finite domain.
LEMMA ListDomain ==
  ASSUME NEW s, IsSeq(s)
  PROVE  Len(s) \in Nat /\ DOMAIN s = 1..Len(s) /\ IsFiniteSet(1..Len(s))
  BY LenProperties, SeqIsSeq, FS_Interval DEF IsSeq

\* What positions can claim are numbers, and so is their sum.
LEMMA DuesAreNumbers ==
  ASSUME NEW u, IndexOK(u), PositionsOK(u)
  PROVE  /\ \A i \in 1..Len(u.positions) :
              /\ EndEpoch(u, u.positions[i]) \in 0..u.checkpoint
              /\ EndEpoch(u, u.positions[i]) <= u.positions[i].expiry
              /\ Due(u, i) \in Nat
         /\ TotalDue(u) \in Nat
  <1>1. Len(u.positions) \in Nat /\ IsFiniteSet(1..Len(u.positions))
    BY ListDomain DEF PositionsOK
  <1>2. ASSUME NEW i \in 1..Len(u.positions) PROVE
          /\ EndEpoch(u, u.positions[i]) \in 0..u.checkpoint
          /\ EndEpoch(u, u.positions[i]) <= u.positions[i].expiry
          /\ Due(u, i) \in Nat
    <2> DEFINE p == u.positions[i]
    <2>1. p.weight \in Nat /\ p.last \in Nat /\ p.expiry \in Nat
      BY DEF PositionsOK, PositionOK
    <2>2. EndEpoch(u, p) \in 0..u.checkpoint /\ EndEpoch(u, p) <= p.expiry
      BY <2>1 DEF EndEpoch, IndexOK
    <2>3. CASE EndEpoch(u, p) <= p.last
      BY <2>2, <2>3 DEF Due
    <2>4. CASE ~(EndEpoch(u, p) <= p.last)
      <3>1. p.last \in 0..u.checkpoint /\ p.last <= EndEpoch(u, p)
        BY <2>1, <2>2, <2>4 DEF IndexOK
      <3>2. u.index[EndEpoch(u, p)] - u.index[p.last] \in Nat
        BY <2>2, <3>1 DEF IndexOK
      <3>3. p.weight * (u.index[EndEpoch(u, p)] - u.index[p.last]) \in Nat
        BY <2>1, <3>2
      <3> QED
        BY <2>2, <2>4, <3>3 DEF Due
    <2> QED
      BY <2>2, <2>3, <2>4
  <1>3. TotalDue(u) \in Nat
    BY <1>1, <1>2, SumNatural DEF TotalDue
  <1> QED
    BY <1>2, <1>3

\* What is locked and what was paid in fees, as sums over the lists.
LEMMA ListTotals ==
  ASSUME NEW u, PositionsOK(u), BoostsOK(u)
  PROVE  /\ LockedPrincipal(u) = SumFunctionOnSet([i \in 1..Len(u.positions) |-> u.positions[i].weight], 1..Len(u.positions))
         /\ FeesForwarded(u) = SumFunctionOnSet([i \in 1..Len(u.boosts) |-> u.boosts[i].fee], 1..Len(u.boosts))
         /\ LockedPrincipal(u) \in Nat /\ FeesForwarded(u) \in Nat
  <1>1. /\ DOMAIN u.positions = 1..Len(u.positions) /\ IsFiniteSet(1..Len(u.positions))
        /\ DOMAIN u.boosts = 1..Len(u.boosts) /\ IsFiniteSet(1..Len(u.boosts))
    BY ListDomain DEF PositionsOK, BoostsOK
  <1>2. PICK w : w = [i \in 1..Len(u.positions) |-> u.positions[i].weight]
    OBVIOUS
  <1>3. PICK f : f = [i \in 1..Len(u.boosts) |-> u.boosts[i].fee]
    OBVIOUS
  <1>4. LockedPrincipal(u) = SumFunctionOnSet(w, DOMAIN w)
    BY Zenon, <1>1, <1>2 DEF LockedPrincipal, SumFunction
  <1>5. FeesForwarded(u) = SumFunctionOnSet(f, DOMAIN f)
    BY Zenon, <1>1, <1>3 DEF FeesForwarded, SumFunction
  <1>6. /\ DOMAIN w = 1..Len(u.positions) /\ \A i \in 1..Len(u.positions) : w[i] \in Nat
        /\ DOMAIN f = 1..Len(u.boosts) /\ \A i \in 1..Len(u.boosts) : f[i] \in Nat
    BY <1>2, <1>3 DEF PositionsOK, PositionOK, BoostsOK, BoostOK
  <1>7. /\ SumFunctionOnSet(w, 1..Len(u.positions)) \in Nat
        /\ SumFunctionOnSet(f, 1..Len(u.boosts)) \in Nat
    BY <1>1, <1>6, SumNatural
  <1> QED
    BY <1>2, <1>3, <1>4, <1>5, <1>6, <1>7

\* The sums read nothing but the positions, the boosts and the index.
LEMMA SumsCarried ==
  ASSUME NEW u, NEW v, IndexOK(u), PositionsOK(u), BoostsOK(u),
         v.checkpoint = u.checkpoint, v.index = u.index, v.positions = u.positions, v.boosts = u.boosts
  PROVE  /\ TotalDue(v) = TotalDue(u) /\ LockedPrincipal(v) = LockedPrincipal(u)
         /\ FeesForwarded(v) = FeesForwarded(u) /\ BoostedTokens(v) = BoostedTokens(u)
         /\ IndexOK(v) /\ PositionsOK(v) /\ BoostsOK(v)
  <1>1. TotalDue(v) = TotalDue(u)
    <2>1. [i \in 1..Len(v.positions) |-> Due(v, i)] = [i \in 1..Len(u.positions) |-> Due(u, i)]
      BY DEF Due, EndEpoch
    <2> QED
      BY <2>1 DEF TotalDue
  <1>2. LockedPrincipal(v) = LockedPrincipal(u)
    <2>1. [i \in DOMAIN v.positions |-> v.positions[i].weight] = [i \in DOMAIN u.positions |-> u.positions[i].weight]
      OBVIOUS
    <2> QED
      BY Zenon, <2>1 DEF LockedPrincipal
  <1>3. FeesForwarded(v) = FeesForwarded(u)
    <2>1. [i \in DOMAIN v.boosts |-> v.boosts[i].fee] = [i \in DOMAIN u.boosts |-> u.boosts[i].fee]
      OBVIOUS
    <2> QED
      BY Zenon, <2>1 DEF FeesForwarded
  <1>4. BoostedTokens(v) = BoostedTokens(u)
    BY DEF BoostedTokens
  <1>5. IndexOK(v) /\ PositionsOK(v) /\ BoostsOK(v)
    BY DEF IndexOK, PositionsOK, BoostsOK
  <1> QED
    BY <1>1, <1>2, <1>3, <1>4, <1>5

\* Tokens may be sent to the contract, and what is no ledger may change.
LEMMA BooksCarried ==
  ASSUME NEW u, NEW v, BooksOK(u), Shaped(v), ScheduleOK(v.schedule), Undeployed(v),
         v.checkpoint = u.checkpoint, v.index = u.index, v.positions = u.positions, v.boosts = u.boosts,
         v.pot = u.pot, v.reserve = u.reserve, v.notified = u.notified, v.claimed = u.claimed,
         v.held \in Nat, u.held <= v.held
  PROVE  BooksOK(v)
  <1>1. /\ TotalDue(v) = TotalDue(u) /\ LockedPrincipal(v) = LockedPrincipal(u)
        /\ FeesForwarded(v) = FeesForwarded(u) /\ BoostedTokens(v) = BoostedTokens(u)
        /\ IndexOK(v) /\ PositionsOK(v) /\ BoostsOK(v)
    BY SumsCarried DEF BooksOK
  <1>2. DuesCovered(v)
    BY <1>1 DEF BooksOK, DuesCovered
  <1>3. LockedPrincipal(u) \in Nat
    BY ListTotals DEF BooksOK
  <1>4. LedgersOK(v)
    BY <1>1, <1>3 DEF BooksOK, LedgersOK, Solvent
  <1> QED
    BY <1>1, <1>2, <1>4 DEF BooksOK

\* The weight of an epoch is a sum over the positions that are eligible in it.
LEMMA WeightIsNumber ==
  ASSUME NEW u, PositionsOK(u), NEW epoch \in Nat
  PROVE  /\ EligibleWeight(u, epoch) \in Nat
         /\ Eligible(u, epoch) \subseteq 1..Len(u.positions) /\ IsFiniteSet(Eligible(u, epoch))
         /\ EligibleWeight(u, epoch)
              = SumFunctionOnSet([i \in 1..Len(u.positions) |-> u.positions[i].weight], Eligible(u, epoch))
  <1>1. DOMAIN u.positions = 1..Len(u.positions) /\ IsFiniteSet(1..Len(u.positions))
    BY ListDomain DEF PositionsOK
  <1>2. Eligible(u, epoch) \subseteq 1..Len(u.positions)
    BY <1>1 DEF Eligible
  <1>3. IsFiniteSet(Eligible(u, epoch))
    BY <1>1, <1>2, FS_Subset
  <1>4. PICK w : w = [i \in 1..Len(u.positions) |-> u.positions[i].weight]
    OBVIOUS
  <1>5. EligibleWeight(u, epoch) = SumFunctionOnSet(w, Eligible(u, epoch))
    BY Zenon, <1>1, <1>4 DEF EligibleWeight
  <1>6. \A i \in Eligible(u, epoch) : w[i] \in Nat
    BY <1>2, <1>4 DEF PositionsOK, PositionOK
  <1>7. SumFunctionOnSet(w, Eligible(u, epoch)) \in Nat
    BY <1>3, <1>6, SumNatural
  <1> QED
    BY <1>2, <1>3, <1>4, <1>5, <1>7

\* What a checkpoint changes.
LEMMA CheckpointSets ==
  ASSUME NEW u, Shaped(u), NEW epoch, ~(epoch <= u.checkpoint)
  PROVE  LET v == Checkpointed(u, epoch)
         IN /\ Shaped(v) /\ v.checkpoint = epoch /\ v.pot = 0
            /\ v.index = [e \in 0..epoch |-> IF e <= u.checkpoint THEN u.index[e]
                            ELSE u.index[u.checkpoint]
                                   + (IF EligibleWeight(u, u.checkpoint) = 0 THEN 0
                                      ELSE (u.pot * Q128) \div EligibleWeight(u, u.checkpoint))]
  BY DEF Checkpointed, Shaped, UtilityFields

\* What it leaves alone.
LEMMA CheckpointLeaves ==
  ASSUME NEW u, Shaped(u), NEW epoch
  PROVE  LET v == Checkpointed(u, epoch)
         IN /\ Shaped(v)
            /\ v.positions = u.positions /\ v.boosts = u.boosts /\ v.schedule = u.schedule
            /\ v.rewards = u.rewards /\ v.boost = u.boost /\ v.source = u.source /\ v.configurator = u.configurator
            /\ v.reserve = u.reserve /\ v.notified = u.notified /\ v.claimed = u.claimed /\ v.held = u.held
            /\ v.approved = u.approved /\ v.log = u.log
  <1>1. CASE epoch <= u.checkpoint
    BY <1>1 DEF Checkpointed
  <1>2. CASE ~(epoch <= u.checkpoint)
    BY <1>2 DEF Checkpointed, Shaped, UtilityFields
  <1> QED
    BY <1>1, <1>2

\* v is u after a checkpoint that adds delta to the index.
IndexGrown(u, v, epoch, delta) ==
  /\ v.positions = u.positions /\ v.checkpoint = epoch
  /\ v.index = [e \in 0..epoch |-> IF e <= u.checkpoint THEN u.index[e] ELSE u.index[u.checkpoint] + delta]

\* A checkpoint gives each eligible position its share of the fees of the epoch it was left at.
LEMMA DueGrows ==
  ASSUME NEW u, NEW v, IndexOK(u), PositionsOK(u), NEW epoch \in Nat, epoch > u.checkpoint,
         NEW delta \in Nat, IndexGrown(u, v, epoch, delta), NEW i \in 1..Len(u.positions)
  PROVE  Due(v, i) = Due(u, i) + (IF i \in Eligible(u, u.checkpoint) THEN u.positions[i].weight * delta ELSE 0)
  <1> DEFINE p == u.positions[i]
             c == u.checkpoint
  <1>1. /\ p.weight \in Nat /\ p.last \in Nat /\ p.expiry \in Nat /\ p.activation \in Nat /\ c \in Nat
        /\ p.activation <= p.last /\ p.last <= p.expiry /\ (p.last = p.activation \/ p.last <= c)
    BY DEF PositionsOK, PositionOK, IndexOK
  <1> USE DEF IndexGrown
  <1>2. i \in Eligible(u, c) <=> p.activation <= c /\ c < p.expiry
    BY ListDomain DEF Eligible, PositionsOK
  <1>3. CASE p.expiry <= c
    <2>1. EndEpoch(u, p) = p.expiry /\ EndEpoch(v, p) = p.expiry
      BY <1>1, <1>3 DEF EndEpoch
    <2>2. v.index[p.expiry] = u.index[p.expiry] /\ v.index[p.last] = u.index[p.last]
      BY <1>1, <1>3
    <2>3. Due(v, i) = Due(u, i)
      BY <2>1, <2>2 DEF Due
    <2>4. Due(u, i) \in Nat
      BY DuesAreNumbers
    <2> QED
      BY <1>1, <1>2, <1>3, <2>3, <2>4
  <1>4. CASE p.expiry > c /\ p.last <= c
    <2>1. EndEpoch(u, p) = c /\ EndEpoch(v, p) \in 0..epoch /\ EndEpoch(v, p) > c
      BY <1>1, <1>4 DEF EndEpoch
    <2>2. u.index[c] \in Nat /\ u.index[p.last] \in Nat
      BY <1>1, <1>4 DEF IndexOK
    <2>3. v.index[EndEpoch(v, p)] = u.index[c] + delta /\ v.index[p.last] = u.index[p.last]
      BY <1>1, <1>4, <2>1
    <2>4. Due(u, i) = p.weight * (u.index[c] - u.index[p.last])
      <3>1. CASE c = p.last
        <4>1. p.weight * (u.index[c] - u.index[p.last]) = 0
          BY <1>1, <2>2, <3>1
        <4> QED
          BY <1>1, <2>1, <3>1, <4>1 DEF Due
      <3>2. CASE c # p.last
        BY <1>1, <1>4, <2>1, <3>2 DEF Due
      <3> QED
        BY <3>1, <3>2
    <2>5. Due(v, i) = p.weight * ((u.index[c] + delta) - u.index[p.last])
      BY <1>1, <1>4, <2>1, <2>3 DEF Due
    <2>6. PICK w \in Nat, a \in Nat, b \in Nat : w = p.weight /\ a = u.index[c] /\ b = u.index[p.last]
      BY <1>1, <2>2
    <2>7. i \in Eligible(u, c)
      BY <1>1, <1>2, <1>4
    <2>8. Due(v, i) = p.weight * (u.index[c] - u.index[p.last]) + p.weight * delta
      <3>1. w * ((a + delta) - b) = w * (a - b) + w * delta
        OBVIOUS
      <3> QED
        BY <2>5, <2>6, <3>1
    <2> QED
      BY <2>4, <2>7, <2>8
  <1>5. CASE p.expiry > c /\ p.last > c
    <2>1. EndEpoch(u, p) = c /\ EndEpoch(v, p) \in 0..epoch /\ EndEpoch(v, p) > c
      BY <1>1, <1>5 DEF EndEpoch
    <2>2. Due(u, i) = 0
      BY <1>1, <1>5, <2>1 DEF Due
    <2>3. u.index[c] + delta \in Nat
      BY <1>1 DEF IndexOK
    <2>4. Due(v, i) = 0
      <3>1. CASE EndEpoch(v, p) <= p.last
        BY <3>1 DEF Due
      <3>2. CASE ~(EndEpoch(v, p) <= p.last)
        <4>1. v.index[EndEpoch(v, p)] = u.index[c] + delta /\ v.index[p.last] = u.index[c] + delta
          BY <1>1, <1>5, <2>1, <3>2
        <4>2. p.weight * ((u.index[c] + delta) - (u.index[c] + delta)) = 0
          BY <1>1, <2>3
        <4> QED
          BY <3>2, <4>1, <4>2 DEF Due
      <3> QED
        BY <3>1, <3>2
    <2>5. i \notin Eligible(u, c)
      BY <1>1, <1>2, <1>5
    <2> QED
      BY <2>2, <2>4, <2>5
  <1> QED
    BY <1>1, <1>3, <1>4, <1>5

\* And all of it together is no more than the fees.
LEMMA CheckpointCovers ==
  ASSUME NEW u, BooksOK(u), NEW epoch \in Nat, epoch > u.checkpoint
  PROVE  LET v == Checkpointed(u, epoch) IN IndexOK(v) /\ PositionsOK(v) /\ DuesCovered(v)
  <1> DEFINE weight == EligibleWeight(u, u.checkpoint)
             share == IF weight = 0 THEN 0 ELSE (u.pot * Q128) \div weight
             D == 1..Len(u.positions)
  <1>0. /\ IndexOK(u) /\ PositionsOK(u) /\ DuesCovered(u) /\ u.checkpoint \in Nat /\ u.pot \in Nat /\ Shaped(u)
        /\ u.notified \in Nat /\ u.claimed \in Nat
    BY DEF BooksOK, IndexOK, LedgersOK
  <1>1. PICK v : v = Checkpointed(u, epoch)
    OBVIOUS
  <1>2. weight \in Nat /\ Q128 \in Nat \ {0}
    BY <1>0, WeightIsNumber, UtilityNumbers
  <1>3. share \in Nat /\ share * weight <= u.pot * Q128
    <2>1. u.pot * Q128 \in Nat
      BY <1>0, <1>2
    <2>2. CASE weight = 0
      BY <2>1, <2>2
    <2>3. CASE weight # 0
      <3>1. PICK w \in Nat \ {0}, n \in Nat : w = weight /\ n = u.pot * Q128
        BY <1>2, <2>1, <2>3
      <3>2. n \div w \in Nat /\ (n \div w) * w <= n
        BY DivisionBounds
      <3> QED
        BY <2>3, <3>1, <3>2
    <2> QED
      BY <2>2, <2>3
  <1>4. PICK delta \in Nat : delta = share /\ delta * weight <= u.pot * Q128
    BY <1>3
  <1>5. /\ v.checkpoint = epoch /\ v.pot = 0 /\ v.positions = u.positions
        /\ v.claimed = u.claimed /\ v.notified = u.notified
        /\ v.index = [e \in 0..epoch |-> IF e <= u.checkpoint THEN u.index[e] ELSE u.index[u.checkpoint] + delta]
    <2>0. Shaped(u) /\ ~(epoch <= u.checkpoint)
      BY <1>0
    <2>1. v.checkpoint = epoch /\ v.pot = 0
      BY <1>1, <2>0, CheckpointSets
    <2>2. v.positions = u.positions /\ v.claimed = u.claimed /\ v.notified = u.notified
      BY <1>1, <2>0, CheckpointLeaves
    <2>3. v.index = [e \in 0..epoch |-> IF e <= u.checkpoint THEN u.index[e] ELSE u.index[u.checkpoint] + delta]
      BY <1>1, <1>4, <2>0, CheckpointSets
    <2> QED
      BY <2>1, <2>2, <2>3
  <1> HIDE DEF share
  <1>6. IndexOK(v)
    <2>1. u.index[u.checkpoint] \in Nat /\ u.index[u.checkpoint] + delta \in Nat
      BY <1>0 DEF IndexOK
    <2>2. \A e \in 0..epoch : v.index[e] \in Nat
      BY <1>0, <1>5, <2>1 DEF IndexOK
    <2>3. \A e \in 0..u.checkpoint : u.index[e] <= u.index[u.checkpoint]
      BY <1>0 DEF IndexOK
    <2>4. \A d, e \in 0..epoch : d <= e => v.index[d] <= v.index[e]
      BY <1>0, <1>5, <2>1, <2>3 DEF IndexOK
    <2> QED
      BY <1>5, <2>2, <2>4 DEF IndexOK
  <1>7. PositionsOK(v)
    BY <1>0, <1>5 DEF PositionsOK, PositionOK
  <1>8. TotalDue(v) = TotalDue(u) + weight * delta
    <2> DEFINE E == Eligible(u, u.checkpoint)
               f == [i \in D |-> Due(u, i)]
               g == [i \in D |-> IF i \in E THEN u.positions[i].weight * delta ELSE 0]
               h == [i \in D |-> Due(v, i)]
               w == [i \in D |-> u.positions[i].weight]
    <2>1. /\ IsFiniteSet(D) /\ E \subseteq D /\ IsFiniteSet(E) /\ weight = SumFunctionOnSet(w, E)
          /\ IsFiniteSet(D \ E)
      BY <1>0, WeightIsNumber, ListDomain, FS_Difference DEF PositionsOK
    <2>2. \A i \in D : u.positions[i].weight \in Nat /\ u.positions[i].weight * delta \in Nat
      <3>1. \A m \in Nat : m * delta \in Nat
        OBVIOUS
      <3>2. \A i \in D : u.positions[i].weight \in Nat
        BY <1>0 DEF PositionsOK, PositionOK
      <3> QED
        BY <3>1, <3>2
    <2>3. \A i \in D : f[i] \in Int /\ g[i] \in Int
      BY <1>0, <2>2, DuesAreNumbers
    <2>4. \A i \in D : h[i] = f[i] + g[i]
      <3>1. ASSUME NEW i \in 1..Len(u.positions)
            PROVE  Due(v, i) = Due(u, i) + (IF i \in Eligible(u, u.checkpoint) THEN u.positions[i].weight * delta ELSE 0)
        <4>1. IndexGrown(u, v, epoch, delta)
          BY <1>5 DEF IndexGrown
        <4>2. IndexOK(u) /\ PositionsOK(u)
          BY <1>0
        <4> HIDE DEF E, f, g, h, w, D, weight
        <4> QED
          BY <4>1, <4>2, DueGrows
      <3> QED
        BY <3>1
    <2>5. \A i \in E : w[i] \in Int /\ g[i] = w[i] * delta
      BY <2>1, <2>2
    <2>6. \A i \in D \ E : g[i] = 0
      OBVIOUS
    <2>7. TotalDue(u) = SumFunctionOnSet(f, D) /\ TotalDue(v) = SumFunctionOnSet(h, D)
      BY Zenon, <1>5 DEF TotalDue
    <2> HIDE DEF f, g, h, w, E, D
    <2>8. SumFunctionOnSet(h, D) = SumFunctionOnSet(f, D) + SumFunctionOnSet(g, D)
      BY <2>1, <2>3, <2>4, SumPointwise
    <2>9. SumFunctionOnSet(g, E) = SumFunctionOnSet(w, E) * delta
      BY <2>1, <2>5, SumScale
    <2>10. SumFunctionOnSet(g, D \ E) = 0
      BY <2>1, <2>6, SumZero
    <2>11. SumFunctionOnSet(g, D) = SumFunctionOnSet(g, E) + SumFunctionOnSet(g, D \ E)
      <3>1. D = E \cup (D \ E) /\ E \cap (D \ E) = {}
        BY <2>1
      <3>2. \A i \in E \cup (D \ E) : g[i] \in Int
        BY <2>1, <2>3
      <3>3. SumFunctionOnSet(g, E \cup (D \ E)) = SumFunctionOnSet(g, E) + SumFunctionOnSet(g, D \ E)
        BY <2>1, <3>1, <3>2, SumUnion
      <3> QED
        BY <3>1, <3>3
    <2>12. weight * delta \in Int
      BY <1>2
    <2> QED
      BY <2>1, <2>7, <2>8, <2>9, <2>10, <2>11, <2>12
  <1>9. DuesCovered(v)
    <2>1. TotalDue(u) \in Nat /\ TotalDue(u) + (u.claimed + u.pot) * Q128 <= u.notified * Q128
      BY <1>0, DuesAreNumbers DEF DuesCovered
    <2>2. (u.claimed + u.pot) * Q128 = u.claimed * Q128 + u.pot * Q128 /\ u.claimed + 0 = u.claimed
      BY <1>0, <1>2
    <2>3. weight * delta <= u.pot * Q128 /\ weight * delta \in Nat /\ u.claimed * Q128 \in Nat
      BY <1>0, <1>2, <1>4
    <2>4. u.pot * Q128 \in Nat /\ u.notified * Q128 \in Nat
      BY <1>0, <1>2
    <2>5. TotalDue(v) + u.claimed * Q128 <= u.notified * Q128
      BY <1>8, <2>1, <2>2, <2>3, <2>4
    <2>6. (v.claimed + v.pot) * Q128 = u.claimed * Q128
      BY <1>0, <1>5
    <2> QED
      BY <1>5, <2>5, <2>6 DEF DuesCovered
  <1> QED
    BY <1>1, <1>6, <1>7, <1>9

\* A checkpoint keeps the books.
LEMMA CheckpointKeeps ==
  ASSUME NEW u, BooksOK(u), u.rewards # 0, NEW epoch \in Nat
  PROVE  LET v == Checkpointed(u, epoch)
         IN /\ BooksOK(v) /\ v.rewards # 0 /\ v.schedule = u.schedule
            /\ (u.checkpoint <= epoch => v.checkpoint = epoch)
  <1>1. CASE epoch <= u.checkpoint
    <2>1. Checkpointed(u, epoch) = u
      BY <1>1 DEF Checkpointed
    <2>2. u.checkpoint <= epoch => u.checkpoint = epoch
      BY <1>1 DEF BooksOK, IndexOK
    <2> QED
      BY <2>1, <2>2
  <1>2. CASE ~(epoch <= u.checkpoint)
    <2>1. PICK v : v = Checkpointed(u, epoch)
      OBVIOUS
    <2>2. epoch > u.checkpoint /\ Shaped(u)
      BY <1>2 DEF BooksOK, IndexOK
    <2>3. /\ Shaped(v) /\ v.checkpoint = epoch /\ v.pot = 0
          /\ v.positions = u.positions /\ v.boosts = u.boosts /\ v.schedule = u.schedule /\ v.rewards = u.rewards
          /\ v.reserve = u.reserve /\ v.notified = u.notified /\ v.claimed = u.claimed /\ v.held = u.held
      <3>1. Shaped(v) /\ v.checkpoint = epoch /\ v.pot = 0
        BY <1>2, <2>1, <2>2, CheckpointSets
      <3>2. /\ v.positions = u.positions /\ v.boosts = u.boosts /\ v.schedule = u.schedule /\ v.rewards = u.rewards
            /\ v.reserve = u.reserve /\ v.notified = u.notified /\ v.claimed = u.claimed /\ v.held = u.held
        BY <2>1, <2>2, CheckpointLeaves
      <3> QED
        BY <3>1, <3>2
    <2>4. IndexOK(v) /\ PositionsOK(v) /\ DuesCovered(v)
      BY <2>1, <2>2, CheckpointCovers
    <2>5. LockedPrincipal(v) = LockedPrincipal(u) /\ FeesForwarded(v) = FeesForwarded(u)
      BY Zenon, <2>3 DEF LockedPrincipal, FeesForwarded
    <2>6. BoostedTokens(v) = BoostedTokens(u)
      BY <2>3 DEF BoostedTokens
    <2>7. LedgersOK(v) /\ BoostsOK(v) /\ ScheduleOK(v.schedule) /\ Undeployed(v)
      BY <2>3, <2>5, <2>6 DEF BooksOK, LedgersOK, Solvent, BoostsOK, Undeployed
    <2> QED
      BY <2>1, <2>3, <2>4, <2>7 DEF BooksOK
  <1> QED
    BY <1>1, <1>2

\* What a lock changes.
LEMMA LockSets ==
  ASSUME NEW u, Shaped(u), NEW tx, NEW clock, NEW epoch
  PROVE  LET v == Lock(u, tx, clock, epoch)
         IN /\ Shaped(v)
            /\ v.positions = Append(u.positions,
                               [owner |-> tx.from, weight |-> tx.args[1], unlockAt |-> clock + LockLength,
                                activation |-> epoch + 1, last |-> epoch + 1,
                                expiry |-> EpochAt(u.schedule, clock + LockLength)])
            /\ v.held = u.held + tx.args[1]
            /\ v.checkpoint = u.checkpoint /\ v.index = u.index /\ v.boosts = u.boosts
            /\ v.pot = u.pot /\ v.reserve = u.reserve /\ v.notified = u.notified /\ v.claimed = u.claimed
            /\ v.schedule = u.schedule /\ v.rewards = u.rewards
  BY DEF Lock, Shaped, UtilityFields

\* What a boost changes, its fee given.
LEMMA BoostSets ==
  ASSUME NEW u, Shaped(u), NEW tx, NEW clock, NEW epoch, NEW fee,
         fee = IF EligibleWeight(u, epoch) = 0 THEN 0 ELSE Fee
  PROVE  LET v == Boost(u, tx, clock, epoch)
         IN /\ Shaped(v)
            /\ v.boosts = Append(u.boosts,
                            [token |-> tx.args[1], creator |-> tx.from, principal |-> BoostGross - fee,
                             fee |-> fee, startedAt |-> clock, unlockAt |-> clock + LockLength])
            /\ v.held = u.held + fee /\ v.pot = u.pot + fee /\ v.reserve = u.reserve + fee
            /\ v.notified = u.notified + fee /\ v.claimed = u.claimed
            /\ v.checkpoint = u.checkpoint /\ v.index = u.index /\ v.positions = u.positions
            /\ v.schedule = u.schedule /\ v.rewards = u.rewards
  <1>1. PICK boost, spent, log :
          /\ boost = [token |-> tx.args[1], creator |-> tx.from, principal |-> BoostGross - fee,
                      fee |-> fee, startedAt |-> clock, unlockAt |-> clock + LockLength]
          /\ spent = Spent(u, tx, u.boost)
          /\ log = Logged(u, tx, Outcome(TRUE, 0, epoch, fee))
    OBVIOUS
  <1>2. Boost(u, tx, clock, epoch)
          = [u EXCEPT !.boosts = Append(u.boosts, boost), !.pot = u.pot + fee, !.reserve = u.reserve + fee,
                      !.notified = u.notified + fee, !.held = u.held + fee, !.approved = spent, !.log = log]
    BY <1>1, Zenon DEF Boost
  <1>3. PICK boosts : boosts = Append(u.boosts, boost)
    OBVIOUS
  <1>4. PICK v : v = [u EXCEPT !.boosts = boosts, !.pot = u.pot + fee, !.reserve = u.reserve + fee,
                      !.notified = u.notified + fee, !.held = u.held + fee, !.approved = spent, !.log = log]
    OBVIOUS
  <1>5. /\ Shaped(v) /\ v.boosts = boosts
        /\ v.held = u.held + fee /\ v.pot = u.pot + fee /\ v.reserve = u.reserve + fee
        /\ v.notified = u.notified + fee /\ v.claimed = u.claimed
        /\ v.checkpoint = u.checkpoint /\ v.index = u.index /\ v.positions = u.positions
        /\ v.schedule = u.schedule /\ v.rewards = u.rewards
    BY <1>4 DEF Shaped, UtilityFields
  <1> QED
    BY <1>1, <1>2, <1>3, <1>4, <1>5, Zenon

\* What a claim changes, its reward given.
LEMMA ClaimSets ==
  ASSUME NEW u, Shaped(u), NEW tx, NEW epoch, NEW reward, reward = RewardOf(u, u.positions[tx.args[1]])
  PROVE  LET v == Claim(u, tx, epoch)
         IN /\ Shaped(v)
            /\ v.positions = [u.positions EXCEPT ![tx.args[1]] =
                 [u.positions[tx.args[1]] EXCEPT !.last = EndEpoch(u, u.positions[tx.args[1]])]]
            /\ v.held = u.held - reward /\ v.pot = u.pot /\ v.reserve = u.reserve - reward
            /\ v.notified = u.notified /\ v.claimed = u.claimed + reward
            /\ v.checkpoint = u.checkpoint /\ v.index = u.index /\ v.boosts = u.boosts
            /\ v.schedule = u.schedule /\ v.rewards = u.rewards
  BY DEF Claim, Shaped, UtilityFields
\* A lock adds a position with nothing to claim yet.
LEMMA LockKeeps ==
  ASSUME NEW u, BooksOK(u), u.rewards # 0, NEW tx, tx.args[1] \in Nat, NEW clock \in Nat, NEW epoch \in Nat,
         u.checkpoint <= epoch, EpochAt(u.schedule, clock + LockLength) > epoch + 1
  PROVE  LET v == Lock(u, tx, clock, epoch)
         IN BooksOK(v) /\ v.checkpoint = u.checkpoint /\ v.schedule = u.schedule
  <1> DEFINE n == Len(u.positions)
             D == 1..n
  <1>0. /\ Shaped(u) /\ IndexOK(u) /\ PositionsOK(u) /\ BoostsOK(u) /\ LedgersOK(u) /\ ScheduleOK(u.schedule)
        /\ DuesCovered(u) /\ u.checkpoint \in Nat
    BY DEF BooksOK, IndexOK
  <1>1. PICK v : v = Lock(u, tx, clock, epoch)
    OBVIOUS
  <1>2. /\ Shaped(v)
          /\ v.positions = Append(u.positions,
                             [owner |-> tx.from, weight |-> tx.args[1], unlockAt |-> clock + LockLength,
                              activation |-> epoch + 1, last |-> epoch + 1,
                              expiry |-> EpochAt(u.schedule, clock + LockLength)])
          /\ v.held = u.held + tx.args[1]
          /\ v.checkpoint = u.checkpoint /\ v.index = u.index /\ v.boosts = u.boosts
          /\ v.pot = u.pot /\ v.reserve = u.reserve /\ v.notified = u.notified /\ v.claimed = u.claimed
          /\ v.schedule = u.schedule /\ v.rewards = u.rewards
    BY <1>0, <1>1, LockSets
  <1>3. PICK end \in Nat : end = EpochAt(u.schedule, clock + LockLength)
    BY <1>0, UtilityNumbers, EpochsGrow
  <1>4. PICK p : p = [owner |-> tx.from, weight |-> tx.args[1], unlockAt |-> clock + LockLength,
                      activation |-> epoch + 1, last |-> epoch + 1, expiry |-> end]
    OBVIOUS
  <1>5. v.positions = Append(u.positions, p)
    BY Zenon, <1>2, <1>3, <1>4
  <1>6. /\ IsSeq(v.positions) /\ n \in Nat /\ Len(v.positions) = n + 1
        /\ v.positions[n + 1] = p /\ \A i \in D : v.positions[i] = u.positions[i]
    BY <1>0, <1>5, AppendIsSeq, ListDomain DEF PositionsOK, IsSeq
  <1>7. PICK m \in Nat : m = n + 1
    BY <1>6
  <1>8. PositionOK(p, u.checkpoint)
    BY <1>3, <1>4 DEF PositionOK
  <1>9. 1..m = D \cup {m} /\ m \notin D /\ IsFiniteSet(D) /\ Len(v.positions) = m /\ v.positions[m] = p
    BY <1>0, <1>6, <1>7, ListDomain DEF PositionsOK
  <1>10. IndexOK(v) /\ PositionsOK(v) /\ BoostsOK(v)
    <2>1. \A i \in 1..m : PositionOK(v.positions[i], v.checkpoint)
      BY <1>0, <1>2, <1>6, <1>8, <1>9 DEF PositionsOK
    <2> QED
      BY <1>0, <1>2, <1>6, <1>9, <2>1 DEF IndexOK, PositionsOK, BoostsOK
  <1>11. TotalDue(v) = TotalDue(u)
    <2> DEFINE f == [i \in 1..n |-> Due(u, i)]
               g == [i \in 1..m |-> Due(v, i)]
    <2>1. TotalDue(u) = SumFunctionOnSet(f, D) /\ TotalDue(v) = SumFunctionOnSet(g, D \cup {m})
      BY Zenon, <1>6, <1>9 DEF TotalDue
    <2>2. g[m] = 0
      <3>1. EndEpoch(v, p) <= p.last
        BY <1>0, <1>2, <1>3, <1>4 DEF EndEpoch
      <3> QED
        BY <1>6, <1>9, <3>1 DEF Due
    <2>3. \A i \in D : f[i] \in Int /\ g[i] = f[i]
      <3>1. \A i \in D : Due(u, i) \in Int
        BY <1>0, DuesAreNumbers
      <3>2. \A i \in D : Due(v, i) = Due(u, i)
        BY <1>2, <1>6 DEF Due, EndEpoch
      <3> QED
        BY <1>9, <3>1, <3>2
    <2> HIDE DEF f, g, D
    <2>4. \A i \in D \cup {m} : g[i] \in Int
      BY <2>2, <2>3
    <2>5. SumFunctionOnSet(g, D \cup {m}) = SumFunctionOnSet(g, D) + g[m]
      BY <1>9, <2>4, SumInsert
    <2>6. SumFunctionOnSet(f, D) = SumFunctionOnSet(g, D) /\ SumFunctionOnSet(f, D) \in Int
      BY <1>9, <2>3, SumSame, SumType
    <2> QED
      BY <2>1, <2>2, <2>5, <2>6
  <1>12. LockedPrincipal(v) = LockedPrincipal(u) + tx.args[1]
    <2> DEFINE f == [i \in 1..n |-> u.positions[i].weight]
               g == [i \in 1..m |-> v.positions[i].weight]
    <2>1. LockedPrincipal(u) = SumFunctionOnSet(f, D)
      BY <1>0, ListTotals
    <2>2. LockedPrincipal(v) = SumFunctionOnSet(g, 1..m)
      <3>1. LockedPrincipal(v)
              = SumFunctionOnSet([i \in 1..Len(v.positions) |-> v.positions[i].weight], 1..Len(v.positions))
        BY <1>10, ListTotals
      <3> QED
        BY Zenon, <1>9, <3>1
    <2>3. g[m] = tx.args[1]
      BY <1>4, <1>6, <1>9
    <2>4. \A i \in D : f[i] \in Int /\ g[i] = f[i]
      <3>1. \A i \in D : u.positions[i].weight \in Nat
        BY <1>0 DEF PositionsOK, PositionOK
      <3>2. \A i \in D : i \in 1..m /\ v.positions[i].weight = u.positions[i].weight
        BY <1>6, <1>9
      <3> QED
        BY <3>1, <3>2
    <2> HIDE DEF f, g, D
    <2>5. \A i \in D \cup {m} : g[i] \in Int
      BY <2>3, <2>4
    <2>6. SumFunctionOnSet(g, D \cup {m}) = SumFunctionOnSet(g, D) + g[m]
      BY <1>9, <2>5, SumInsert
    <2>7. SumFunctionOnSet(f, D) = SumFunctionOnSet(g, D)
      BY <1>9, <2>4, SumSame
    <2> QED
      BY <1>9, <2>1, <2>2, <2>3, <2>6, <2>7
  <1>13. FeesForwarded(v) = FeesForwarded(u) /\ BoostedTokens(v) = BoostedTokens(u)
    BY Zenon, <1>2 DEF FeesForwarded, BoostedTokens
  <1>14. LockedPrincipal(u) \in Nat
    BY <1>0, ListTotals
  <1>15. LedgersOK(v) /\ DuesCovered(v)
    <2>1. DuesCovered(v)
      BY <1>0, <1>2, <1>11 DEF DuesCovered
    <2>2. /\ v.held = u.held + tx.args[1] /\ v.pot = u.pot /\ v.reserve = u.reserve
          /\ v.notified = u.notified /\ v.claimed = u.claimed
      BY <1>2
    <2>3. /\ u.pot \in Nat /\ u.reserve \in Nat /\ u.notified \in Nat /\ u.claimed \in Nat /\ u.held \in Nat
          /\ u.reserve + u.claimed = u.notified /\ FeesForwarded(u) = u.notified
          /\ Cardinality(BoostedTokens(u)) <= MaxActiveBoosts /\ Solvent(u)
      BY <1>0 DEF LedgersOK
    <2>4. Solvent(v)
      BY <1>12, <1>14, <2>2, <2>3 DEF Solvent
    <2> QED
      BY <1>13, <2>1, <2>2, <2>3, <2>4 DEF LedgersOK
  <1> QED
    BY <1>0, <1>1, <1>2, <1>10, <1>15 DEF BooksOK, Undeployed

\* A boost's fee goes to the fees of its period.
LEMMA BoostKeeps ==
  ASSUME NEW u, BooksOK(u), u.rewards # 0, NEW tx, NEW clock, NEW epoch,
         tx.args[1] \notin BoostedTokens(u) => Cardinality(BoostedTokens(u)) < MaxActiveBoosts
  PROVE  LET v == Boost(u, tx, clock, epoch)
         IN BooksOK(v) /\ v.checkpoint = u.checkpoint /\ v.schedule = u.schedule
  <1> DEFINE n == Len(u.boosts)
             D == 1..n
  <1>0. /\ Shaped(u) /\ IndexOK(u) /\ PositionsOK(u) /\ BoostsOK(u) /\ LedgersOK(u) /\ ScheduleOK(u.schedule)
        /\ DuesCovered(u)
    BY DEF BooksOK
  <1>1. PICK v : v = Boost(u, tx, clock, epoch)
    OBVIOUS
  <1>2. PICK fee : fee = IF EligibleWeight(u, epoch) = 0 THEN 0 ELSE Fee
    OBVIOUS
  <1>3. /\ Shaped(v)
        /\ v.boosts = Append(u.boosts,
                        [token |-> tx.args[1], creator |-> tx.from, principal |-> BoostGross - fee,
                         fee |-> fee, startedAt |-> clock, unlockAt |-> clock + LockLength])
        /\ v.held = u.held + fee /\ v.pot = u.pot + fee /\ v.reserve = u.reserve + fee
        /\ v.notified = u.notified + fee /\ v.claimed = u.claimed
        /\ v.checkpoint = u.checkpoint /\ v.index = u.index /\ v.positions = u.positions
        /\ v.schedule = u.schedule /\ v.rewards = u.rewards
    BY <1>0, <1>1, <1>2, BoostSets
  <1>4. fee \in Nat
    BY <1>2, UtilityNumbers
  <1>5. PICK b : b = [token |-> tx.args[1], creator |-> tx.from, principal |-> BoostGross - fee,
                      fee |-> fee, startedAt |-> clock, unlockAt |-> clock + LockLength]
    OBVIOUS
  <1>6. v.boosts = Append(u.boosts, b)
    BY Zenon, <1>3, <1>5
  <1>7. /\ IsSeq(v.boosts) /\ n \in Nat /\ Len(v.boosts) = n + 1
        /\ v.boosts[n + 1] = b /\ \A i \in D : v.boosts[i] = u.boosts[i]
    BY <1>0, <1>6, AppendIsSeq, ListDomain DEF BoostsOK, IsSeq
  <1>8. PICK m \in Nat : m = n + 1
    BY <1>7
  <1>9. 1..m = D \cup {m} /\ m \notin D /\ IsFiniteSet(D) /\ Len(v.boosts) = m /\ v.boosts[m] = b
    BY <1>0, <1>7, <1>8, ListDomain DEF BoostsOK
  <1>10. BoostOK(b)
    BY <1>4, <1>5 DEF BoostOK
  <1>11. BoostsOK(v)
    <2>1. \A i \in 1..m : BoostOK(v.boosts[i])
      BY <1>0, <1>7, <1>9, <1>10 DEF BoostsOK
    <2> QED
      BY <1>7, <1>9, <2>1 DEF BoostsOK
  <1>12. IndexOK(v) /\ PositionsOK(v)
    BY <1>0, <1>3 DEF IndexOK, PositionsOK
  <1>13. TotalDue(v) = TotalDue(u) /\ TotalDue(u) \in Nat
    <2>1. [i \in 1..Len(v.positions) |-> Due(v, i)] = [i \in 1..Len(u.positions) |-> Due(u, i)]
      BY <1>3 DEF Due, EndEpoch
    <2> QED
      BY <1>0, <1>3, <2>1, DuesAreNumbers DEF TotalDue
  <1>14. FeesForwarded(v) = FeesForwarded(u) + fee
    <2> DEFINE f == [i \in 1..n |-> u.boosts[i].fee]
               g == [i \in 1..m |-> v.boosts[i].fee]
    <2>1. FeesForwarded(u) = SumFunctionOnSet(f, D)
      BY <1>0, ListTotals
    <2>2. FeesForwarded(v) = SumFunctionOnSet(g, 1..m)
      <3>1. FeesForwarded(v) = SumFunctionOnSet([i \in 1..Len(v.boosts) |-> v.boosts[i].fee], 1..Len(v.boosts))
        BY <1>11, <1>12, ListTotals
      <3> QED
        BY Zenon, <1>9, <3>1
    <2>3. g[m] = fee
      BY <1>5, <1>9
    <2>4. \A i \in D : f[i] \in Int /\ g[i] = f[i]
      <3>1. \A i \in D : u.boosts[i].fee \in Nat
        BY <1>0 DEF BoostsOK, BoostOK
      <3>2. \A i \in D : i \in 1..m /\ v.boosts[i].fee = u.boosts[i].fee
        BY <1>7, <1>9
      <3> QED
        BY <3>1, <3>2
    <2> HIDE DEF f, g, D
    <2>5. \A i \in D \cup {m} : g[i] \in Int
      BY <1>4, <2>3, <2>4
    <2>6. SumFunctionOnSet(g, D \cup {m}) = SumFunctionOnSet(g, D) + g[m]
      BY <1>9, <2>5, SumInsert
    <2>7. SumFunctionOnSet(f, D) = SumFunctionOnSet(g, D)
      BY <1>9, <2>4, SumSame
    <2> QED
      BY <1>9, <2>1, <2>2, <2>3, <2>6, <2>7
  <1>15. Cardinality(BoostedTokens(v)) <= MaxActiveBoosts
    <2>1. IsFiniteSet(BoostedTokens(u))
      <3> DEFINE f == [i \in D |-> u.boosts[i].token]
      <3>1. IsFiniteSet({f[i] : i \in D})
        BY <1>9, ImageFinite
      <3>2. BoostedTokens(u) = {f[i] : i \in D}
        BY <1>0, ListDomain DEF BoostedTokens, BoostsOK
      <3> QED
        BY <3>1, <3>2
    <2>2. BoostedTokens(v) = BoostedTokens(u) \cup {b.token}
      <3>1. DOMAIN v.boosts = D \cup {m} /\ DOMAIN u.boosts = D
        BY <1>0, <1>7, <1>9, ListDomain DEF BoostsOK
      <3>2. BoostedTokens(v) = {v.boosts[i].token : i \in D \cup {m}}
        BY <3>1 DEF BoostedTokens
      <3>3. BoostedTokens(u) = {v.boosts[i].token : i \in D}
        BY <1>7, <3>1 DEF BoostedTokens
      <3> QED
        BY <1>9, <3>2, <3>3
    <2>3. PICK S : S = BoostedTokens(u)
      OBVIOUS
    <2>4. b.token = tx.args[1]
      BY <1>5
    <2>5. Cardinality(S) \in Nat /\ Cardinality(S) <= MaxActiveBoosts /\ MaxActiveBoosts \in Nat
      BY <1>0, <2>1, <2>3, FS_CardinalityType, UtilityNumbers DEF LedgersOK
    <2>6. CASE b.token \in S
      <3>1. BoostedTokens(v) = S
        BY <2>2, <2>3, <2>6
      <3> QED
        BY <2>5, <3>1
    <2>7. CASE b.token \notin S
      <3>1. Cardinality(S \cup {b.token}) = Cardinality(S) + 1
        BY <2>1, <2>3, <2>7, FS_AddElement
      <3>2. Cardinality(S) < MaxActiveBoosts
        BY <2>3, <2>4, <2>7
      <3> QED
        BY <2>2, <2>3, <2>5, <3>1, <3>2
    <2> QED
      BY <2>6, <2>7
  <1>16. LockedPrincipal(v) = LockedPrincipal(u) /\ LockedPrincipal(u) \in Nat
    <2>1. LockedPrincipal(v) = LockedPrincipal(u)
      BY Zenon, <1>3 DEF LockedPrincipal
    <2> QED
      BY <1>0, <2>1, ListTotals
  <1>17. LedgersOK(v)
    <2>1. /\ u.pot \in Nat /\ u.reserve \in Nat /\ u.notified \in Nat /\ u.claimed \in Nat /\ u.held \in Nat
          /\ u.reserve + u.claimed = u.notified /\ FeesForwarded(u) = u.notified
          /\ u.held >= LockedPrincipal(u) + u.reserve
      BY <1>0 DEF LedgersOK, Solvent
    <2>2. /\ v.pot \in Nat /\ v.reserve \in Nat /\ v.notified \in Nat /\ v.claimed \in Nat /\ v.held \in Nat
      <3>1. /\ v.held = u.held + fee /\ v.pot = u.pot + fee /\ v.reserve = u.reserve + fee
            /\ v.notified = u.notified + fee /\ v.claimed = u.claimed
        BY <1>3
      <3>2. \A m1, m2 \in Nat : m1 + m2 \in Nat
        OBVIOUS
      <3> QED
        BY <1>4, <2>1, <3>1, <3>2
    <2>3. v.reserve + v.claimed = v.notified
      BY <1>3, <1>4, <2>1
    <2>4. FeesForwarded(v) = v.notified
      BY Zenon, <1>3, <1>14, <2>1
    <2>5. v.held >= LockedPrincipal(v) + v.reserve
      <3>1. v.held = u.held + fee /\ v.reserve = u.reserve + fee
        BY <1>3
      <3>2. PICK locked \in Nat : locked = LockedPrincipal(u) /\ locked = LockedPrincipal(v)
        BY <1>16
      <3>3. u.held + fee >= locked + (u.reserve + fee)
        BY <1>4, <2>1, <3>2
      <3> QED
        BY <3>1, <3>2, <3>3
    <2> QED
      BY <1>15, <2>2, <2>3, <2>4, <2>5 DEF LedgersOK, Solvent
  <1>18. DuesCovered(v)
    <2>1. u.claimed \in Nat /\ u.pot \in Nat /\ u.notified \in Nat /\ Q128 \in Nat
      BY <1>0, UtilityNumbers DEF LedgersOK
    <2>2. (u.claimed + (u.pot + fee)) * Q128 = (u.claimed + u.pot) * Q128 + fee * Q128
      BY <1>4, <2>1
    <2>3. (u.notified + fee) * Q128 = u.notified * Q128 + fee * Q128
      BY <1>4, <2>1
    <2>4. /\ (u.claimed + u.pot) * Q128 \in Int /\ fee * Q128 \in Int /\ u.notified * Q128 \in Int
      BY <1>4, <2>1
    <2>5. TotalDue(u) + (u.claimed + u.pot) * Q128 <= u.notified * Q128
      BY <1>0 DEF DuesCovered
    <2>6. TotalDue(u) + (u.claimed + (u.pot + fee)) * Q128 <= (u.notified + fee) * Q128
      BY <1>13, <2>2, <2>3, <2>4, <2>5
    <2> QED
      BY <1>3, <1>13, <2>6 DEF DuesCovered
  <1> QED
    BY <1>0, <1>1, <1>3, <1>11, <1>12, <1>17, <1>18 DEF BooksOK, Undeployed

\* A claim pays what is due, rounded down, and moves its position on.
LEMMA ClaimKeeps ==
  ASSUME NEW u, BooksOK(u), u.rewards # 0, NEW tx, NEW epoch, ClaimHolds(u, tx)
  PROVE  LET v == Claim(u, tx, epoch)
         IN BooksOK(v) /\ v.checkpoint = u.checkpoint /\ v.schedule = u.schedule
  <1> DEFINE n == Len(u.positions)
             D == 1..n
  <1>0. /\ Shaped(u) /\ IndexOK(u) /\ PositionsOK(u) /\ BoostsOK(u) /\ LedgersOK(u) /\ ScheduleOK(u.schedule)
        /\ DuesCovered(u) /\ Q128 \in Nat \ {0} /\ u.checkpoint \in Nat
    BY UtilityNumbers DEF BooksOK, IndexOK
  <1>1. PICK v : v = Claim(u, tx, epoch)
    OBVIOUS
  <1>2. PICK k : k = tx.args[1]
    OBVIOUS
  <1>3. PICK p : p = u.positions[k]
    OBVIOUS
  <1>4. PICK reward : reward = RewardOf(u, p)
    OBVIOUS
  <1>5. PICK end : end = EndEpoch(u, p)
    OBVIOUS
  <1>6. PICK q : q = [p EXCEPT !.last = end]
    OBVIOUS
  <1>7. n \in Nat /\ DOMAIN u.positions = D /\ IsFiniteSet(D) /\ k \in D
    BY <1>0, <1>2, ListDomain DEF ClaimHolds, PositionsOK, PositionsOf
  <1>8. /\ Shaped(v) /\ v.positions = [u.positions EXCEPT ![k] = q]
        /\ v.held = u.held - reward /\ v.pot = u.pot /\ v.reserve = u.reserve - reward
        /\ v.notified = u.notified /\ v.claimed = u.claimed + reward
        /\ v.checkpoint = u.checkpoint /\ v.index = u.index /\ v.boosts = u.boosts
        /\ v.schedule = u.schedule /\ v.rewards = u.rewards
    <2>1. PICK r : r = RewardOf(u, u.positions[tx.args[1]])
      OBVIOUS
    <2>2. r = reward
      BY Zenon, <1>2, <1>3, <1>4, <2>1
    <2>3. /\ Shaped(v)
          /\ v.positions = [u.positions EXCEPT ![tx.args[1]] =
               [u.positions[tx.args[1]] EXCEPT !.last = EndEpoch(u, u.positions[tx.args[1]])]]
          /\ v.held = u.held - r /\ v.pot = u.pot /\ v.reserve = u.reserve - r
          /\ v.notified = u.notified /\ v.claimed = u.claimed + r
          /\ v.checkpoint = u.checkpoint /\ v.index = u.index /\ v.boosts = u.boosts
          /\ v.schedule = u.schedule /\ v.rewards = u.rewards
      BY <1>0, <1>1, <2>1, ClaimSets
    <2>4. v.positions = [u.positions EXCEPT ![k] = q]
      BY Zenon, <1>2, <1>3, <1>5, <1>6, <2>3
    <2> QED
      BY <2>2, <2>3, <2>4
  <1>9. PositionOK(p, u.checkpoint)
    BY <1>0, <1>3, <1>7 DEF PositionsOK
  <1>10. /\ end \in 0..u.checkpoint /\ end <= p.expiry /\ Due(u, k) \in Nat
    BY <1>0, <1>3, <1>5, <1>7, DuesAreNumbers
  <1>11. /\ ~(end <= p.last) /\ reward \in Nat /\ reward <= u.reserve /\ reward * Q128 <= Due(u, k)
    <2>1. reward # 0 /\ reward <= u.reserve
      BY <1>2, <1>3, <1>4 DEF ClaimHolds
    <2>2. ~(end <= p.last)
      BY <1>4, <1>5, <2>1 DEF RewardOf
    <2>3. PICK d \in Nat : d = Due(u, k)
      BY <1>10
    <2>4. d = p.weight * (u.index[end] - u.index[p.last])
      BY <1>3, <1>5, <2>2, <2>3 DEF Due
    <2>5. reward = d \div Q128
      BY Zenon, <1>4, <1>5, <2>2, <2>4 DEF RewardOf
    <2>6. PICK s \in Nat \ {0} : s = Q128
      BY <1>0
    <2>7. d \div s \in Nat /\ (d \div s) * s <= d
      BY DivisionBounds
    <2> QED
      BY <2>1, <2>2, <2>3, <2>5, <2>6, <2>7
  <1>12. /\ q = [owner |-> p.owner, weight |-> p.weight, unlockAt |-> p.unlockAt, activation |-> p.activation,
                 last |-> end, expiry |-> p.expiry]
    BY <1>6, <1>9 DEF PositionOK
  <1>13. PositionOK(q, u.checkpoint)
    BY <1>9, <1>10, <1>11, <1>12 DEF PositionOK
  <1>14. /\ IsSeq(v.positions) /\ Len(v.positions) = n /\ v.positions[k] = q
         /\ \A i \in D \ {k} : v.positions[i] = u.positions[i]
    <2>1. u.positions \in Seq(ToSet(u.positions) \cup {q})
      BY <1>0, SeqMonotonic DEF PositionsOK, IsSeq
    <2>2. v.positions \in Seq(ToSet(u.positions) \cup {q}) /\ Len(v.positions) = n
      BY <1>7, <1>8, <2>1, ExceptSeq
    <2>3. IsSeq(v.positions)
      BY <2>2, SeqIsSeq
    <2>4. v.positions[k] = q /\ \A i \in D \ {k} : v.positions[i] = u.positions[i]
      BY <1>7, <1>8
    <2> QED
      BY <2>2, <2>3, <2>4
  <1>15. IndexOK(v) /\ PositionsOK(v) /\ BoostsOK(v)
    <2>1. \A i \in D : PositionOK(v.positions[i], v.checkpoint)
      <3>1. \A i \in D \ {k} : PositionOK(u.positions[i], u.checkpoint)
        BY <1>0 DEF PositionsOK
      <3> QED
        BY <1>8, <1>13, <1>14, <3>1
    <2> QED
      BY <1>0, <1>8, <1>14, <2>1 DEF IndexOK, PositionsOK, BoostsOK
  <1>16. TotalDue(v) = TotalDue(u) + (0 - Due(u, k))
    <2> DEFINE f == [i \in D |-> Due(u, i)]
               g == [i \in D |-> Due(v, i)]
    <2>1. TotalDue(u) = SumFunctionOnSet(f, D)
      BY DEF TotalDue
    <2>2. TotalDue(v) = SumFunctionOnSet(g, D)
      BY Zenon, <1>14 DEF TotalDue
    <2>3. Due(v, k) = 0
      <3>1. EndEpoch(v, q) = end /\ q.last = end
        BY <1>5, <1>8, <1>12 DEF EndEpoch
      <3> QED
        BY <1>10, <1>14, <3>1 DEF Due
    <2>4. \A i \in D \ {k} : Due(v, i) = Due(u, i)
      BY <1>8, <1>14 DEF Due, EndEpoch
    <2>5. \A i \in D : Due(u, i) \in Nat
      BY <1>0, DuesAreNumbers
    <2>6. /\ \A i \in D : f[i] \in Int /\ g[i] \in Int
          /\ \A i \in D \ {k} : f[i] = g[i]
          /\ g[k] = 0 /\ f[k] = Due(u, k)
      BY <1>7, <2>3, <2>4, <2>5
    <2> HIDE DEF f, g, D
    <2>7. SumFunctionOnSet(g, D) = SumFunctionOnSet(f, D) + (g[k] - f[k])
      BY <1>7, <2>6, SumChange
    <2> QED
      BY <2>1, <2>2, <2>6, <2>7
  <1>17. LockedPrincipal(v) = LockedPrincipal(u) /\ LockedPrincipal(u) \in Nat
    <2>1. LockedPrincipal(v) = SumFunctionOnSet([i \in 1..Len(v.positions) |-> v.positions[i].weight], 1..Len(v.positions))
      BY <1>15, ListTotals
    <2>2. /\ LockedPrincipal(u) = SumFunctionOnSet([i \in 1..Len(u.positions) |-> u.positions[i].weight], 1..Len(u.positions))
          /\ LockedPrincipal(u) \in Nat
      BY <1>0, ListTotals
    <2>3. \A i \in D : v.positions[i].weight = u.positions[i].weight
      BY <1>3, <1>12, <1>14
    <2>4. [i \in D |-> v.positions[i].weight] = [i \in D |-> u.positions[i].weight]
      BY <2>3
    <2> QED
      BY Zenon, <1>14, <2>1, <2>2, <2>4
  <1>18. FeesForwarded(v) = FeesForwarded(u) /\ BoostedTokens(v) = BoostedTokens(u)
    BY Zenon, <1>8 DEF FeesForwarded, BoostedTokens
  <1>19. LedgersOK(v)
    BY <1>0, <1>8, <1>11, <1>17, <1>18 DEF LedgersOK, Solvent
  <1>20. DuesCovered(v)
    <2>1. u.claimed \in Nat /\ u.pot \in Nat /\ u.notified \in Nat
      BY <1>0 DEF LedgersOK
    <2>2. ((u.claimed + reward) + u.pot) * Q128 = (u.claimed + u.pot) * Q128 + reward * Q128
      BY <1>0, <1>11, <2>1
    <2>3. (u.claimed + u.pot) * Q128 \in Int /\ reward * Q128 \in Int /\ u.notified * Q128 \in Int
      BY <1>0, <1>11, <2>1
    <2>4. TotalDue(u) + (u.claimed + u.pot) * Q128 <= u.notified * Q128 /\ TotalDue(u) \in Nat
      BY <1>0, DuesAreNumbers DEF DuesCovered
    <2>5. TotalDue(v) + ((u.claimed + reward) + u.pot) * Q128 <= u.notified * Q128
      BY <1>10, <1>11, <1>16, <2>2, <2>3, <2>4
    <2> QED
      BY <1>8, <2>5 DEF DuesCovered
  <1> QED
    BY <1>0, <1>1, <1>8, <1>15, <1>19, <1>20 DEF BooksOK, Undeployed

\* What may be mined: a deployment is of a contract, and a lock is of an amount.
TxOK(tx) == (tx.call = "lockRewardsDeploy" => tx.nonce # 0) /\ (tx.call = "lock" => tx.args[1] \in Nat)

\* An entry of the log is no entry of the books.
LEMMA NotedKeeps ==
  ASSUME NEW u, BooksOK(u), NEW tx
  PROVE  /\ BooksOK(Noted(u, tx)) /\ Noted(u, tx).checkpoint = u.checkpoint /\ Noted(u, tx).schedule = u.schedule
         /\ BooksOK(Reverted(u, tx)) /\ Reverted(u, tx).checkpoint = u.checkpoint /\ Reverted(u, tx).schedule = u.schedule
  <1>1. ASSUME NEW log
        PROVE  LET v == [u EXCEPT !.log = log] IN BooksOK(v) /\ v.checkpoint = u.checkpoint /\ v.schedule = u.schedule
    <2>1. PICK v : v = [u EXCEPT !.log = log]
      OBVIOUS
    <2>2. /\ Shaped(v) /\ v.checkpoint = u.checkpoint /\ v.index = u.index /\ v.positions = u.positions
          /\ v.boosts = u.boosts /\ v.pot = u.pot /\ v.reserve = u.reserve /\ v.notified = u.notified
          /\ v.claimed = u.claimed /\ v.held = u.held /\ v.schedule = u.schedule /\ v.rewards = u.rewards
          /\ v.source = u.source /\ v.configurator = u.configurator
      BY <2>1 DEF BooksOK, Shaped, UtilityFields
    <2>3. ScheduleOK(v.schedule) /\ Undeployed(v) /\ v.held \in Nat /\ u.held <= v.held
      BY <2>2 DEF BooksOK, Undeployed, LedgersOK
    <2>4. BooksOK(v)
      BY <2>2, <2>3, BooksCarried
    <2> QED
      BY <2>1, <2>2, <2>4
  <1>2. PICK a : a = Logged(u, tx, Outcome(TRUE, 0, 0, 0))
    OBVIOUS
  <1>3. PICK b : b = Logged(u, tx, Outcome(FALSE, 0, 0, 0))
    OBVIOUS
  <1>4. Noted(u, tx) = [u EXCEPT !.log = a] /\ Reverted(u, tx) = [u EXCEPT !.log = b]
    BY Zenon, <1>2, <1>3 DEF Noted, Reverted
  <1> QED
    BY Zenon, <1>1, <1>4

\* A checkpoint moves neither the contracts nor who is in them.
LEMMA CheckpointStays ==
  ASSUME NEW u, Shaped(u), NEW epoch
  PROVE  LET v == Checkpointed(u, epoch)
         IN v.rewards = u.rewards /\ v.source = u.source /\ v.boost = u.boost /\ v.positions = u.positions
  BY CheckpointLeaves

\* A transaction keeps the books, and the checkpoint does not pass the clock.
LEMMA StepKeepsBooks ==
  ASSUME NEW u, BooksOK(u), NEW clock \in Nat, u.checkpoint <= EpochAt(u.schedule, clock), NEW tx, TxOK(tx)
  PROVE  LET v == UtilityStepAt(u, tx, clock) IN BooksOK(v) /\ v.checkpoint <= EpochAt(v.schedule, clock)
  <1>1. PICK v : v = UtilityStepAt(u, tx, clock)
    OBVIOUS
  <1>2. PICK epoch : epoch = EpochAt(u.schedule, clock)
    OBVIOUS
  <1>3. PICK now : now = Checkpointed(u, epoch)
    OBVIOUS
  <1>4. v = UtilityStep(u, now, tx, clock, epoch)
    BY Zenon, <1>1, <1>2, <1>3 DEF UtilityStepAt
  <1>5. epoch \in Nat /\ u.checkpoint <= epoch /\ Shaped(u) /\ ScheduleOK(u.schedule) /\ u.checkpoint \in Nat
    <2>1. clock \in Int /\ clock <= clock
      OBVIOUS
    <2> QED
      BY <1>2, <2>1, EpochsGrow DEF BooksOK, IndexOK
  <1>6. /\ now.rewards = u.rewards /\ now.source = u.source /\ now.boost = u.boost /\ now.positions = u.positions
        /\ u.rewards # 0 => BooksOK(now) /\ now.schedule = u.schedule /\ now.checkpoint = epoch
    BY <1>3, <1>5, CheckpointStays, CheckpointKeeps
  <1> DEFINE Good(w) == BooksOK(w) /\ w.checkpoint <= EpochAt(w.schedule, clock)
  <1>7. Good(Reverted(u, tx)) /\ Good(Noted(u, tx)) /\ Good(u)
    BY NotedKeeps
  <1>8. u.rewards # 0 => Good(now) /\ Good(Noted(now, tx))
    BY <1>2, <1>5, <1>6, NotedKeeps
  <1> SUFFICES Good(v)
    BY <1>1
  <1>9. CASE tx.call = "lockRewardsDeploy"
    <2>1. CASE u.rewards # 0
      BY <1>4, <1>7, <1>9, <2>1 DEF UtilityStep
    <2>2. CASE u.rewards = 0
      <3>1. PICK s : s = ScheduleFrom(clock)
        OBVIOUS
      <3>2. PICK w : w = [u EXCEPT !.rewards = tx.nonce, !.schedule = s, !.configurator = TRUE]
        OBVIOUS
      <3>3. ScheduleOK(s)
        BY <3>1, SchedulesAreOrdered
      <3>4. /\ Shaped(w) /\ w.checkpoint = u.checkpoint /\ w.index = u.index /\ w.positions = u.positions
            /\ w.boosts = u.boosts /\ w.pot = u.pot /\ w.reserve = u.reserve /\ w.notified = u.notified
            /\ w.claimed = u.claimed /\ w.held = u.held /\ w.schedule = s /\ w.rewards = tx.nonce
        BY <1>5, <3>2 DEF Shaped, UtilityFields
      <3>5. Undeployed(w) /\ w.held \in Nat /\ u.held <= w.held /\ u.checkpoint = 0
        BY <1>9, <2>2, <3>4 DEF TxOK, BooksOK, Undeployed, LedgersOK
      <3>6. BooksOK(w)
        BY <3>3, <3>4, <3>5, BooksCarried
      <3>7. EpochAt(s, clock) \in Nat
        BY <3>3, EpochsGrow
      <3>8. v = Noted(w, tx)
        BY <1>4, <1>9, <2>2, <3>1, <3>2 DEF UtilityStep
      <3> QED
        BY <1>1, <3>4, <3>5, <3>6, <3>7, <3>8, NotedKeeps
    <2> QED
      BY <2>1, <2>2
  <1>10. CASE tx.call = "launchBoostDeploy"
    <2>1. CASE u.boost # 0
      BY <1>4, <1>7, <1>10, <2>1 DEF UtilityStep
    <2>2. CASE u.boost = 0
      <3>2. PICK w : w = [u EXCEPT !.boost = tx.nonce, !.core = tx.args[2], !.linked = tx.args[3]]
        OBVIOUS
      <3>4. /\ Shaped(w) /\ w.checkpoint = u.checkpoint /\ w.index = u.index /\ w.positions = u.positions
            /\ w.boosts = u.boosts /\ w.pot = u.pot /\ w.reserve = u.reserve /\ w.notified = u.notified
            /\ w.claimed = u.claimed /\ w.held = u.held /\ w.schedule = u.schedule /\ w.rewards = u.rewards
            /\ w.source = u.source /\ w.configurator = u.configurator
        BY <1>5, <3>2 DEF Shaped, UtilityFields
      <3>5. Undeployed(w) /\ w.held \in Nat /\ u.held <= w.held /\ ScheduleOK(w.schedule)
        BY <3>4 DEF BooksOK, Undeployed, LedgersOK
      <3>6. BooksOK(w)
        BY <3>4, <3>5, BooksCarried
      <3>8. v = Noted(w, tx)
        BY <1>4, <1>10, <2>2, <3>2 DEF UtilityStep
      <3> QED
        BY <1>1, <3>4, <3>6, <3>8, NotedKeeps
    <2> QED
      BY <2>1, <2>2
  <1>11. CASE tx.call = "setRewardSourceOnce"
    <2>1. CASE ~u.configurator
      BY <1>4, <1>7, <1>11, <2>1 DEF UtilityStep
    <2>2. CASE u.configurator
      <3>2. PICK w : w = [u EXCEPT !.source = tx.args[1], !.configurator = FALSE]
        OBVIOUS
      <3>4. /\ Shaped(w) /\ w.checkpoint = u.checkpoint /\ w.index = u.index /\ w.positions = u.positions
            /\ w.boosts = u.boosts /\ w.pot = u.pot /\ w.reserve = u.reserve /\ w.notified = u.notified
            /\ w.claimed = u.claimed /\ w.held = u.held /\ w.schedule = u.schedule /\ w.rewards = u.rewards
        BY <1>5, <3>2 DEF Shaped, UtilityFields
      <3>5. Undeployed(w) /\ w.held \in Nat /\ u.held <= w.held /\ ScheduleOK(w.schedule)
        BY <2>2, <3>4 DEF BooksOK, Undeployed, LedgersOK
      <3>6. BooksOK(w)
        BY <3>4, <3>5, BooksCarried
      <3>8. v = Noted(w, tx)
        BY <1>4, <1>11, <2>2, <3>2 DEF UtilityStep
      <3> QED
        BY <1>1, <3>4, <3>6, <3>8, NotedKeeps
    <2> QED
      BY <2>1, <2>2
  <1>12. CASE tx.call \in {"approveLock", "approveBoost"}
    <2>2. PICK w : w = [u EXCEPT !.approved = u.approved \cup {tx.args[1]}]
      OBVIOUS
    <2>4. /\ Shaped(w) /\ w.checkpoint = u.checkpoint /\ w.index = u.index /\ w.positions = u.positions
          /\ w.boosts = u.boosts /\ w.pot = u.pot /\ w.reserve = u.reserve /\ w.notified = u.notified
          /\ w.claimed = u.claimed /\ w.held = u.held /\ w.schedule = u.schedule /\ w.rewards = u.rewards
          /\ w.source = u.source /\ w.configurator = u.configurator
      BY <1>5, <2>2 DEF Shaped, UtilityFields
    <2>5. Undeployed(w) /\ w.held \in Nat /\ u.held <= w.held /\ ScheduleOK(w.schedule)
      BY <2>4 DEF BooksOK, Undeployed, LedgersOK
    <2>6. BooksOK(w)
      BY <2>4, <2>5, BooksCarried
    <2>8. v = Noted(w, tx)
      BY <1>4, <1>12, <2>2 DEF UtilityStep
    <2> QED
      BY <1>1, <2>4, <2>6, <2>8, NotedKeeps
  <1>13. CASE tx.call = "lock"
    <2>1. CASE ~LockHolds(now, tx, clock, epoch)
      BY <1>4, <1>7, <1>13, <2>1 DEF UtilityStep
    <2>2. CASE LockHolds(now, tx, clock, epoch)
      <3>1. v = Lock(now, tx, clock, epoch)
        BY <1>4, <1>13, <2>2 DEF UtilityStep
      <3>2. now.rewards # 0 /\ EpochAt(now.schedule, clock + LockLength) > epoch + 1
        BY <2>2 DEF LockHolds
      <3>3. tx.args[1] \in Nat /\ BooksOK(now) /\ now.schedule = u.schedule /\ now.checkpoint = epoch
        BY <1>6, <1>13, <3>2 DEF TxOK
      <3>4. now.checkpoint <= epoch
        BY <1>5, <3>3
      <3>5. BooksOK(v) /\ v.checkpoint = now.checkpoint /\ v.schedule = now.schedule
        BY <1>5, <3>1, <3>2, <3>3, <3>4, LockKeeps
      <3> QED
        BY <1>1, <1>2, <1>5, <3>3, <3>5
    <2> QED
      BY <2>1, <2>2
  <1>14. CASE tx.call = "boost"
    <2>1. CASE ~BoostHolds(now, tx, clock)
      BY <1>4, <1>7, <1>14, <2>1 DEF UtilityStep
    <2>2. CASE BoostHolds(now, tx, clock)
      <3>1. v = Boost(now, tx, clock, epoch)
        BY <1>4, <1>14, <2>2 DEF UtilityStep
      <3>2. u.rewards # 0 /\ (tx.args[1] \notin BoostedTokens(now) => Cardinality(BoostedTokens(now)) < MaxActiveBoosts)
        BY <1>6, <2>2 DEF BoostHolds, BooksOK, Undeployed
      <3>3. now.rewards # 0 /\ BooksOK(now) /\ now.schedule = u.schedule /\ now.checkpoint = epoch
        BY <1>6, <3>2
      <3>5. BooksOK(v) /\ v.checkpoint = now.checkpoint /\ v.schedule = now.schedule
        BY <3>1, <3>2, <3>3, BoostKeeps
      <3> QED
        BY <1>1, <1>2, <1>5, <3>3, <3>5
    <2> QED
      BY <2>1, <2>2
  <1>15. CASE tx.call = "claim"
    <2>1. CASE ~ClaimHolds(now, tx)
      BY <1>4, <1>7, <1>15, <2>1 DEF UtilityStep
    <2>2. CASE ClaimHolds(now, tx)
      <3>1. v = Claim(now, tx, epoch)
        BY <1>4, <1>15, <2>2 DEF UtilityStep
      <3>2. u.rewards # 0
        <4>1. now.positions # <<>>
          <5>1. tx.args[1] \in DOMAIN now.positions
            BY <2>2 DEF ClaimHolds, PositionsOf
          <5> QED
            BY <5>1
        <4> QED
          BY <1>6, <4>1 DEF BooksOK, Undeployed
      <3>3. now.rewards # 0 /\ BooksOK(now) /\ now.schedule = u.schedule /\ now.checkpoint = epoch
        BY <1>6, <3>2
      <3>5. BooksOK(v) /\ v.checkpoint = now.checkpoint /\ v.schedule = now.schedule
        BY <2>2, <3>1, <3>3, ClaimKeeps
      <3> QED
        BY <1>1, <1>2, <1>5, <3>3, <3>5
    <2> QED
      BY <2>1, <2>2
  <1>16. CASE tx.call = "checkpoint"
    <2>1. v = Noted(IF u.rewards # 0 /\ tx.to = u.rewards THEN now ELSE u, tx)
      BY <1>4, <1>16 DEF UtilityStep
    <2>2. CASE u.rewards # 0 /\ tx.to = u.rewards
      BY <1>1, <1>8, <2>1, <2>2
    <2>3. CASE ~(u.rewards # 0 /\ tx.to = u.rewards)
      BY <1>1, <1>7, <2>1, <2>3
    <2> QED
      BY <2>2, <2>3
  <1>17. CASE tx.call = "transfer"
    <2>1. PICK h : h = IF tx.to = u.rewards THEN u.held + 1 ELSE u.held
      OBVIOUS
    <2>2. v = [u EXCEPT !.held = h]
      BY <1>4, <1>17, <2>1 DEF UtilityStep
    <2>4. /\ Shaped(v) /\ v.checkpoint = u.checkpoint /\ v.index = u.index /\ v.positions = u.positions
          /\ v.boosts = u.boosts /\ v.pot = u.pot /\ v.reserve = u.reserve /\ v.notified = u.notified
          /\ v.claimed = u.claimed /\ v.held = h /\ v.schedule = u.schedule /\ v.rewards = u.rewards
          /\ v.source = u.source /\ v.configurator = u.configurator
      BY <1>5, <2>2 DEF Shaped, UtilityFields
    <2>5. u.held \in Nat
      BY DEF BooksOK, LedgersOK
    <2>6. Undeployed(v) /\ v.held \in Nat /\ u.held <= v.held /\ ScheduleOK(v.schedule)
      BY <1>5, <2>1, <2>4, <2>5 DEF BooksOK, Undeployed
    <2>7. BooksOK(v)
      BY <2>4, <2>6, BooksCarried
    <2> QED
      BY <1>1, <2>4, <2>7
  <1>18. CASE tx.call \notin {"lockRewardsDeploy", "launchBoostDeploy", "setRewardSourceOnce", "approveLock",
                              "approveBoost", "lock", "boost", "claim", "checkpoint", "transfer"}
    BY <1>1, <1>4, <1>7, <1>18 DEF UtilityStep
  <1> QED
    BY <1>9, <1>10, <1>11, <1>12, <1>13, <1>14, <1>15, <1>16, <1>17, <1>18

-----------------------------------------------------------------------------
(* The contracts' state along the chain.                                      *)

\* The states between a block's first m transactions, and after the first m blocks.
AfterSolves(u, b, m, f) ==
  f = [i \in 0..m |-> IF i = 0 THEN u ELSE UtilityStepAt(f[i - 1], b.txs[i], b.clock)]

AtSolves(blocks, m, f) ==
  f = [n \in 0..m |-> IF n = 0 THEN NoUtility ELSE UtilityAfter(f[n - 1], blocks[n])]

\* What holds at the start and goes on holds to the end.
LEMMA GoesOn ==
  ASSUME NEW n \in Nat, NEW S, 0 \in S, \A i \in 1..n : i - 1 \in S => i \in S
  PROVE  0..n \subseteq S
  <1> DEFINE Bad == {i \in 1..n : i \notin S}
  <1> SUFFICES ASSUME Bad # {} PROVE FALSE
    OBVIOUS
  <1>1. Bad \in SUBSET (1..n)
    OBVIOUS
  <1> HIDE DEF Bad
  <1>2. PICK m \in Bad : \A k \in Bad : m <= k
    BY <1>1, FirstOf
  <1>3. m \in 1..n /\ m \notin S
    BY DEF Bad
  <1>4. m - 1 \in S
    <2>1. CASE m = 1
      BY <2>1
    <2>2. CASE m # 1
      <3>1. m - 1 \in 1..n /\ ~(m <= m - 1)
        BY <1>3, <2>2
      <3>2. m - 1 \notin Bad
        BY <1>2, <3>1
      <3> QED
        BY <3>1, <3>2 DEF Bad
    <2> QED
      BY <2>1, <2>2
  <1> QED
    BY <1>3, <1>4

\* The recursion over a block has a solution.
LEMMA AfterSolvable ==
  ASSUME NEW u, NEW b, NEW n \in Nat
  PROVE  \E f : AfterSolves(u, b, n, f)
  <1> DEFINE S == {m \in 0..n : \E f : AfterSolves(u, b, m, f)}
  <1>1. 0 \in S
    <2> DEFINE g == [i \in 0..0 |-> u]
    <2>1. AfterSolves(u, b, 0, g)
      BY DEF AfterSolves
    <2> QED
      BY <2>1
  <1>2. ASSUME NEW i \in 1..n, i - 1 \in S PROVE i \in S
    <2>1. PICK f : AfterSolves(u, b, i - 1, f)
      BY <1>2
    <2>2. PICK next : next = UtilityStepAt(f[i - 1], b.txs[i], b.clock)
      OBVIOUS
    <2> DEFINE g == [j \in 0..i |-> IF j = i THEN next ELSE f[j]]
    <2>3. \A j \in 0..i - 1 : f[j] = IF j = 0 THEN u ELSE UtilityStepAt(f[j - 1], b.txs[j], b.clock)
      BY <2>1 DEF AfterSolves
    <2>4. \A j \in 0..i : g[j] = IF j = 0 THEN u ELSE UtilityStepAt(g[j - 1], b.txs[j], b.clock)
      <3>1. \A j \in 0..i - 1 : g[j] = f[j]
        BY <1>2
      <3>2. ASSUME NEW j \in 0..i PROVE g[j] = IF j = 0 THEN u ELSE UtilityStepAt(g[j - 1], b.txs[j], b.clock)
        <4>1. CASE j = 0
          BY <1>2, <2>3, <3>1, <4>1
        <4>2. CASE j # 0 /\ j # i
          <5>1. j \in 0..i - 1 /\ j - 1 \in 0..i - 1
            BY <1>2, <4>2
          <5>2. g[j] = f[j] /\ g[j - 1] = f[j - 1]
            BY <3>1, <5>1
          <5> HIDE DEF g
          <5> QED
            BY <2>3, <4>2, <5>1, <5>2
        <4>3. CASE j = i
          <5>1. g[i] = next /\ g[i - 1] = f[i - 1] /\ i # 0
            BY <1>2, <3>1
          <5> HIDE DEF g
          <5> QED
            BY <2>2, <4>3, <5>1
        <4> QED
          BY <4>1, <4>2, <4>3
      <3> QED
        BY <3>2
    <2>5. AfterSolves(u, b, i, g)
      <3>1. g = [j \in 0..i |-> g[j]]
        OBVIOUS
      <3> HIDE DEF g
      <3> QED
        BY <2>4, <3>1 DEF AfterSolves
    <2> QED
      BY <1>2, <2>5
  <1>3. n \in 0..n
    OBVIOUS
  <1> HIDE DEF S
  <1>4. 0..n \subseteq S
    BY <1>1, <1>2, GoesOn
  <1> QED
    BY <1>3, <1>4 DEF S

\* The chain's recursion, too.
LEMMA AtSolvable ==
  ASSUME NEW blocks, NEW n \in Nat
  PROVE  \E f : AtSolves(blocks, n, f)
  <1> DEFINE S == {m \in 0..n : \E f : AtSolves(blocks, m, f)}
  <1>1. 0 \in S
    <2> DEFINE g == [i \in 0..0 |-> NoUtility]
    <2>1. AtSolves(blocks, 0, g)
      BY DEF AtSolves
    <2> QED
      BY <2>1
  <1>2. ASSUME NEW i \in 1..n, i - 1 \in S PROVE i \in S
    <2>1. PICK f : AtSolves(blocks, i - 1, f)
      BY <1>2
    <2>2. PICK next : next = UtilityAfter(f[i - 1], blocks[i])
      OBVIOUS
    <2> DEFINE g == [j \in 0..i |-> IF j = i THEN next ELSE f[j]]
    <2>3. \A j \in 0..i - 1 : f[j] = IF j = 0 THEN NoUtility ELSE UtilityAfter(f[j - 1], blocks[j])
      BY <2>1 DEF AtSolves
    <2>4. \A j \in 0..i : g[j] = IF j = 0 THEN NoUtility ELSE UtilityAfter(g[j - 1], blocks[j])
      <3>1. \A j \in 0..i - 1 : g[j] = f[j]
        BY <1>2
      <3>2. ASSUME NEW j \in 0..i PROVE g[j] = IF j = 0 THEN NoUtility ELSE UtilityAfter(g[j - 1], blocks[j])
        <4>1. CASE j = 0
          BY <1>2, <2>3, <3>1, <4>1
        <4>2. CASE j # 0 /\ j # i
          <5>1. j \in 0..i - 1 /\ j - 1 \in 0..i - 1
            BY <1>2, <4>2
          <5>2. g[j] = f[j] /\ g[j - 1] = f[j - 1]
            BY <3>1, <5>1
          <5> HIDE DEF g
          <5> QED
            BY <2>3, <4>2, <5>1, <5>2
        <4>3. CASE j = i
          <5>1. g[i] = next /\ g[i - 1] = f[i - 1] /\ i # 0
            BY <1>2, <3>1
          <5> HIDE DEF g
          <5> QED
            BY <2>2, <4>3, <5>1
        <4> QED
          BY <4>1, <4>2, <4>3
      <3> QED
        BY <3>2
    <2>5. AtSolves(blocks, i, g)
      <3>1. g = [j \in 0..i |-> g[j]]
        OBVIOUS
      <3> HIDE DEF g
      <3> QED
        BY <2>4, <3>1 DEF AtSolves
    <2> QED
      BY <1>2, <2>5
  <1>3. n \in 0..n
    OBVIOUS
  <1> HIDE DEF S
  <1>4. 0..n \subseteq S
    BY <1>1, <1>2, GoesOn
  <1> QED
    BY <1>3, <1>4 DEF S

\* The states a block goes through.
LEMMA AfterPasses ==
  ASSUME NEW u, NEW b, Len(b.txs) \in Nat
  PROVE  \E f : AfterSolves(u, b, Len(b.txs), f) /\ UtilityAfter(u, b) = f[Len(b.txs)]
  <1>1. \E f : AfterSolves(u, b, Len(b.txs), f)
    BY AfterSolvable
  <1>2. PICK f : f = CHOOSE g : AfterSolves(u, b, Len(b.txs), g)
    OBVIOUS
  <1>3. AfterSolves(u, b, Len(b.txs), f)
    BY <1>1, <1>2
  <1>4. UtilityAfter(u, b) = f[Len(b.txs)]
    BY Zenon, <1>2 DEF UtilityAfter, AfterSolves
  <1> QED
    BY <1>3, <1>4

\* And those of a chain.
LEMMA AtPasses ==
  ASSUME NEW blocks, Len(blocks) \in Nat
  PROVE  \E f : AtSolves(blocks, Len(blocks), f) /\ UtilityAt(blocks) = f[Len(blocks)]
  <1>1. \E f : AtSolves(blocks, Len(blocks), f)
    BY AtSolvable
  <1>2. PICK f : f = CHOOSE g : AtSolves(blocks, Len(blocks), g)
    OBVIOUS
  <1>3. AtSolves(blocks, Len(blocks), f)
    BY <1>1, <1>2
  <1>4. UtilityAt(blocks) = f[Len(blocks)]
    BY Zenon, <1>2 DEF UtilityAt, AtSolves
  <1> QED
    BY <1>3, <1>4

\* What a list of transactions, and a chain of blocks, must be for the books to be kept.
TxsOK(txs) == IsSeq(txs) /\ \A tx \in ToSet(txs) : TxOK(tx)

BlockOK(b) == b.clock \in Nat /\ TxsOK(b.txs)

TraceOK(blocks) ==
  /\ IsSeq(blocks)
  /\ \A n \in 1..Len(blocks) : BlockOK(blocks[n])
  /\ \A n \in 2..Len(blocks) : blocks[n - 1].clock <= blocks[n].clock

\* The books between two transactions of a block.
BooksAtClock(u, clock) == BooksOK(u) /\ u.checkpoint <= EpochAt(u.schedule, clock)

\* A block keeps the books.
LEMMA BlockKeepsBooks ==
  ASSUME NEW u, NEW b, BlockOK(b), BooksAtClock(u, b.clock)
  PROVE  BooksAtClock(UtilityAfter(u, b), b.clock)
  <1>1. Len(b.txs) \in Nat /\ \A i \in 1..Len(b.txs) : TxOK(b.txs[i])
    BY LenProperties, ElementOfSeq DEF BlockOK, TxsOK, IsSeq
  <1>2. PICK n \in Nat : n = Len(b.txs)
    BY <1>1
  <1>3. PICK f : AfterSolves(u, b, n, f) /\ UtilityAfter(u, b) = f[n]
    BY <1>1, <1>2, AfterPasses
  <1>4. \A i \in 0..n : f[i] = IF i = 0 THEN u ELSE UtilityStepAt(f[i - 1], b.txs[i], b.clock)
    BY <1>3 DEF AfterSolves
  <1> DEFINE S == {i \in 0..n : BooksAtClock(f[i], b.clock)}
  <1>5. 0 \in S
    BY <1>4
  <1>6. ASSUME NEW i \in 1..n, i - 1 \in S PROVE i \in S
    <2>1. PICK v : v = f[i - 1]
      OBVIOUS
    <2>2. BooksOK(v) /\ v.checkpoint <= EpochAt(v.schedule, b.clock)
      BY <1>6, <2>1 DEF BooksAtClock
    <2>3. PICK tx : tx = b.txs[i]
      OBVIOUS
    <2>4. TxOK(tx) /\ b.clock \in Nat
      BY <1>1, <1>2, <2>3 DEF BlockOK
    <2>5. PICK w : w = UtilityStepAt(v, tx, b.clock)
      OBVIOUS
    <2>6. BooksOK(w) /\ w.checkpoint <= EpochAt(w.schedule, b.clock)
      BY <2>2, <2>4, <2>5, StepKeepsBooks
    <2>7. f[i] = w
      BY <1>4, <2>1, <2>3, <2>5
    <2> QED
      BY <2>6, <2>7 DEF BooksAtClock
  <1> HIDE DEF S
  <1>7. 0..n \subseteq S
    BY <1>5, <1>6, GoesOn
  <1> QED
    BY <1>2, <1>3, <1>7 DEF S

\* Nothing is kept before there is a contract.
LEMMA NothingYet == BooksOK(NoUtility) /\ NoUtility.checkpoint = 0
  <1>1. PICK u : u = NoUtility
    OBVIOUS
  <1>2. PICK s : s = ScheduleFrom(0)
    OBVIOUS
  <1>3. ScheduleOK(s)
    BY <1>2, SchedulesAreOrdered
  <1>4. /\ Shaped(u) /\ u.schedule = s /\ u.source = 0 /\ u.configurator = FALSE /\ u.checkpoint = 0
        /\ u.index = [e \in {0} |-> 0] /\ u.pot = 0 /\ u.reserve = 0 /\ u.notified = 0 /\ u.claimed = 0 /\ u.held = 0
        /\ u.positions = <<>> /\ u.boosts = <<>>
    BY <1>1, <1>2 DEF NoUtility, Shaped, UtilityFields
  <1>5. IsSeq(u.positions) /\ IsSeq(u.boosts) /\ Len(u.positions) = 0 /\ Len(u.boosts) = 0
    BY <1>4, EmptySeq DEF IsSeq
  <1>6. 1..0 = {}
    OBVIOUS
  <1>7. IndexOK(u) /\ PositionsOK(u) /\ BoostsOK(u)
    BY <1>4, <1>5 DEF IndexOK, PositionsOK, BoostsOK
  <1>8. TotalDue(u) = 0
    <2>1. PICK f : f = [i \in 1..Len(u.positions) |-> Due(u, i)]
      OBVIOUS
    <2>2. TotalDue(u) = SumFunctionOnSet(f, {})
      BY Zenon, <1>5, <1>6, <2>1 DEF TotalDue
    <2> QED
      BY <2>2, SumEmpty
  <1>9. LockedPrincipal(u) = 0 /\ FeesForwarded(u) = 0
    <2>1. PICK f : f = [i \in 1..Len(u.positions) |-> u.positions[i].weight]
      OBVIOUS
    <2>2. PICK g : g = [i \in 1..Len(u.boosts) |-> u.boosts[i].fee]
      OBVIOUS
    <2>3. LockedPrincipal(u) = SumFunctionOnSet(f, 1..Len(u.positions)) /\ FeesForwarded(u) = SumFunctionOnSet(g, 1..Len(u.boosts))
      BY <1>7, <2>1, <2>2, ListTotals
    <2>4. LockedPrincipal(u) = SumFunctionOnSet(f, {}) /\ FeesForwarded(u) = SumFunctionOnSet(g, {})
      BY Zenon, <1>5, <1>6, <2>3
    <2> QED
      BY <2>4, SumEmpty
  <1>10. Cardinality(BoostedTokens(u)) <= MaxActiveBoosts
    <2>1. BoostedTokens(u) = {}
      BY <1>4 DEF BoostedTokens
    <2> QED
      BY <2>1, FS_EmptySet, UtilityNumbers
  <1>11. LedgersOK(u) /\ DuesCovered(u) /\ Undeployed(u)
    BY <1>4, <1>8, <1>9, <1>10, UtilityNumbers DEF LedgersOK, Solvent, DuesCovered, Undeployed
  <1> QED
    BY <1>1, <1>3, <1>4, <1>7, <1>11 DEF BooksOK

\* So does a chain.
LEMMA TraceKeepsBooks ==
  ASSUME NEW blocks, TraceOK(blocks), Len(blocks) # 0
  PROVE  BooksAtClock(UtilityAt(blocks), blocks[Len(blocks)].clock)
  <1>1. Len(blocks) \in Nat
    BY LenProperties DEF TraceOK, IsSeq
  <1>2. PICK n \in Nat : n = Len(blocks)
    BY <1>1
  <1>3. PICK f : AtSolves(blocks, n, f) /\ UtilityAt(blocks) = f[n]
    BY <1>1, <1>2, AtPasses
  <1>4. \A i \in 0..n : f[i] = IF i = 0 THEN NoUtility ELSE UtilityAfter(f[i - 1], blocks[i])
    BY <1>3 DEF AtSolves
  <1> DEFINE S == {i \in 0..n : IF i = 0 THEN BooksOK(f[0]) /\ f[0].checkpoint = 0 ELSE BooksAtClock(f[i], blocks[i].clock)}
  <1>5. 0 \in S
    BY <1>4, NothingYet
  <1>6. ASSUME NEW i \in 1..n, i - 1 \in S PROVE i \in S
    <2>1. PICK v : v = f[i - 1]
      OBVIOUS
    <2>2. PICK b : b = blocks[i]
      OBVIOUS
    <2>3. BlockOK(b) /\ b.clock \in Nat
      BY <1>2, <2>2 DEF TraceOK, BlockOK
    <2>4. BooksOK(v)
      BY <1>6, <2>1 DEF BooksAtClock
    <2>5. v.checkpoint <= EpochAt(v.schedule, b.clock)
      <3>1. CASE i = 1
        <4>1. v.checkpoint = 0
          BY <1>6, <2>1, <3>1
        <4>2. EpochAt(v.schedule, b.clock) \in Nat
          BY <2>3, <2>4, EpochsGrow DEF BooksOK
        <4> QED
          BY <4>1, <4>2
      <3>2. CASE i # 1
        <4>1. i \in 2..Len(blocks) /\ i - 1 \in 1..Len(blocks) /\ i - 1 # 0
          BY <1>2, <3>2
        <4>2. PICK c \in Nat : c = blocks[i - 1].clock
          BY <4>1 DEF TraceOK, BlockOK
        <4>3. c <= b.clock
          BY <2>2, <4>1, <4>2 DEF TraceOK
        <4>4. v.checkpoint <= EpochAt(v.schedule, c)
          BY <1>6, <2>1, <4>1, <4>2 DEF BooksAtClock
        <4>5. /\ EpochAt(v.schedule, c) \in Nat /\ EpochAt(v.schedule, c) <= EpochAt(v.schedule, b.clock)
              /\ EpochAt(v.schedule, b.clock) \in Nat /\ v.checkpoint \in Nat
          BY <2>3, <2>4, <4>3, EpochsGrow DEF BooksOK, IndexOK
        <4> QED
          BY <4>4, <4>5
      <3> QED
        BY <3>1, <3>2
    <2>6. BooksAtClock(UtilityAfter(v, b), b.clock)
      BY <2>3, <2>4, <2>5, BlockKeepsBooks DEF BooksAtClock
    <2>7. f[i] = UtilityAfter(v, b)
      BY <1>4, <2>1, <2>2
    <2> QED
      BY <2>2, <2>6, <2>7
  <1> HIDE DEF S
  <1>7. 0..n \subseteq S
    BY <1>5, <1>6, GoesOn
  <1> QED
    BY <1>2, <1>3, <1>7 DEF S

\* Where the books are kept, the ledgers balance and everyone can claim.
LEMMA BooksCover ==
  ASSUME NEW u, BooksOK(u), u.rewards # 0, NEW epoch \in Nat
  PROVE  /\ AmbientLedgersBalance(u) /\ Solvent(u)
         /\ \A now \in {Checkpointed(u, epoch)} :
              SumFunction([i \in DOMAIN now.positions |-> RewardOf(now, now.positions[i])]) + now.pot <= now.reserve
  <1>1. AmbientLedgersBalance(u) /\ Solvent(u)
    <2> DEFINE D == 1..Len(u.boosts)
    <2>1. DOMAIN u.boosts = D /\ IsFiniteSet(D) /\ Len(u.boosts) \in Nat /\ Cardinality(D) = Len(u.boosts)
      <3>1. DOMAIN u.boosts = D /\ IsFiniteSet(D) /\ Len(u.boosts) \in Nat
        BY ListDomain DEF BooksOK, BoostsOK
      <3>2. PICK n \in Nat : n = Len(u.boosts)
        BY <3>1
      <3>3. Cardinality(1..n) = n
        BY FS_Interval
      <3> QED
        BY <3>1, <3>2, <3>3
    <2>2. PICK f : f = [i \in D |-> u.boosts[i].fee]
      OBVIOUS
    <2>3. PICK g : g = [i \in D |-> u.boosts[i].principal]
      OBVIOUS
    <2>4. PICK h : h = [i \in D |-> BoostGross]
      OBVIOUS
    <2>5. \A i \in D : f[i] \in Int /\ g[i] \in Int /\ h[i] = g[i] + f[i]
      BY <2>2, <2>3, <2>4, UtilityNumbers DEF BooksOK, BoostsOK, BoostOK
    <2>6. SumFunctionOnSet(h, D) = SumFunctionOnSet(g, D) + SumFunctionOnSet(f, D)
      BY <2>1, <2>5, SumPointwise
    <2>7. SumFunctionOnSet(h, D) = BoostGross * Cardinality(D)
      BY <2>1, <2>4, UtilityNumbers, SumConstant
    <2>8. FeesForwarded(u) = SumFunctionOnSet(f, D)
      BY <2>2, ListTotals DEF BooksOK
    <2>9. PrincipalAdded(u) = SumFunctionOnSet(g, DOMAIN g)
      BY Zenon, <2>1, <2>3 DEF PrincipalAdded, SumFunction
    <2>10. Len(u.boosts) * BoostGross = PrincipalAdded(u) + FeesForwarded(u)
      BY <2>1, <2>3, <2>6, <2>7, <2>8, <2>9, UtilityNumbers
    <2> QED
      BY <2>10 DEF BooksOK, LedgersOK, AmbientLedgersBalance
  <1>2. PICK now : now = Checkpointed(u, epoch)
    OBVIOUS
  <1>3. BooksOK(now)
    BY <1>2, CheckpointKeeps
  <1>4. SumFunction([i \in DOMAIN now.positions |-> RewardOf(now, now.positions[i])]) + now.pot <= now.reserve
    <2> DEFINE D == 1..Len(now.positions)
    <2>1. DOMAIN now.positions = D /\ IsFiniteSet(D) /\ IndexOK(now) /\ PositionsOK(now) /\ Q128 \in Nat \ {0}
      BY <1>3, ListDomain, UtilityNumbers DEF BooksOK, PositionsOK
    <2>2. PICK r : r = [i \in D |-> RewardOf(now, now.positions[i])]
      OBVIOUS
    <2>3. SumFunction([i \in DOMAIN now.positions |-> RewardOf(now, now.positions[i])]) = SumFunctionOnSet(r, D)
      <3>1. SumFunction([i \in DOMAIN now.positions |-> RewardOf(now, now.positions[i])]) = SumFunctionOnSet(r, DOMAIN r)
        BY Zenon, <2>1, <2>2 DEF SumFunction
      <3> QED
        BY <2>2, <3>1
    <2>4. PICK d : d = [i \in D |-> Due(now, i)]
      OBVIOUS
    <2>5. TotalDue(now) = SumFunctionOnSet(d, D)
      BY <2>4 DEF TotalDue
    <2>6. ASSUME NEW i \in D PROVE d[i] \in Nat /\ r[i] \in Nat /\ r[i] * Q128 <= d[i]
      <3>1. Due(now, i) \in Nat
        BY <2>1, DuesAreNumbers
      <3>2. PICK p : p = now.positions[i]
        OBVIOUS
      <3>3. CASE EndEpoch(now, p) <= p.last
        <4>1. RewardOf(now, p) = 0
          BY <3>3 DEF RewardOf
        <4> QED
          BY <2>1, <2>2, <2>4, <3>1, <3>2, <4>1
      <3>4. CASE ~(EndEpoch(now, p) <= p.last)
        <4>1. PICK n \in Nat : n = Due(now, i)
          BY <3>1
        <4>2. n = p.weight * (now.index[EndEpoch(now, p)] - now.index[p.last])
          BY <3>2, <3>4, <4>1 DEF Due
        <4>3. RewardOf(now, p) = n \div Q128
          BY Zenon, <3>4, <4>2 DEF RewardOf
        <4>4. PICK s \in Nat \ {0} : s = Q128
          BY <2>1
        <4>5. n \div s \in Nat /\ (n \div s) * s <= n
          BY DivisionBounds
        <4> QED
          BY <2>2, <2>4, <3>2, <4>1, <4>3, <4>4, <4>5
      <3> QED
        BY <3>3, <3>4
    <2>7. PICK g : g = [i \in D |-> r[i] * Q128]
      OBVIOUS
    <2>8. \A i \in D : r[i] \in Int /\ g[i] = r[i] * Q128
      BY <2>6, <2>7
    <2>9. \A i \in D : g[i] \in Int /\ d[i] \in Int /\ g[i] <= d[i]
      <3>1. \A m, k \in Nat : m * k \in Int
        OBVIOUS
      <3> QED
        BY <2>1, <2>6, <2>7, <3>1
    <2>10. \A i \in D : r[i] \in Nat
      BY <2>6
    <2> HIDE DEF D
    <2>11. PICK all \in Nat : all = SumFunctionOnSet(r, D)
      BY <2>1, <2>10, SumNatural
    <2>12. SumFunctionOnSet(g, D) = all * Q128
      BY <2>1, <2>8, <2>11, SumScale
    <2>13. SumFunctionOnSet(g, D) <= SumFunctionOnSet(d, D)
      BY <2>1, <2>9, SumMonotone
    <2>14. all * Q128 <= TotalDue(now) /\ TotalDue(now) \in Nat
      BY <2>1, <2>5, <2>12, <2>13, DuesAreNumbers
    <2>15. /\ TotalDue(now) + (now.claimed + now.pot) * Q128 <= now.notified * Q128
           /\ now.reserve + now.claimed = now.notified
           /\ now.reserve \in Nat /\ now.claimed \in Nat /\ now.pot \in Nat
      BY <1>3 DEF BooksOK, LedgersOK, DuesCovered
    <2>16. PICK claimed \in Nat, pot \in Nat, reserve \in Nat, scale \in Nat \ {0} :
             claimed = now.claimed /\ pot = now.pot /\ reserve = now.reserve /\ scale = Q128
      BY <2>1, <2>15
    <2>17. TotalDue(now) + (claimed + pot) * scale <= (reserve + claimed) * scale /\ all * scale <= TotalDue(now)
      BY <2>14, <2>15, <2>16
    <2>18. /\ (claimed + pot) * scale = claimed * scale + pot * scale
           /\ (reserve + claimed) * scale = reserve * scale + claimed * scale
           /\ (all + pot) * scale = all * scale + pot * scale
           /\ claimed * scale \in Nat /\ pot * scale \in Nat /\ reserve * scale \in Nat /\ all * scale \in Nat
      OBVIOUS
    <2>19. ~(reserve * scale < (all + pot) * scale)
      BY <2>14, <2>17, <2>18
    <2>20. reserve \in Int /\ all + pot \in Int /\ (~(all + pot <= reserve) => reserve < all + pot)
      OBVIOUS
    <2>21. ASSUME reserve < all + pot PROVE reserve * scale < (all + pot) * scale
      BY <2>21
    <2> QED
      BY <2>3, <2>11, <2>16, <2>19, <2>20, <2>21
  <1> QED
    BY <1>1, <1>2, <1>4

\* What the chain of the utilities' release is.
LedgerInvariant ==
  /\ TraceOK(chain) /\ TxsOK(sent)
  /\ safe \in Nat /\ final \in Nat \ {0} /\ final <= safe /\ safe <= Len(chain)

\* What a list of transactions is made of.
LEMMA JoinedTxs ==
  ASSUME NEW s, TxsOK(s), NEW t, TxsOK(t)
  PROVE  TxsOK(s \o t)
  BY JoinIsSeq DEF TxsOK

\* What is pending was sent.
LEMMA PendingFine ==
  ASSUME LedgerInvariant, NEW next \in Prefixes(Pending)
  PROVE  TxsOK(next)
  <1>1. /\ Len(sent) \in Nat /\ (\A i \in 1..Len(sent) : sent[i] \in ToSet(sent)) /\ IsSeq(sent)
        /\ DOMAIN chain = 1..Len(chain) /\ IsFiniteSet(1..Len(chain))
    BY ElementOfSeq, LenProperties, ListDomain DEF LedgerInvariant, TraceOK, TxsOK, IsSeq
  <1>2. PICK k \in Nat : k = Nonces(chain)
    <2> DEFINE D == 1..Len(chain)
               T(n) == ToSet(chain[n].txs)
               f == [n \in D |-> T(n)]
    <2>1. \A n \in D : IsFiniteSet(T(n))
      <3>1. ASSUME NEW n \in D PROVE IsFiniteSet(T(n))
        <4>1. PICK t : t = chain[n].txs
          OBVIOUS
        <4>2. IsSeq(t)
          BY <4>1 DEF LedgerInvariant, TraceOK, BlockOK, TxsOK
        <4>3. ToSet(t) = {t[i] : i \in 1..Len(t)} /\ IsFiniteSet(1..Len(t))
          BY <4>2, IsSeqFacts, ListDomain
        <4>4. IsFiniteSet({t[i] : i \in 1..Len(t)})
          BY <4>3, ImageFinite
        <4> QED
          BY <4>1, <4>3, <4>4
      <3> QED
        BY <3>1
    <2>2. IsFiniteSet({f[n] : n \in D})
      BY <1>1, ImageFinite
    <2>3. Mined(chain) = UNION {f[n] : n \in D}
      BY <1>1 DEF Mined
    <2>4. \A S \in {f[n] : n \in D} : IsFiniteSet(S)
      BY <2>1
    <2>5. IsFiniteSet(UNION {f[n] : n \in D})
      <3> HIDE DEF f, D
      <3> QED
        BY <2>2, <2>4, FS_UNION
    <2>6. PICK S : S = {tx \in Mined(chain) : tx.from = "deployer"}
      OBVIOUS
    <2>7. IsFiniteSet(S)
      BY <2>3, <2>5, <2>6, FS_Subset
    <2>8. Cardinality(S) \in Nat
      BY <2>7, FS_CardinalityType
    <2> QED
      BY <2>6, <2>8 DEF Nonces
  <1>3. Pending \in Seq(ToSet(sent))
    <2>1. \A i \in k + 1..Len(sent) : sent[i] \in ToSet(sent)
      BY <1>1
    <2>2. sent \in Seq(ToSet(sent))
      BY <1>1 DEF IsSeq
    <2> QED
      BY <1>1, <1>2, <2>1, <2>2, SubSeqProperties DEF Pending
  <1>4. PICK l \in 0..Len(Pending) : next = SubSeq(Pending, 1, l)
    BY DEF Prefixes
  <1>5. Len(Pending) \in Nat /\ \A i \in 1..l : Pending[i] \in ToSet(sent)
    BY <1>3, <1>4, ElementOfSeq, LenProperties
  <1>6. next \in Seq(ToSet(sent))
    BY <1>3, <1>4, <1>5, SubSeqProperties
  <1>7. IsSeq(next) /\ ToSet(next) \subseteq ToSet(sent)
    BY <1>6, SeqIsSeq, ElementOfSeq
  <1> QED
    BY <1>7 DEF LedgerInvariant, TxsOK

\* A transaction of another account.
LEMMA StrangersFine ==
  ASSUME NEW u, NEW strangers \in UtilityStrangers(u)
  PROVE  TxsOK(strangers)
  <1>1. CASE strangers = <<>>
    <2>1. strangers \in Seq({}) /\ Len(strangers) = 0
      BY <1>1
    <2>2. IsSeq(strangers) /\ ToSet(strangers) = {strangers[i] : i \in 1..0}
      BY <2>1, SeqIsSeq
    <2> QED
      BY <2>2 DEF TxsOK
  <1>2. CASE strangers # <<>>
    <2>1. PICK n, call, to, args :
            /\ strangers = <<Transaction("stranger", n, call, to, args, 0, FALSE)>>
            /\ \/ call = "lock" /\ args = <<3 * LockWeight, Unbounded, Unbounded>>
               \/ call \in {"boost", "checkpoint", "transfer", "claim"}
      BY <1>2, Zenon DEF UtilityStrangers
    <2>2. PICK tx : tx = Transaction("stranger", n, call, to, args, 0, FALSE)
      OBVIOUS
    <2>3. tx.call = call /\ tx.args = args
      BY <2>2 DEF Transaction
    <2>4. TxOK(tx)
      BY <2>1, <2>3 DEF TxOK, LockWeight
    <2>5. IsSeq(<<tx>>) /\ ToSet(<<tx>>) = {tx}
      BY TuplesAreSeqs
    <2> QED
      BY <2>1, <2>2, <2>4, <2>5 DEF TxsOK
  <1> QED
    BY <1>1, <1>2

\* What the scripts send.
LEMMA StagesFine ==
  ASSUME NEW u, NEW stage, NEW epoch, NEW deadline
  PROVE  TxsOK(StageTransactions(u, stage, epoch, deadline))
  <1>1. \A label \in {4, 6, 7, 8} : \A n, to, args : TxOK(UtilityTransaction(label, n, to, args))
    BY DEF UtilityTransaction, Transaction, UtilityLabels, TxOK
  <1>2. \A n, to : TxOK(UtilityTransaction(5, n, to, <<LockWeight, epoch, deadline>>))
    BY DEF UtilityTransaction, Transaction, UtilityLabels, TxOK, LockWeight
  <1>3. CASE stage = "lock"
    <2>1. PICK a, b : StageTransactions(u, stage, epoch, deadline) = <<a, b>> /\ TxOK(a) /\ TxOK(b)
      BY <1>1, <1>2, <1>3 DEF StageTransactions
    <2> QED
      BY <2>1, TuplesAreSeqs DEF TxsOK
  <1>4. CASE stage = "boost"
    <2>1. PICK a, b : StageTransactions(u, stage, epoch, deadline) = <<a, b>> /\ TxOK(a) /\ TxOK(b)
      BY <1>1, <1>4 DEF StageTransactions
    <2> QED
      BY <2>1, TuplesAreSeqs DEF TxsOK
  <1>5. CASE stage \notin {"lock", "boost"}
    <2>1. PICK a : StageTransactions(u, stage, epoch, deadline) = <<a>> /\ TxOK(a)
      BY <1>1, <1>5 DEF StageTransactions
    <2> QED
      BY <2>1, TuplesAreSeqs DEF TxsOK
  <1> QED
    BY <1>3, <1>4, <1>5

\* What is sent next is as what was sent before.
LEMMA SendingKeeps ==
  ASSUME LedgerInvariant, NEW txs, TxsOK(txs), Send(txs)
  PROVE  LedgerInvariant'
  <1>1. sent' = sent \o txs /\ UNCHANGED <<chain, safe, final>>
    BY DEF Send
  <1>2. TxsOK(sent \o txs)
    BY JoinedTxs DEF LedgerInvariant
  <1>3. PICK all : all = sent'
    OBVIOUS
  <1>4. TxsOK(all)
    BY <1>1, <1>2, <1>3
  <1>5. TxsOK(sent)'
    BY <1>3, <1>4 DEF TxsOK, TxOK
  <1> QED
    BY <1>1, <1>5 DEF LedgerInvariant, TraceOK, BlockOK, TxsOK, TxOK

\* A block of them goes on top.
LEMMA MiningKeeps ==
  ASSUME LedgerInvariant, UtilityMine
  PROVE  LedgerInvariant'
  <1>0. IsSeq(chain) /\ Len(chain) \in Nat /\ Len(chain) # 0 /\ BlockOK(chain[Len(chain)])
    BY LenProperties DEF LedgerInvariant, TraceOK, IsSeq
  <1>1. PICK u, strangers, next, tick :
          /\ strangers \in UtilityStrangers(u) /\ next \in Prefixes(Pending) /\ tick \in 0..BootstrapLength
          /\ Grow(strangers, next, ClockNow + tick)
    BY Zenon DEF UtilityMine
  <1>2. PICK txs : txs = strangers \o next
    OBVIOUS
  <1>3. TxsOK(txs)
    BY <1>1, <1>2, StrangersFine, PendingFine, JoinedTxs
  <1>4. PICK clock \in Nat : clock = ClockNow + tick /\ chain[Len(chain)].clock <= clock
    BY <1>0, <1>1, UtilityNumbers DEF BlockOK, ClockNow, BlockAt, Latest
  <1>5. PICK hash : hash = <<Latest + 1, fork>>
    OBVIOUS
  <1>6. PICK b : b = [hash |-> hash, txs |-> txs, clock |-> clock]
    OBVIOUS
  <1>7. chain' = Append(chain, b) /\ UNCHANGED <<safe, final, sent>>
    BY Zenon, <1>1, <1>2, <1>4, <1>5, <1>6 DEF Grow
  <1>8. BlockOK(b) /\ b.clock = clock
    BY <1>3, <1>6 DEF BlockOK
  <1>9. PICK c : c = Append(chain, b)
    OBVIOUS
  <1>10. PICK m \in Nat : m = Len(chain) + 1
    BY <1>0
  <1>11. /\ IsSeq(c) /\ Len(c) = m /\ c[m] = b /\ \A i \in 1..Len(chain) : c[i] = chain[i]
    <2>1. IsSeq(c) /\ Len(c) = Len(chain) + 1 /\ \A i \in 1..Len(chain) : c[i] = chain[i]
      BY <1>0, <1>9, AppendIsSeq
    <2>2. c[Len(chain) + 1] = b
      BY <1>0, <1>9 DEF IsSeq
    <2> QED
      BY <1>10, <2>1, <2>2
  <1>12. TraceOK(c)
    <2>1. \A n \in 1..m : BlockOK(c[n])
      <3>1. \A n \in 1..m : n = m \/ n \in 1..Len(chain)
        BY <1>0, <1>10
      <3> QED
        BY <1>8, <1>11, <3>1 DEF LedgerInvariant, TraceOK
    <2>2. \A n \in 2..m : c[n - 1].clock <= c[n].clock
      <3>1. ASSUME NEW n \in 2..m PROVE c[n - 1].clock <= c[n].clock
        <4>1. CASE n = m
          <5>1. n - 1 = Len(chain) /\ Len(chain) \in 1..Len(chain)
            BY <1>0, <1>10, <4>1
          <5> QED
            BY <1>4, <1>8, <1>11, <4>1, <5>1
        <4>2. CASE n # m
          <5>1. n \in 2..Len(chain) /\ n - 1 \in 1..Len(chain) /\ n \in 1..Len(chain)
            BY <1>0, <1>10, <4>2
          <5> QED
            BY <1>11, <5>1 DEF LedgerInvariant, TraceOK
        <4> QED
          BY <4>1, <4>2
      <3> QED
        BY <3>1
    <2> QED
      BY <1>11, <2>1, <2>2 DEF TraceOK
  <1>13. PICK d : d = chain'
    OBVIOUS
  <1>14. TraceOK(d) /\ Len(d) = Len(chain) + 1
    BY <1>7, <1>9, <1>10, <1>11, <1>12, <1>13
  <1>15. TraceOK(chain)'
    BY <1>13, <1>14 DEF TraceOK, BlockOK, TxsOK, TxOK
  <1>16. Len(chain') = Len(chain) + 1
    BY <1>13, <1>14
  <1>17. TxsOK(sent)'
    BY <1>7 DEF LedgerInvariant, TxsOK, TxOK
  <1> QED
    BY <1>0, <1>7, <1>15, <1>16, <1>17 DEF LedgerInvariant

\* The heads move, and blocks above the finalized one go.
LEMMA HeadsKeep ==
  ASSUME LedgerInvariant, AdvanceSafe \/ AdvanceFinal \/ Reorganise
  PROVE  LedgerInvariant'
  <1>0. IsSeq(chain) /\ Len(chain) \in Nat
    BY LenProperties DEF LedgerInvariant, TraceOK, IsSeq
  <1>1. CASE AdvanceSafe
    BY <1>0, <1>1 DEF AdvanceSafe, LedgerInvariant, TraceOK, BlockOK, TxsOK, TxOK, Latest
  <1>2. CASE AdvanceFinal
    BY <1>0, <1>2 DEF AdvanceFinal, LedgerInvariant, TraceOK, BlockOK, TxsOK, TxOK
  <1>3. CASE Reorganise
    <2>1. PICK n \in final..Len(chain) - 1 : chain' = ChainThrough(n) /\ safe' = IF safe > n THEN n ELSE safe
      BY <1>3 DEF Reorganise, Latest
    <2>2. UNCHANGED <<final, sent>>
      BY <1>3 DEF Reorganise
    <2>3. n \in 0..Len(chain) /\ n \in Nat
      BY <1>0, <2>1 DEF LedgerInvariant
    <2>4. PICK c : c = SubSeq(chain, 1, n)
      OBVIOUS
    <2>5. IsSeq(c) /\ Len(c) = n /\ \A i \in 1..n : c[i] = chain[i]
      BY <1>0, <2>3, <2>4, PrefixIsSeq
    <2>6. TraceOK(c)
      <3>1. \A i \in 1..n : BlockOK(c[i])
        BY <1>0, <2>3, <2>5 DEF LedgerInvariant, TraceOK
      <3>2. \A i \in 2..n : c[i - 1].clock <= c[i].clock
        <4>1. ASSUME NEW i \in 2..n PROVE c[i - 1].clock <= c[i].clock
          <5>1. i \in 1..n /\ i - 1 \in 1..n /\ i \in 2..Len(chain)
            BY <2>3
          <5> QED
            BY <2>5, <5>1 DEF LedgerInvariant, TraceOK
        <4> QED
          BY <4>1
      <3> QED
        BY <2>5, <3>1, <3>2 DEF TraceOK
    <2>7. PICK d : d = chain'
      OBVIOUS
    <2>8. TraceOK(d) /\ Len(d) = n
      BY <2>1, <2>4, <2>5, <2>6, <2>7 DEF ChainThrough
    <2>9. TraceOK(chain)' /\ Len(chain') = n
      BY <2>7, <2>8 DEF TraceOK, BlockOK, TxsOK, TxOK
    <2>10. TxsOK(sent)'
      BY <2>2 DEF LedgerInvariant, TxsOK, TxOK
    <2>11. safe' \in Nat /\ final' \in Nat \ {0} /\ final' <= safe' /\ safe' <= n
      BY <1>0, <2>1, <2>2, <2>3 DEF LedgerInvariant
    <2> QED
      BY <2>9, <2>10, <2>11 DEF LedgerInvariant
  <1> QED
    BY <1>1, <1>2, <1>3

\* Every step keeps the invariant.
LEMMA LedgerSteps ==
  ASSUME LedgerInvariant, [UtilityNext]_<<vars, utilityVars>>
  PROVE  LedgerInvariant'
  <1>1. ASSUME UNCHANGED chainVars PROVE LedgerInvariant'
    BY <1>1 DEF chainVars, LedgerInvariant, TraceOK, BlockOK, TxsOK, TxOK
  <1>2. CASE UtilityChainNext \/ UtilityHeadsNext
    BY <1>2, MiningKeeps, HeadsKeep DEF UtilityChainNext, UtilityHeadsNext
  <1>3. CASE UtilityTreeNext
    BY <1>1, <1>3 DEF UtilityTreeNext, EditSources, Build, RetainRelease, Interrupt, EditTerms, GenerateTerms, GenerateTermsHash,
       UtilityCommit, UtilityCheckout, Commit, vars
  <1>4. CASE DeployUtilities
    <2>1. PICK first, l : /\ first = Len(sent) + 1
                          /\ Broadcast("deploy",
                               <<UtilityTransaction(1, first, NoAddress, <<HookrToken>>),
                                 UtilityTransaction(2, first + 1, NoAddress, <<HookrToken, l, first>>),
                                 UtilityTransaction(3, first + 2, first, <<first + 1>>)>>, TRUE)
      BY <1>4 DEF DeployUtilities
    <2>2. PICK a : a = UtilityTransaction(1, first, NoAddress, <<HookrToken>>)
      OBVIOUS
    <2>3. PICK b : b = UtilityTransaction(2, first + 1, NoAddress, <<HookrToken, l, first>>)
      OBVIOUS
    <2>4. PICK c : c = UtilityTransaction(3, first + 2, first, <<first + 1>>)
      OBVIOUS
    <2>5. first # 0
      BY <2>1, LenProperties DEF LedgerInvariant, TxsOK, IsSeq
    <2>6. TxOK(a)
      BY <2>2, <2>5 DEF UtilityTransaction, Transaction, UtilityLabels, TxOK
    <2>7. TxOK(b) /\ TxOK(c)
      BY <2>3, <2>4 DEF UtilityTransaction, Transaction, UtilityLabels, TxOK
    <2>8. PICK txs : txs = <<a, b, c>>
      OBVIOUS
    <2>9. TxsOK(txs)
      BY <2>6, <2>7, <2>8, TuplesAreSeqs DEF TxsOK
    <2>10. Send(txs)
      BY Zenon, <2>1, <2>2, <2>3, <2>4, <2>8 DEF Broadcast
    <2> QED
      BY <2>9, <2>10, SendingKeeps
  <1>5. ASSUME NEW stage, RunStage(stage) \/ \E kept \in BOOLEAN : HandStage(stage, kept)
        PROVE  LedgerInvariant'
    <2>1. PICK u, epoch, deadline, kept : Broadcast(stage, StageTransactions(u, stage, epoch, deadline), kept)
      BY <1>5, Zenon DEF RunStage, HandStage
    <2>2. PICK txs : txs = StageTransactions(u, stage, epoch, deadline)
      OBVIOUS
    <2>3. TxsOK(txs) /\ Send(txs)
      BY Zenon, <2>1, <2>2, StagesFine DEF Broadcast
    <2> QED
      BY <2>3, SendingKeeps
  <1>6. ASSUME NEW stage, RecordStage(stage) PROVE LedgerInvariant'
    BY <1>1, <1>6 DEF RecordStage, vars
  <1>7. CASE UtilityScriptNext
    BY <1>1, <1>7 DEF UtilityScriptNext, StartUtilityPreflight, StartCandidate, UtilityReceiptHead, UtilityStateHead,
       UtilityCore, UtilityPreflightReceipts, UtilityPreflightState, UtilityPreflightRecheck, UtilityPreflightEnds,
       UtilityCanaryReceipts, UtilityCanaryState, UtilityCanaryRecheck, UtilityConfirmFinality, UtilityFinalityTimeout,
       EmitCandidate, OnlyUtilityRunChanges, OnlyRunChanges
  <1>8. CASE UNCHANGED <<vars, utilityVars>>
    BY <1>1, <1>8 DEF vars
  <1> QED
    BY <1>2, <1>3, <1>4, <1>5, <1>6, <1>7, <1>8 DEF UtilityNext, UtilityBroadcastNext

\* The core's transactions are none of the utilities'.
LEMMA LedgerStarts == UtilityInit => LedgerInvariant
  <1> SUFFICES ASSUME UtilityInit PROVE LedgerInvariant
    OBVIOUS
  <1>1. PICK deploy : deploy = DeployTransactions(1, Reviewed)
    OBVIOUS
  <1>2. PICK canary : canary = [i \in DOMAIN CanarySteps |->
                   CanaryTransaction(i, Len(deploy) + i, deploy[Launchpad].nonce, deploy[4].nonce, Len(deploy) + 1, "spec", FALSE)]
    OBVIOUS
  <1>3. PICK hash : /\ chain = <<[hash |-> hash, txs |-> deploy \o canary, clock |-> 1]>>
                    /\ safe = 1 /\ final = 1 /\ sent = deploy \o canary
    BY Zenon, <1>1, <1>2 DEF UtilityInit
  <1>4. TxsOK(deploy)
    <2>1. IsSeq(deploy) /\ Len(deploy) = Len(DeploySteps)
      BY <1>1, DeploymentIs
    <2>2. DOMAIN DeploySteps = 1..Len(DeploySteps) /\ Len(DeploySteps) \in Nat
      BY LabelsAre, LenProperties DEF IsSeq
    <2>3. \A i \in 1..Len(DeploySteps) : deploy[i].call = DeploySteps[i]
      BY <1>1, <2>2 DEF DeployTransactions, Transaction
    <2>4. \A i \in 1..Len(DeploySteps) : DeploySteps[i] # "lock" /\ DeploySteps[i] # "lockRewardsDeploy"
      <3>1. ASSUME NEW i \in 1..Len(DeploySteps) PROVE DeploySteps[i] # "lock" /\ DeploySteps[i] # "lockRewardsDeploy"
        <4>1. i \in 6..Len(DeploySteps) \/ i \in {1, 2, 3, 4, 5}
          BY <2>2
        <4> QED
          BY <4>1, LabelsAre
      <3> QED
        BY <3>1
    <2>5. ToSet(deploy) = {deploy[i] : i \in 1..Len(deploy)}
      BY <2>1, SeqIsSeq DEF IsSeq
    <2> QED
      BY <2>1, <2>3, <2>4, <2>5 DEF TxsOK, TxOK
  <1>5. TxsOK(canary)
    <2>1. DOMAIN CanarySteps = 1..4
      BY CanaryLabels
    <2>2. canary = [i \in 1..4 |-> canary[i]]
      BY <1>2, <2>1
    <2>3. IsSeq(canary) /\ Len(canary) = 4
      BY <2>2, ListIsSeq
    <2>4. \A i \in 1..4 : canary[i].call = CanarySteps[i]
      BY <1>2, <2>1 DEF CanaryTransaction, Transaction
    <2>5. ToSet(canary) = {canary[i] : i \in 1..4}
      <3>1. canary \in Seq(ToSet(canary))
        BY <2>3 DEF IsSeq
      <3>2. ToSet(canary) = {canary[i] : i \in 1..Len(canary)}
        BY <3>1, SeqIsSeq
      <3> QED
        BY Zenon, <2>3, <3>2
    <2>6. \A i \in 1..4 : CanarySteps[i] # "lock" /\ CanarySteps[i] # "lockRewardsDeploy"
      <3>1. \A i \in 1..4 : i \in {1, 2, 3, 4}
        OBVIOUS
      <3> QED
        BY <3>1, CanaryLabels
    <2> QED
      BY <2>3, <2>4, <2>5, <2>6 DEF TxsOK, TxOK
  <1>6. PICK txs : txs = deploy \o canary
    OBVIOUS
  <1>7. TxsOK(txs)
    BY <1>4, <1>5, <1>6, JoinedTxs
  <1>8. PICK b : b = [hash |-> hash, txs |-> txs, clock |-> 1]
    OBVIOUS
  <1>9. BlockOK(b)
    BY <1>7, <1>8 DEF BlockOK
  <1>10. chain = <<b>> /\ sent = txs
    BY Zenon, <1>3, <1>6, <1>8
  <1>11. IsSeq(chain) /\ Len(chain) = 1 /\ chain[1] = b
    BY <1>10, TuplesAreSeqs
  <1>12. TraceOK(chain)
    BY <1>9, <1>11 DEF TraceOK
  <1> QED
    BY <1>3, <1>7, <1>10, <1>11, <1>12 DEF LedgerInvariant

(* Whatever anyone locks, boosts and claims, in whatever order: what every       *)
(* position could claim, scaled by Q128 and before it is rounded, with what was  *)
(* claimed and what waits for its period, never exceeds what was paid in fees.   *)
THEOREM RewardsCovered == UtilitySpec => []RewardsStayCovered
  <1>1. LedgerInvariant => RewardsStayCovered
    <2> SUFFICES ASSUME LedgerInvariant, NEW u, u = UtilityHead, u.rewards # 0
                 PROVE  /\ AmbientLedgersBalance(u) /\ Solvent(u)
                        /\ \A now \in {Checkpointed(u, EpochNow(u))} :
                             SumFunction([i \in DOMAIN now.positions |-> RewardOf(now, now.positions[i])]) + now.pot
                               <= now.reserve
      BY DEF RewardsStayCovered
    <2>1. TraceOK(chain) /\ Len(chain) # 0 /\ Len(chain) \in Nat
      BY LenProperties DEF LedgerInvariant, TraceOK, IsSeq
    <2>2. BooksOK(u)
      BY <2>1, TraceKeepsBooks DEF UtilityHead, BooksAtClock
    <2>3. PICK epoch : epoch = EpochNow(u)
      OBVIOUS
    <2>4. ClockNow \in Nat
      BY <2>1 DEF TraceOK, BlockOK, ClockNow, BlockAt, Latest
    <2>5. epoch \in Nat
      BY <2>2, <2>3, <2>4, EpochsGrow DEF EpochNow, BooksOK
    <2>6. /\ AmbientLedgersBalance(u) /\ Solvent(u)
          /\ \A now \in {Checkpointed(u, epoch)} :
               SumFunction([i \in DOMAIN now.positions |-> RewardOf(now, now.positions[i])]) + now.pot <= now.reserve
      BY <2>2, <2>5, BooksCover
    <2> QED
      BY Zenon, <2>3, <2>6
  <1> QED
    BY <1>1, LedgerStarts, LedgerSteps, PTL DEF UtilitySpec

=============================================================================
