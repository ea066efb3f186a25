------------------------ MODULE OneTimeCodesProofs ------------------------
(***************************************************************************)
(* OneTimeCodes for any number of requests, numbers, links, codes and      *)
(* replicas: its type, that a dead code is refused, that a verified number *)
(* was proven, and that every row implements OneTimeGrant.                 *)
(***************************************************************************)
EXTENDS OneTimeCodes, FiniteSetTheorems, TLAPS

\* What the row and the history say of each other.
RowInv ==
    /\ ended \subseteq 1..code
    /\ code \in ended => consumed
    /\ code # 0 => number = sentTo[code] /\ wrong[code] <= tries
    /\ \A c \in Codes : c > code => wrong[c] = 0

\* What a request between two calls knows.
RequestInv ==
    \A r \in Requests :
        /\ pc[r] = "count" => judged[r] \in 1..code
        /\ pc[r] \in {"consume", "record"} =>
               /\ guess[r] \in 1..code
               /\ guess[r] \notin dead[r]
               /\ sentTo[guess[r]] = to[r]
               /\ to[r] \in Targets
        /\ pc[r] = "record" => to[r] \in proven /\ kind = "phone"

IInv == TypeOK /\ RowInv /\ RequestInv /\ VerifiedNumberProven

LEMMA InitIInv == Init => IInv
<1> SUFFICES ASSUME Init PROVE IInv
  OBVIOUS
<1> USE OneTimeCodesAssumption
<1>1. TypeOK
  <2>1. /\ kind \in {"email", "phone"}
        /\ code \in 0..MaxCode
        /\ number \in Targets \cup {None}
        /\ codeEnd \in Nat
        /\ tries \in Nat
        /\ now \in Nat
        /\ peak \in Nat
        /\ phone \in Numbers \cup {None}
    BY DEF Init
  <2>0. consumed \in BOOLEAN
    BY Zenon DEF Init
  <2>2. /\ link \in [Links -> {"none", "live", "spent"}]
        /\ linkEnd \in [Links -> Nat]
        /\ allowed \in [Replicas -> Nat]
        /\ pc \in [Requests -> PCs]
    BY DEF Init, PCs
  <2>3. /\ guess \in [Requests -> 0..MaxCode]
        /\ to \in [Requests -> Targets \cup {None}]
        /\ last \in [Requests -> BOOLEAN]
        /\ judged \in [Requests -> 0..MaxCode]
    BY DEF Init
  <2>4. /\ dead \in [Requests -> SUBSET Codes]
        /\ ended \in SUBSET Codes
        /\ wrong \in [Codes -> Nat]
        /\ sentTo \in [Codes -> Targets \cup {None}]
        /\ proven \in SUBSET Targets
    BY DEF Init
  <2>5. /\ times \in [Codes -> Nat]
        /\ issued \in [Slots -> Nat]
        /\ granted \in [Slots -> Nat]
    BY DEF Init
  <2> QED
    BY <2>0, <2>1, <2>2, <2>3, <2>4, <2>5 DEF TypeOK
<1>2. RowInv /\ VerifiedNumberProven
  BY DEF Init, RowInv, VerifiedNumberProven, Codes
<1>3. RequestInv
  BY DEF Init, RequestInv
<1> QED
  BY <1>1, <1>2, <1>3 DEF IInv

-----------------------------------------------------------------------------
(* The type invariant, action by action.                                   *)

LEMMA TypeRequestCode ==
    ASSUME TypeOK, RowInv, NEW p \in Replicas, NEW n \in Targets, RequestCode(p, n)
    PROVE  TypeOK'
<1> USE OneTimeCodesAssumption
<1>0. Targets' = Targets
  BY DEF RequestCode, Targets, row, UpsertCode
<1>1. code' \in 0..MaxCode
  BY <1>0 DEF TypeOK, RequestCode, allow, UpsertCode, RowInv, Codes, Slots, PCs
<1>2. number' \in (Targets \cup {None})'
  BY <1>0 DEF TypeOK, RequestCode, allow, UpsertCode, RowInv, Codes, Slots, PCs, Targets
<1>3. codeEnd' \in Nat
  BY <1>0 DEF TypeOK, RequestCode, allow, UpsertCode, RowInv, Codes, Slots, PCs
<1>4. tries' \in Nat
  BY <1>0 DEF TypeOK, RequestCode, allow, UpsertCode, RowInv, Codes, Slots, PCs
<1>5. allowed' \in [Replicas -> Nat]
  BY <1>0 DEF TypeOK, RequestCode, allow, UpsertCode, RowInv, Codes, Slots, PCs
<1>6. sentTo' \in [Codes -> Targets \cup {None}]'
  BY <1>0 DEF TypeOK, RequestCode, allow, UpsertCode, RowInv, Codes, Slots, PCs, Targets
<1>7. ended' \in SUBSET Codes
  BY <1>0 DEF TypeOK, RequestCode, allow, UpsertCode, RowInv, Codes, Slots, PCs
<1>8. issued' \in [Slots -> Nat]
  BY <1>0 DEF TypeOK, RequestCode, allow, UpsertCode, RowInv, Codes, Slots, PCs
<1> QED
  BY <1>0, <1>1, <1>2, <1>3, <1>4, <1>5, <1>6, <1>7, <1>8 DEF TypeOK, RequestCode, UpsertCode, row, links, locals, ghosts

LEMMA TypeRequestCodeFails ==
    ASSUME TypeOK, NEW p \in Replicas, RequestCodeFails(p)
    PROVE  TypeOK'
<1> USE OneTimeCodesAssumption
<1>0. Targets' = Targets
  BY DEF RequestCodeFails, Targets, row
<1>1. allowed' \in [Replicas -> Nat]
  BY <1>0 DEF TypeOK, RequestCodeFails, allow, Codes, Slots, PCs
<1> QED
  BY <1>0, <1>1 DEF TypeOK, RequestCodeFails, row, links, locals, ghosts

LEMMA TypeRequestMagicLink ==
    ASSUME TypeOK, NEW p \in Replicas, NEW l \in Links, RequestMagicLink(p, l)
    PROVE  TypeOK'
<1> USE OneTimeCodesAssumption
<1>0. Targets' = Targets
  BY DEF RequestMagicLink, Targets, row
<1>1. allowed' \in [Replicas -> Nat]
  BY <1>0 DEF TypeOK, RequestMagicLink, allow, Codes, Slots, PCs
<1>2. link' \in [Links -> {"none", "live", "spent"}]
  BY <1>0 DEF TypeOK, RequestMagicLink, allow, Codes, Slots, PCs
<1>3. linkEnd' \in [Links -> Nat]
  BY <1>0 DEF TypeOK, RequestMagicLink, allow, Codes, Slots, PCs
<1>4. issued' \in [Slots -> Nat]
  BY <1>0 DEF TypeOK, RequestMagicLink, allow, Codes, Slots, PCs
<1> QED
  BY <1>0, <1>1, <1>2, <1>3, <1>4 DEF TypeOK, RequestMagicLink, row, links, locals, ghosts

LEMMA TypeVerifyCode ==
    ASSUME TypeOK, NEW r \in Requests, VerifyCode(r)
    PROVE  TypeOK'
<1>1. PICK g \in 0..code, n \in Targets : Present(r, g, n)
  BY DEF VerifyCode
<1>2. peak' \in Nat
  <2> DEFINE open == Cardinality({q \in Requests : pc'[q] = "count"})
  <2>1. open \in Nat
    BY OneTimeCodesAssumption, FS_Subset, FS_CardinalityType
  <2> QED
    BY <1>1, <2>1 DEF Present, TypeOK
<1>3. dead' \in [Requests -> SUBSET Codes]
  BY <1>1 DEF Present, TypeOK, Dead
<1>4. pc' \in [Requests -> PCs]
  BY <1>1 DEF Present, TypeOK, Goto, PCs
<1>5. /\ guess' \in [Requests -> 0..MaxCode]
      /\ to' \in [Requests -> Targets \cup {None}]
      /\ last' \in [Requests -> BOOLEAN]
      /\ judged' \in [Requests -> 0..MaxCode]
  <2>1. g \in 0..MaxCode /\ code \in 0..MaxCode
    BY OneTimeCodesAssumption DEF TypeOK
  <2>2. (tries + 1 >= MaxAttempts) \in BOOLEAN
    OBVIOUS
  <2>3. last' \in [Requests -> BOOLEAN]
    BY <1>1, <2>2, Zenon DEF Present, TypeOK
  <2> QED
    BY <1>1, <2>1, <2>3 DEF Present, TypeOK
<1>6. UNCHANGED <<row, links, allowed, phone, now, ended, wrong, sentTo, proven, times,
                  issued, granted>> /\ Targets' = Targets
  BY <1>1 DEF Present, row, Targets
<1> QED
  BY <1>2, <1>3, <1>4, <1>5, <1>6 DEF TypeOK, row, links

LEMMA TypeIncrementAttempts ==
    ASSUME TypeOK, RequestInv, NEW r \in Requests, IncrementAttempts(r)
    PROVE  TypeOK'
<1> USE OneTimeCodesAssumption
<1>0. Targets' = Targets
  BY DEF IncrementAttempts, Targets, row
<1>1. tries' \in Nat
  BY <1>0 DEF TypeOK, IncrementAttempts, Goto, RequestInv, Codes, Slots, PCs
<1>2. wrong' \in [Codes -> Nat]
  BY <1>0 DEF TypeOK, IncrementAttempts, Goto, RequestInv, Codes, Slots, PCs
<1>3. pc' \in [Requests -> PCs]
  BY <1>0 DEF TypeOK, IncrementAttempts, Goto, RequestInv, Codes, Slots, PCs
<1> QED
  BY <1>0, <1>1, <1>2, <1>3 DEF TypeOK, IncrementAttempts, row, links, locals, ghosts

LEMMA TypeIncrementFails ==
    ASSUME TypeOK, NEW r \in Requests, IncrementFails(r)
    PROVE  TypeOK'
  BY OneTimeCodesAssumption DEF TypeOK, IncrementFails, Goto, row, links, locals, ghosts, PCs, Codes, Slots, Targets

LEMMA TypeBurn ==
    ASSUME TypeOK, RowInv, NEW r \in Requests, Burn(r)
    PROVE  TypeOK'
<1> USE OneTimeCodesAssumption
<1>0. Targets' = Targets
  BY DEF Burn, Targets, row
<1>1. consumed' \in BOOLEAN
  BY <1>0 DEF TypeOK, Burn, Goto, ConsumeMatches, Codes, Slots, PCs
<1>2. ended' \in SUBSET Codes
  <2>1. code \in Nat /\ code # 0 /\ code <= MaxCode => code \in Codes
    BY DEF Codes
  <2>2. ConsumeMatches => code # 0
    BY DEF ConsumeMatches
  <2> QED
    BY <2>1, <2>2 DEF TypeOK, Burn
<1>3. pc' \in [Requests -> PCs]
  BY <1>0 DEF TypeOK, Burn, Goto, ConsumeMatches, Codes, Slots, PCs
<1> QED
  BY <1>0, <1>1, <1>2, <1>3 DEF TypeOK, Burn, row, links, locals, ghosts

LEMMA TypeConsumeCode ==
    ASSUME TypeOK, RequestInv, NEW r \in Requests, ConsumeCode(r)
    PROVE  TypeOK'
<1> USE OneTimeCodesAssumption
<1>0. Targets' = Targets
  BY DEF ConsumeCode, Targets, row
<1>1. consumed' \in BOOLEAN
  BY <1>0 DEF TypeOK, ConsumeCode, Goto, ConsumeMatches, RequestInv, Codes, Slots, PCs
<1>2. ended' \in SUBSET Codes
  <2>1. code \in Codes /\ guess[r] \in Codes
    BY DEF TypeOK, ConsumeCode, ConsumeMatches, RequestInv, Codes
  <2> QED
    BY <2>1 DEF TypeOK, ConsumeCode
<1>3. proven' \in (SUBSET Targets)'
  BY <1>0 DEF TypeOK, ConsumeCode, Goto, ConsumeMatches, RequestInv, Codes, Slots, PCs, Targets
<1>4. times' \in [Codes -> Nat]
  <2>1. times \in [Codes -> Nat] /\ times' = [times EXCEPT ![guess[r]] = @ + 1]
    BY DEF TypeOK, ConsumeCode
  <2>2. guess[r] \in Codes
    BY DEF TypeOK, ConsumeCode, RequestInv, Codes
  <2>3. times[guess[r]] + 1 \in Nat
    BY <2>1, <2>2
  <2> QED
    BY <2>1, <2>3, Zenon
<1>5. granted' \in [Slots -> Nat]
  <2>1. granted \in [Slots -> Nat] /\ granted' = [granted EXCEPT !["row"] = @ + 1]
    BY DEF TypeOK, ConsumeCode
  <2>2. granted["row"] + 1 \in Nat
    BY <2>1 DEF Slots
  <2> QED
    BY <2>1, <2>2, Zenon
<1>6. pc' \in [Requests -> PCs]
  BY DEF TypeOK, ConsumeCode, Goto, PCs
<1> QED
  BY <1>0, <1>1, <1>2, <1>3, <1>4, <1>5, <1>6 DEF TypeOK, ConsumeCode, row, links, locals, ghosts

LEMMA TypeConsumeLost ==
    ASSUME TypeOK, NEW r \in Requests, ConsumeLost(r)
    PROVE  TypeOK'
  BY OneTimeCodesAssumption DEF TypeOK, ConsumeLost, Goto, row, links, locals, ghosts, PCs, Codes, Slots, Targets

LEMMA TypeSetUserPhoneVerified ==
    ASSUME TypeOK, RequestInv, NEW r \in Requests, SetUserPhoneVerified(r)
    PROVE  TypeOK'
  BY OneTimeCodesAssumption DEF TypeOK, SetUserPhoneVerified, Goto, row, links, locals, ghosts, PCs, Codes, Slots, Targets, RequestInv

LEMMA TypeCrash ==
    ASSUME TypeOK, NEW r \in Requests, Crash(r)
    PROVE  TypeOK'
  BY OneTimeCodesAssumption DEF TypeOK, Crash, Goto, row, links, locals, ghosts, PCs, Codes, Slots, Targets

LEMMA TypeRedeemMagicLink ==
    ASSUME TypeOK, NEW l \in Links, RedeemMagicLink(l)
    PROVE  TypeOK'
<1> USE OneTimeCodesAssumption
<1>0. Targets' = Targets
  BY DEF RedeemMagicLink, Targets, row
<1>1. link' \in [Links -> {"none", "live", "spent"}]
  BY <1>0 DEF TypeOK, RedeemMagicLink, Codes, Slots, PCs
<1>2. granted' \in [Slots -> Nat]
  BY <1>0 DEF TypeOK, RedeemMagicLink, Codes, Slots, PCs
<1> QED
  BY <1>0, <1>1, <1>2 DEF TypeOK, RedeemMagicLink, row, links, locals, ghosts

LEMMA TypeTick ==
    ASSUME TypeOK, Tick
    PROVE  TypeOK'
  BY OneTimeCodesAssumption DEF TypeOK, Tick, row, links, locals, ghosts, PCs, Codes, Slots, Targets

-----------------------------------------------------------------------------
(* The rest of the invariant, action by action.                            *)

LEMMA RestRequestCode ==
    ASSUME IInv, NEW p \in Replicas, NEW n \in Targets, RequestCode(p, n), TypeOK'
    PROVE  RowInv' /\ RequestInv' /\ VerifiedNumberProven'
<1> USE OneTimeCodesAssumption
<1>1. /\ code' = code + 1
      /\ number' = n
      /\ ~consumed'
      /\ tries' = 0
      /\ sentTo' = [sentTo EXCEPT ![code + 1] = n]
      /\ ended' = ended \cup (Codes \cap {code})
      /\ code < MaxCode
      /\ UNCHANGED <<kind, phone, pc, locals, judged, dead, wrong, proven>>
  BY DEF RequestCode, UpsertCode
<1>2. code \in Nat /\ code + 1 \in Codes
  BY <1>1 DEF IInv, TypeOK, Codes
<1>3. RowInv'
  <2>1. ended' \subseteq 1..code'
    BY <1>1, <1>2 DEF IInv, RowInv, Codes
  <2>2. code' \notin ended'
    BY <1>1, <1>2 DEF IInv, RowInv, Codes
  <2>3. number' = sentTo'[code'] /\ wrong'[code'] <= tries'
    BY <1>1, <1>2 DEF IInv, RowInv, TypeOK
  <2>4. \A c \in Codes : c > code' => wrong'[c] = 0
    BY <1>1, <1>2 DEF IInv, RowInv, Codes
  <2> QED
    BY <2>1, <2>2, <2>3, <2>4 DEF RowInv
<1>4. RequestInv'
  <2>1. \A c \in 1..code : sentTo'[c] = sentTo[c] /\ c \in 1..code'
    BY <1>1, <1>2 DEF IInv, TypeOK, Codes
  <2> QED
    BY <1>1, <2>1 DEF IInv, RequestInv, locals, Targets
<1>5. VerifiedNumberProven'
  BY <1>1 DEF IInv, VerifiedNumberProven
<1> QED
  BY <1>3, <1>4, <1>5

LEMMA RestRequestCodeFails ==
    ASSUME IInv, NEW p \in Replicas, RequestCodeFails(p), TypeOK'
    PROVE  RowInv' /\ RequestInv' /\ VerifiedNumberProven'
  BY OneTimeCodesAssumption DEF IInv, TypeOK, RowInv, RequestInv, VerifiedNumberProven, RequestCodeFails, allow, row, locals, ghosts, Codes, Targets

LEMMA RestRequestMagicLink ==
    ASSUME IInv, NEW p \in Replicas, NEW l \in Links, RequestMagicLink(p, l), TypeOK'
    PROVE  RowInv' /\ RequestInv' /\ VerifiedNumberProven'
  BY OneTimeCodesAssumption DEF IInv, TypeOK, RowInv, RequestInv, VerifiedNumberProven, RequestMagicLink, allow, row, locals, ghosts, Codes, Targets

LEMMA RestVerifyCode ==
    ASSUME IInv, NEW r \in Requests, VerifyCode(r), TypeOK'
    PROVE  RowInv' /\ RequestInv' /\ VerifiedNumberProven'
<1>1. PICK g \in 0..code, n \in Targets : Present(r, g, n)
  BY DEF VerifyCode
<1>2. RowInv'
  BY <1>1 DEF IInv, RowInv, Present, row
<1>3. VerifiedNumberProven'
  BY <1>1 DEF IInv, VerifiedNumberProven, Present
<1>4. RequestInv'
  <2>1. ASSUME pc'[r] = "consume" PROVE g = code /\ Answers(n)
    BY <1>1, <2>1 DEF Present, Goto, IInv, TypeOK
  <2>2. ASSUME Answers(n) PROVE code \in Codes /\ code \notin Dead
    BY <2>2, OneTimeCodesAssumption DEF Answers, Dead, IInv, TypeOK, RowInv, Codes
  <2>3. pc'[r] = "count" => code \in 1..code
    BY <1>1 DEF Present, Goto, Answers, IInv, TypeOK
  <2>4. pc'[r] = "consume" => g \in 1..code /\ g \notin Dead /\ sentTo[g] = n
    BY <2>1, <2>2 DEF Answers, IInv, TypeOK, RowInv
  <2>5. pc'[r] # "record"
    BY <1>1 DEF Present, Goto, IInv, TypeOK
  <2>6. /\ judged'[r] = code
        /\ guess'[r] = g
        /\ dead'[r] = Dead
        /\ to'[r] = n
    BY <1>1 DEF Present, IInv, TypeOK
  <2>7. \A q \in Requests : q # r =>
            /\ pc'[q] = pc[q]
            /\ judged'[q] = judged[q]
            /\ guess'[q] = guess[q]
            /\ dead'[q] = dead[q]
            /\ to'[q] = to[q]
    BY <1>1 DEF Present, Goto, IInv, TypeOK
  <2>8. UNCHANGED <<code, sentTo, kind, proven>> /\ Targets' = Targets
    BY <1>1 DEF Present, row, Targets
  <2> QED
    BY <2>3, <2>4, <2>5, <2>6, <2>7, <2>8 DEF IInv, RequestInv
<1> QED
  BY <1>2, <1>3, <1>4

LEMMA RestIncrementAttempts ==
    ASSUME IInv, NEW r \in Requests, IncrementAttempts(r), TypeOK'
    PROVE  RowInv' /\ RequestInv' /\ VerifiedNumberProven'
  BY OneTimeCodesAssumption DEF IInv, TypeOK, RowInv, RequestInv, VerifiedNumberProven, IncrementAttempts, Goto, row, locals, ghosts, Codes, Targets

LEMMA RestIncrementFails ==
    ASSUME IInv, NEW r \in Requests, IncrementFails(r), TypeOK'
    PROVE  RowInv' /\ RequestInv' /\ VerifiedNumberProven'
  BY OneTimeCodesAssumption DEF IInv, TypeOK, RowInv, RequestInv, VerifiedNumberProven, IncrementFails, Goto, row, locals, ghosts, Codes, Targets

LEMMA RestBurn ==
    ASSUME IInv, NEW r \in Requests, Burn(r), TypeOK'
    PROVE  RowInv' /\ RequestInv' /\ VerifiedNumberProven'
<1> USE OneTimeCodesAssumption
<1>1. /\ consumed' = (consumed \/ ConsumeMatches)
      /\ ended' = ended \cup {c \in {code} : ConsumeMatches}
      /\ UNCHANGED <<kind, code, number, tries, phone, locals, judged, dead, wrong, sentTo,
                     proven>>
  BY DEF Burn
<1>2. code \in Nat /\ (ConsumeMatches => code \in 1..code)
  BY DEF IInv, TypeOK, ConsumeMatches
<1>3. RowInv'
  <2>1. ended' \subseteq 1..code'
    BY <1>1, <1>2 DEF IInv, RowInv
  <2>2. code' \in ended' => consumed'
    BY <1>1 DEF IInv, RowInv
  <2> QED
    BY <1>1, <2>1, <2>2 DEF IInv, RowInv
<1>4. RequestInv'
  BY <1>1 DEF IInv, TypeOK, RequestInv, Burn, Goto, locals, Targets
<1>5. VerifiedNumberProven'
  BY <1>1 DEF IInv, VerifiedNumberProven
<1> QED
  BY <1>3, <1>4, <1>5

LEMMA RestConsumeCode ==
    ASSUME IInv, NEW r \in Requests, ConsumeCode(r), TypeOK'
    PROVE  RowInv' /\ RequestInv' /\ VerifiedNumberProven'
<1> USE OneTimeCodesAssumption
<1>1. /\ consumed'
      /\ ended' = ended \cup {code, guess[r]}
      /\ proven' = proven \cup {sentTo[guess[r]]}
      /\ UNCHANGED <<kind, code, number, tries, phone, locals, judged, dead, wrong, sentTo>>
  BY DEF ConsumeCode
<1>2. /\ code \in 1..code
      /\ guess[r] \in 1..code
      /\ guess[r] \notin dead[r]
      /\ sentTo[guess[r]] = to[r]
      /\ to[r] \in Targets
  BY DEF IInv, TypeOK, RequestInv, ConsumeCode, ConsumeMatches
<1>3. RowInv'
  BY <1>1, <1>2 DEF IInv, RowInv
<1>4. RequestInv'
  <2>1. pc'[r] \in {"record", "done"} /\ (pc'[r] = "record" => kind = "phone")
    BY DEF IInv, TypeOK, ConsumeCode, Goto
  <2>2. \A q \in Requests : q # r => pc'[q] = pc[q]
    BY DEF IInv, TypeOK, ConsumeCode, Goto
  <2> QED
    BY <1>1, <1>2, <2>1, <2>2 DEF IInv, RequestInv, locals, Targets
<1>5. VerifiedNumberProven'
  BY <1>1 DEF IInv, VerifiedNumberProven
<1> QED
  BY <1>3, <1>4, <1>5

LEMMA RestConsumeLost ==
    ASSUME IInv, NEW r \in Requests, ConsumeLost(r), TypeOK'
    PROVE  RowInv' /\ RequestInv' /\ VerifiedNumberProven'
  BY OneTimeCodesAssumption DEF IInv, TypeOK, RowInv, RequestInv, VerifiedNumberProven, ConsumeLost, Goto, row, locals, ghosts, Codes, Targets

LEMMA RestSetUserPhoneVerified ==
    ASSUME IInv, NEW r \in Requests, SetUserPhoneVerified(r), TypeOK'
    PROVE  RowInv' /\ RequestInv' /\ VerifiedNumberProven'
  BY OneTimeCodesAssumption DEF IInv, TypeOK, RowInv, RequestInv, VerifiedNumberProven, SetUserPhoneVerified, Goto, row, locals, ghosts, Codes, Targets

LEMMA RestCrash ==
    ASSUME IInv, NEW r \in Requests, Crash(r), TypeOK'
    PROVE  RowInv' /\ RequestInv' /\ VerifiedNumberProven'
  BY OneTimeCodesAssumption DEF IInv, TypeOK, RowInv, RequestInv, VerifiedNumberProven, Crash, Goto, row, locals, ghosts, Codes, Targets

LEMMA RestRedeemMagicLink ==
    ASSUME IInv, NEW l \in Links, RedeemMagicLink(l), TypeOK'
    PROVE  RowInv' /\ RequestInv' /\ VerifiedNumberProven'
  BY OneTimeCodesAssumption DEF IInv, TypeOK, RowInv, RequestInv, VerifiedNumberProven, RedeemMagicLink, row, locals, ghosts, Codes, Targets

LEMMA RestTick ==
    ASSUME IInv, Tick, TypeOK'
    PROVE  RowInv' /\ RequestInv' /\ VerifiedNumberProven'
  BY OneTimeCodesAssumption DEF IInv, TypeOK, RowInv, RequestInv, VerifiedNumberProven, Tick, row, locals, ghosts, Codes, Targets

-----------------------------------------------------------------------------
(* The theorems.                                                           *)

LEMMA NextIInv == IInv /\ [Next]_vars => IInv'
<1> SUFFICES ASSUME IInv, [Next]_vars PROVE IInv'
  OBVIOUS
<1>1. CASE UNCHANGED vars
  BY <1>1 DEF IInv, TypeOK, RowInv, RequestInv, VerifiedNumberProven, vars, row, links, locals,
      ghosts, Targets
<1>2. ASSUME NEW p \in Replicas, NEW n \in Targets, RequestCode(p, n) PROVE IInv'
  BY <1>2, TypeRequestCode, RestRequestCode DEF IInv
<1>3. ASSUME NEW p \in Replicas, RequestCodeFails(p) PROVE IInv'
  BY <1>3, TypeRequestCodeFails, RestRequestCodeFails DEF IInv
<1>4. ASSUME NEW p \in Replicas, NEW l \in Links, RequestMagicLink(p, l) PROVE IInv'
  BY <1>4, TypeRequestMagicLink, RestRequestMagicLink DEF IInv
<1>5. ASSUME NEW r \in Requests, VerifyCode(r) PROVE IInv'
  BY <1>5, TypeVerifyCode, RestVerifyCode DEF IInv
<1>6. ASSUME NEW r \in Requests, IncrementAttempts(r) PROVE IInv'
  BY <1>6, TypeIncrementAttempts, RestIncrementAttempts DEF IInv
<1>7. ASSUME NEW r \in Requests, IncrementFails(r) PROVE IInv'
  BY <1>7, TypeIncrementFails, RestIncrementFails DEF IInv
<1>8. ASSUME NEW r \in Requests, Burn(r) PROVE IInv'
  BY <1>8, TypeBurn, RestBurn DEF IInv
<1>9. ASSUME NEW r \in Requests, ConsumeCode(r) PROVE IInv'
  BY <1>9, TypeConsumeCode, RestConsumeCode DEF IInv
<1>10. ASSUME NEW r \in Requests, ConsumeLost(r) PROVE IInv'
  BY <1>10, TypeConsumeLost, RestConsumeLost DEF IInv
<1>11. ASSUME NEW r \in Requests, SetUserPhoneVerified(r) PROVE IInv'
  BY <1>11, TypeSetUserPhoneVerified, RestSetUserPhoneVerified DEF IInv
<1>12. ASSUME NEW r \in Requests, Crash(r) PROVE IInv'
  BY <1>12, TypeCrash, RestCrash DEF IInv
<1>13. ASSUME NEW l \in Links, RedeemMagicLink(l) PROVE IInv'
  BY <1>13, TypeRedeemMagicLink, RestRedeemMagicLink DEF IInv
<1>14. CASE Tick
  BY <1>14, TypeTick, RestTick DEF IInv
<1> QED
  BY <1>1, <1>2, <1>3, <1>4, <1>5, <1>6, <1>7, <1>8, <1>9, <1>10, <1>11, <1>12, <1>13, <1>14 DEF Next, Request

\* Every variable keeps its type, whatever the bounds.
THEOREM TypeCorrect == Spec => []TypeOK
<1>1. IInv => TypeOK
  BY DEF IInv
<1> QED
  BY InitIInv, NextIInv, <1>1, PTL DEF Spec

\* A code that was accepted, burnt, replaced, expired or guessed wrong too
\* often when the row was read is not accepted (verifyAndConsumeEmailLoginCode,
\* VerifyPhoneCode).
THEOREM DeadCodesAreRefused == Spec => []DeadCodeRefused
<1>1. IInv => DeadCodeRefused
  BY DEF IInv, RequestInv, DeadCodeRefused
<1> QED
  BY InitIInv, NextIInv, <1>1, PTL DEF Spec

\* The number on the account is one that a code sent there was presented for.
THEOREM VerifiedNumbersAreProven == Spec => []VerifiedNumberProven
<1>1. IInv => VerifiedNumberProven
  BY DEF IInv
<1> QED
  BY InitIInv, NextIInv, <1>1, PTL DEF Spec

-----------------------------------------------------------------------------
(* The budget of guesses.  A guess that passed the check and is not         *)
(* recorded yet is counted with the recorded ones.                          *)

Guessing(c) == {q \in Requests : pc[q] = "count" /\ judged[q] = c}

BudgetInv == \A c \in Codes : wrong[c] + Cardinality(Guessing(c)) < MaxAttempts + peak

\* Requests are finitely many, so fewer of them guessing is a smaller number.
LEMMA FewerGuess ==
    ASSUME NEW S, NEW T, S \subseteq T, T \subseteq Requests
    PROVE  /\ IsFiniteSet(S) /\ IsFiniteSet(T)
           /\ Cardinality(S) \in Nat /\ Cardinality(T) \in Nat
           /\ Cardinality(S) <= Cardinality(T)
<1>1. IsFiniteSet(Requests)
  BY OneTimeCodesAssumption
<1>2. IsFiniteSet(T)
  BY <1>1, FS_Subset
<1>3. IsFiniteSet(S) /\ Cardinality(S) <= Cardinality(T)
  BY <1>2, FS_Subset
<1> QED
  BY <1>2, <1>3, FS_CardinalityType

\* A step that neither records nor begins a guess.
LEMMA BudgetUntouched ==
    ASSUME TypeOK, BudgetInv, UNCHANGED <<wrong, peak, judged>>,
           \A q \in Requests : pc'[q] = "count" => pc[q] = "count"
    PROVE  BudgetInv'
<1> SUFFICES ASSUME NEW c \in Codes
             PROVE  wrong'[c] + Cardinality(Guessing(c)') < MaxAttempts + peak'
  BY DEF BudgetInv
<1>1. Guessing(c)' \subseteq Guessing(c) /\ Guessing(c) \subseteq Requests
  BY DEF Guessing
<1>2. /\ Cardinality(Guessing(c)') \in Nat
      /\ Cardinality(Guessing(c)) \in Nat
      /\ Cardinality(Guessing(c)') <= Cardinality(Guessing(c))
  BY <1>1, FewerGuess
<1>3. wrong[c] + Cardinality(Guessing(c)) < MaxAttempts + peak
  BY DEF BudgetInv
<1>4. wrong[c] \in Nat /\ peak \in Nat /\ MaxAttempts \in Nat
  BY OneTimeCodesAssumption DEF TypeOK
<1> QED
  BY <1>2, <1>3, <1>4

\* A guess begins: its code has budget left, and it is one of the open ones.
LEMMA BudgetVerifyCode ==
    ASSUME IInv, BudgetInv, NEW r \in Requests, VerifyCode(r)
    PROVE  BudgetInv'
<1>1. PICK g \in 0..code, n \in Targets : Present(r, g, n)
  BY DEF VerifyCode
<1> DEFINE open == {q \in Requests : pc'[q] = "count"}
<1>2. /\ wrong' = wrong
      /\ peak' = IF Cardinality(open) > peak THEN Cardinality(open) ELSE peak
      /\ \A q \in Requests : q # r => pc'[q] = pc[q] /\ judged'[q] = judged[q]
      /\ judged'[r] = code
  BY <1>1 DEF Present, Goto, IInv, TypeOK
<1>3. Cardinality(open) \in Nat /\ peak \in Nat /\ MaxAttempts \in Nat \ {0}
  BY FewerGuess, OneTimeCodesAssumption DEF IInv, TypeOK
<1>4. peak' \in Nat /\ peak' >= peak /\ peak' >= Cardinality(open)
  BY <1>2, <1>3
<1> SUFFICES ASSUME NEW c \in Codes
             PROVE  wrong'[c] + Cardinality(Guessing(c)') < MaxAttempts + peak'
  BY DEF BudgetInv
<1>5. wrong[c] \in Nat
  BY DEF IInv, TypeOK
<1>6. CASE c = code /\ pc'[r] = "count"
  <2>1. wrong[c] < MaxAttempts
    BY <1>1, <1>3, <1>5, <1>6 DEF Present, Goto, Answers, IInv, TypeOK, RowInv
  <2>2. Guessing(c)' \subseteq open /\ open \subseteq Requests
    BY DEF Guessing
  <2>3. Cardinality(Guessing(c)') \in Nat /\ Cardinality(Guessing(c)') <= Cardinality(open)
    BY <2>2, FewerGuess
  <2> HIDE DEF open
  <2> QED
    BY <1>2, <1>3, <1>4, <1>5, <2>1, <2>3
<1>7. CASE ~(c = code /\ pc'[r] = "count")
  <2>1. Guessing(c)' \subseteq Guessing(c) /\ Guessing(c) \subseteq Requests
    BY <1>2, <1>7 DEF Guessing
  <2>2. /\ Cardinality(Guessing(c)') \in Nat
        /\ Cardinality(Guessing(c)) \in Nat
        /\ Cardinality(Guessing(c)') <= Cardinality(Guessing(c))
    BY <2>1, FewerGuess
  <2>3. wrong[c] + Cardinality(Guessing(c)) < MaxAttempts + peak
    BY DEF BudgetInv
  <2> HIDE DEF open
  <2> QED
    BY <1>2, <1>3, <1>4, <1>5, <2>2, <2>3
<1> QED
  BY <1>6, <1>7

\* A guess is recorded: it is counted once before and once after.
LEMMA BudgetIncrementAttempts ==
    ASSUME IInv, BudgetInv, NEW r \in Requests, IncrementAttempts(r)
    PROVE  BudgetInv'
<1>1. /\ pc[r] = "count"
      /\ pc'[r] # "count"
      /\ \A q \in Requests : q # r => pc'[q] = pc[q]
      /\ wrong' = [wrong EXCEPT ![judged[r]] = @ + 1]
      /\ UNCHANGED <<judged, peak>>
  BY DEF IncrementAttempts, Goto, IInv, TypeOK
<1> SUFFICES ASSUME NEW c \in Codes
             PROVE  wrong'[c] + Cardinality(Guessing(c)') < MaxAttempts + peak'
  BY DEF BudgetInv
<1>2. /\ wrong \in [Codes -> Nat]
      /\ peak \in Nat
      /\ MaxAttempts \in Nat
      /\ wrong[c] + Cardinality(Guessing(c)) < MaxAttempts + peak
  BY OneTimeCodesAssumption DEF IInv, TypeOK, BudgetInv
<1>3. CASE c = judged[r]
  <2>1. wrong'[c] = wrong[c] + 1
    BY <1>1, <1>2, <1>3
  <2>2. r \in Guessing(c) /\ Guessing(c)' = Guessing(c) \ {r}
    BY <1>1, <1>3 DEF Guessing
  <2>3. IsFiniteSet(Guessing(c)) /\ Cardinality(Guessing(c)) \in Nat
    <3>1. Guessing(c) \subseteq Requests
      BY DEF Guessing
    <3> QED
      BY <3>1, FewerGuess
  <2>4. Cardinality(Guessing(c)') = Cardinality(Guessing(c)) - 1
    BY <2>2, <2>3, FS_RemoveElement
  <2> QED
    BY <1>1, <1>2, <2>1, <2>3, <2>4
<1>4. CASE c # judged[r]
  <2>1. wrong'[c] = wrong[c]
    BY <1>1, <1>2, <1>4
  <2>2. Guessing(c)' = Guessing(c)
    BY <1>1, <1>4 DEF Guessing
  <2> QED
    BY <1>1, <1>2, <2>1, <2>2
<1> QED
  BY <1>3, <1>4

LEMMA BudgetStep == ASSUME IInv, BudgetInv, [Next]_vars PROVE BudgetInv'
<1> DEFINE Untouched ==
      /\ UNCHANGED <<wrong, peak, judged>>
      /\ \A q \in Requests : pc'[q] = "count" => pc[q] = "count"
<1>0. ASSUME Untouched PROVE BudgetInv'
  BY <1>0, BudgetUntouched DEF IInv
<1>1. CASE UNCHANGED vars
  BY <1>0, <1>1 DEF vars, ghosts
<1>2. ASSUME NEW p \in Replicas, NEW n \in Targets, RequestCode(p, n) PROVE BudgetInv'
  BY <1>0, <1>2 DEF RequestCode
<1>3. ASSUME NEW p \in Replicas, RequestCodeFails(p) PROVE BudgetInv'
  BY <1>0, <1>3 DEF RequestCodeFails, ghosts
<1>4. ASSUME NEW p \in Replicas, NEW l \in Links, RequestMagicLink(p, l) PROVE BudgetInv'
  BY <1>0, <1>4 DEF RequestMagicLink
<1>5. ASSUME NEW r \in Requests, Request(r) PROVE BudgetInv'
  <2>1. CASE VerifyCode(r)
    BY <2>1, BudgetVerifyCode
  <2>2. CASE IncrementAttempts(r)
    BY <2>2, BudgetIncrementAttempts
  <2>3. CASE IncrementFails(r)
    BY <1>0, <2>3 DEF IncrementFails, Goto, ghosts, IInv, TypeOK
  <2>4. CASE Burn(r)
    BY <1>0, <2>4 DEF Burn, Goto, IInv, TypeOK
  <2>5. CASE ConsumeCode(r)
    BY <1>0, <2>5 DEF ConsumeCode, Goto, IInv, TypeOK
  <2>6. CASE ConsumeLost(r)
    BY <1>0, <2>6 DEF ConsumeLost, Goto, ghosts, IInv, TypeOK
  <2>7. CASE SetUserPhoneVerified(r)
    BY <1>0, <2>7 DEF SetUserPhoneVerified, Goto, ghosts, IInv, TypeOK
  <2>8. CASE Crash(r)
    BY <1>0, <2>8 DEF Crash, Goto, ghosts, IInv, TypeOK
  <2> QED
    BY <1>5, <2>1, <2>2, <2>3, <2>4, <2>5, <2>6, <2>7, <2>8 DEF Request
<1>6. ASSUME NEW l \in Links, RedeemMagicLink(l) PROVE BudgetInv'
  BY <1>0, <1>6 DEF RedeemMagicLink
<1>7. CASE Tick
  BY <1>0, <1>7 DEF Tick, ghosts
<1> QED
  BY <1>1, <1>2, <1>3, <1>4, <1>5, <1>6, <1>7 DEF Next

\* The wrong guesses recorded against one code exceed PasswordlessCodeMaxAttempts
\* by fewer than the guesses that were ever open at once.
THEOREM GuessesAreBounded == Spec => []GuessBudget
<1>1. Init => BudgetInv
  <2> SUFFICES ASSUME Init, NEW c \in Codes
               PROVE  wrong[c] + Cardinality(Guessing(c)) < MaxAttempts + peak
    BY DEF BudgetInv
  <2>1. Guessing(c) = {}
    BY DEF Init, Guessing
  <2>2. Cardinality(Guessing(c)) = 0
    BY <2>1, FS_EmptySet
  <2> QED
    BY <2>2, OneTimeCodesAssumption DEF Init
<1>2. IInv /\ BudgetInv /\ [Next]_vars => (IInv /\ BudgetInv)'
  BY NextIInv, BudgetStep
<1>3. IInv /\ BudgetInv => GuessBudget
  <2> SUFFICES ASSUME IInv, BudgetInv, NEW c \in Codes PROVE wrong[c] < MaxAttempts + peak
    BY DEF GuessBudget
  <2>1. Cardinality(Guessing(c)) \in Nat
    <3>1. Guessing(c) \subseteq Requests
      BY DEF Guessing
    <3> QED
      BY <3>1, FewerGuess
  <2> QED
    BY <2>1, OneTimeCodesAssumption DEF IInv, TypeOK, BudgetInv
<1> QED
  BY InitIInv, <1>1, <1>2, <1>3, PTL DEF Spec

-----------------------------------------------------------------------------
(* Refinement.  The mapping does not read the requests, so a step that      *)
(* leaves the rows alone is a stutter.                                      *)

LiveOf == [s \in Slots |-> IF s = "row" THEN code # 0 /\ ~consumed ELSE link[s] = "live"]

LEMMA StepRefines == IInv /\ [Next]_vars => [Grants!Next]_(Grants!vars)
<1> SUFFICES ASSUME IInv, [Next]_vars PROVE [Grants!Next]_(Grants!vars)
  OBVIOUS
<1> USE OneTimeCodesAssumption
<1> DEFINE Still == UNCHANGED <<code, consumed, link, issued, granted>>
<1>1. ASSUME Still PROVE UNCHANGED Grants!vars
  BY <1>1 DEF Grants!vars
<1>2. CASE UNCHANGED vars
  BY <1>1, <1>2 DEF vars, row, links, ghosts
<1>3. ASSUME NEW p \in Replicas, NEW n \in Targets, RequestCode(p, n)
      PROVE  Grants!Issue("row")
  <2>1. LiveOf' = [LiveOf EXCEPT !["row"] = TRUE]
    <3>1. code' # 0 /\ ~consumed' /\ link' = link
      BY <1>3 DEF RequestCode, UpsertCode, links, IInv, TypeOK
    <3> QED
      BY <3>1 DEF LiveOf, Slots
  <2> QED
    BY <1>3, <2>1 DEF RequestCode, UpsertCode, Grants!Issue, LiveOf
<1>4. ASSUME NEW p \in Replicas, NEW l \in Links, RequestMagicLink(p, l)
      PROVE  Grants!Issue(l)
  <2>1. LiveOf' = [LiveOf EXCEPT ![l] = TRUE]
    BY <1>4 DEF RequestMagicLink, LiveOf, Slots, row, IInv, TypeOK
  <2> QED
    BY <1>4, <2>1 DEF RequestMagicLink, Grants!Issue, LiveOf
<1>5. ASSUME NEW r \in Requests, ConsumeCode(r)
      PROVE  Grants!Grant("row")
  <2>1. LiveOf' = [LiveOf EXCEPT !["row"] = FALSE]
    BY <1>5 DEF ConsumeCode, ConsumeMatches, LiveOf, Slots, links, IInv, TypeOK
  <2>2. LiveOf["row"]
    BY <1>5 DEF ConsumeCode, ConsumeMatches, LiveOf, Slots
  <2> QED
    BY <1>5, <2>1, <2>2 DEF ConsumeCode, Grants!Grant, LiveOf
<1>6. ASSUME NEW l \in Links, RedeemMagicLink(l)
      PROVE  Grants!Grant(l)
  <2>1. LiveOf' = [LiveOf EXCEPT ![l] = FALSE]
    BY <1>6 DEF RedeemMagicLink, LiveOf, Slots, row, IInv, TypeOK
  <2>2. LiveOf[l]
    BY <1>6 DEF RedeemMagicLink, LiveOf, Slots
  <2> QED
    BY <1>6, <2>1, <2>2 DEF RedeemMagicLink, Grants!Grant, LiveOf
<1>7. ASSUME NEW r \in Requests, Burn(r)
      PROVE  Grants!Void("row") \/ UNCHANGED Grants!vars
  <2>1. CASE ConsumeMatches
    <3>1. LiveOf' = [LiveOf EXCEPT !["row"] = FALSE]
      BY <1>7, <2>1 DEF Burn, ConsumeMatches, LiveOf, Slots, links, IInv, TypeOK
    <3>2. LiveOf["row"]
      BY <2>1 DEF ConsumeMatches, LiveOf, Slots
    <3> QED
      BY <1>7, <3>1, <3>2 DEF Burn, Grants!Void, LiveOf
  <2>2. CASE ~ConsumeMatches
    <3>1. Still
      BY <1>7, <2>2 DEF Burn, links, IInv, TypeOK
    <3> QED
      BY <3>1, <1>1
  <2> QED
    BY <2>1, <2>2
<1>8. ASSUME NEW r \in Requests, Request(r), ~ConsumeCode(r), ~Burn(r)
      PROVE  UNCHANGED Grants!vars
  BY <1>1, <1>8 DEF Request, VerifyCode, Present, IncrementAttempts, IncrementFails, ConsumeLost,
      SetUserPhoneVerified, Crash, row, links, ghosts
<1>9. ASSUME NEW p \in Replicas, RequestCodeFails(p) PROVE UNCHANGED Grants!vars
  BY <1>1, <1>9 DEF RequestCodeFails, row, links, ghosts
<1>10. CASE Tick
  BY <1>1, <1>10 DEF Tick, row, links, ghosts
<1>11. "row" \in Slots /\ Links \subseteq Slots
  BY DEF Slots
<1> QED
  BY <1>2, <1>3, <1>4, <1>5, <1>6, <1>7, <1>8, <1>9, <1>10, <1>11 DEF Next, Grants!Next

\* Every code row and every magic link is a single-use credential.
THEOREM CodesImplementOneTimeGrant == Spec => ImplementsOneTimeGrant
<1>1. Init => Grants!Init
  BY DEF Init, Grants!Init, Slots
<1> QED
  BY <1>1, InitIInv, NextIInv, StepRefines, PTL DEF Spec, ImplementsOneTimeGrant, Grants!Spec

\* The inductive form for slots S: a live credential is one grant still to come.
Balanced(S, l, i, g) ==
    /\ l \in [S -> BOOLEAN]
    /\ i \in [S -> Nat]
    /\ g \in [S -> Nat]
    /\ \A s \in S : g[s] + (IF l[s] THEN 1 ELSE 0) <= i[s]

\* Issuing, granting and voiding in a slot keep the balance.
LEMMA BalanceKept ==
  ASSUME NEW S, NEW s \in S, NEW l, NEW i, NEW g, Balanced(S, l, i, g)
  PROVE  /\ Balanced(S, [l EXCEPT ![s] = TRUE], [i EXCEPT ![s] = @ + 1], g)
         /\ l[s] => Balanced(S, [l EXCEPT ![s] = FALSE], i, [g EXCEPT ![s] = @ + 1])
         /\ l[s] => Balanced(S, [l EXCEPT ![s] = FALSE], i, g)
<1>1. Balanced(S, [l EXCEPT ![s] = TRUE], [i EXCEPT ![s] = @ + 1], g)
  BY DEF Balanced
<1>2. l[s] => Balanced(S, [l EXCEPT ![s] = FALSE], i, [g EXCEPT ![s] = @ + 1])
  BY DEF Balanced
<1>3. l[s] => Balanced(S, [l EXCEPT ![s] = FALSE], i, g)
  BY DEF Balanced
<1> QED
  BY <1>1, <1>2, <1>3

\* Every behaviour of a single-use credential keeps grants within issues.
LEMMA GrantsWithinIssues == Grants!Spec => []Grants!NoMoreGrantsThanIssues
<1>1. Grants!Init => Balanced(Slots, LiveOf, issued, granted)
  <2> SUFFICES ASSUME Grants!Init PROVE Balanced(Slots, LiveOf, issued, granted)
    OBVIOUS
  <2>1. /\ LiveOf = [s \in Slots |-> FALSE]
        /\ issued = [s \in Slots |-> 0]
        /\ granted = [s \in Slots |-> 0]
    BY DEF Grants!Init, LiveOf
  <2>2. Balanced(Slots, [s \in Slots |-> FALSE], [s \in Slots |-> 0], [s \in Slots |-> 0])
    BY DEF Balanced
  <2> QED
    BY <2>1, <2>2
<1>2. Balanced(Slots, LiveOf, issued, granted) /\ [Grants!Next]_(Grants!vars)
        => Balanced(Slots, LiveOf, issued, granted)'
  <2> SUFFICES ASSUME Balanced(Slots, LiveOf, issued, granted), [Grants!Next]_(Grants!vars)
               PROVE  Balanced(Slots, LiveOf', issued', granted')
    BY DEF Balanced
  <2>1. CASE UNCHANGED Grants!vars
    BY <2>1 DEF Grants!vars, LiveOf
  <2>2. ASSUME NEW s \in Slots, Grants!Issue(s)
        PROVE  Balanced(Slots, LiveOf', issued', granted')
    <3>1. /\ LiveOf' = [LiveOf EXCEPT ![s] = TRUE]
          /\ issued' = [issued EXCEPT ![s] = @ + 1]
          /\ granted' = granted
      BY <2>2 DEF Grants!Issue, LiveOf
    <3> QED
      BY <3>1, BalanceKept
  <2>3. ASSUME NEW s \in Slots, Grants!Grant(s)
        PROVE  Balanced(Slots, LiveOf', issued', granted')
    <3>1. /\ LiveOf[s]
          /\ LiveOf' = [LiveOf EXCEPT ![s] = FALSE]
          /\ issued' = issued
          /\ granted' = [granted EXCEPT ![s] = @ + 1]
      BY <2>3 DEF Grants!Grant, LiveOf
    <3> QED
      BY <3>1, BalanceKept
  <2>4. ASSUME NEW s \in Slots, Grants!Void(s)
        PROVE  Balanced(Slots, LiveOf', issued', granted')
    <3>1. /\ LiveOf[s]
          /\ LiveOf' = [LiveOf EXCEPT ![s] = FALSE]
          /\ issued' = issued
          /\ granted' = granted
      BY <2>4 DEF Grants!Void, LiveOf
    <3> QED
      BY <3>1, BalanceKept
  <2> QED
    BY <2>1, <2>2, <2>3, <2>4 DEF Grants!Next
<1>3. Balanced(Slots, LiveOf, issued, granted) => Grants!NoMoreGrantsThanIssues
  BY DEF Balanced, Grants!NoMoreGrantsThanIssues
<1> QED
  BY <1>1, <1>2, <1>3, PTL DEF Grants!Spec

\* No row is accepted more often than codes or links were sent for it.
THEOREM AcceptancesWithinSends == Spec => []Grants!NoMoreGrantsThanIssues
  BY CodesImplementOneTimeGrant, GrantsWithinIssues, PTL DEF ImplementsOneTimeGrant

=============================================================================
