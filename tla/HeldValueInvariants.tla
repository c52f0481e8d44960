------------------------ MODULE HeldValueInvariants -------------------------
(***************************************************************************)
(* The inductive invariants of HeldValue, part by part, and the steps they *)
(* are proved along (in HeldValueProofs).                                  *)
(***************************************************************************)
EXTENDS HeldValue

Requests == {"sell", "reverse", "cancel", "record", "subscribe"}

\* What holds of a plan as it is begun.
Formed(p) ==
    /\ p \in Plan /\ p.op \in Requests /\ p.voucher \in Ids \cup {0}
    /\ p.op \in {"cancel", "record", "subscribe"} => p.voucher = 0 /\ p.pack \in Packs
UsesPack(p) ==
    /\ p.op \in {"sell", "record"} /\ p.pack # "none" =>
          /\ Usable(p.pack) /\ p.seen = pack[p.pack].version /\ p.qty >= 1
          /\ p.turns = Exhausted(p.pack, p.qty)
          /\ p.pack \in Usage => p.qty <= pack[p.pack].left
    /\ p.op = "cancel" => pack[p.pack].status # "none" /\ p.turns = "CANCELLED"
    /\ p.op = "subscribe" => pack[p.pack].status = "none" /\ p.turns = "same"
    /\ p.op = "record" => sale[p.sale].state # "unrung"
RestoresPack(p) ==
    p.op = "reverse" /\ p.pack # "none" =>
        /\ p.pack \in Usage /\ p.pack = sale[p.sale].pack
        /\ p.qty = Returned(p.sale, p.pack) /\ p.turns = Reactivated(p.pack)
UsesVoucher(p) ==
    /\ p.op = "sell" /\ p.voucher # 0 => p.becomes = "REDEEMED"
    /\ p.op = "reverse" => /\ sale[p.sale].state = "completed"
                           /\ p.voucher = 0 => Restorable(p.sale) = {}
                           /\ p.voucher # 0 => /\ p.voucher \in Restorable(p.sale)
                                               /\ p.becomes \in {"ACTIVE", "EXPIRED"}
Planned(p) == Formed(p) /\ UsesPack(p) /\ RestoresPack(p) /\ UsesVoucher(p)

\* The steps that do not begin or commit a request.
Shelved == Restart \/ \E w \in Workers : Abort(w)
Dated   == Expire \/ \E k \in Packs : Ends(k)
Granted == IssueVoucher \/ \E w \in Workers : InsertVoucher(w)
Aside   == \E w \in Workers : StartCheck(w) \/ CountVouchers(w)

\* Types.  A plan that names a voucher says what becomes of it.
Means == \A w \in Workers : tx[w].voucher # 0 => tx[w].becomes # "same"
Typed == TypeOK /\ Means

\* Quota.  Uses are counted from one, and of subscriptions that were bought.
Counts == \A s \in Sales, k \in Packs : usage[s][k].state = "live" => usage[s][k].qty >= 1
Bought == \A s \in Sales : sale[s].pack # "none" => pack[sale[s].pack].status # "none"

\* Uses left and taken are the quota, and one with none left is not ACTIVE.
Sound(row) == row.left >= 0 /\ row.left + row.used = Quota /\ (row.status = "ACTIVE" => row.left > 0)
Kept == \A k \in Usage : pack[k].status # "none" => Sound(pack[k])

\* A plan fits the row it will write for as long as the version it read stands.
FitsRow(p, row) ==
    /\ p.op # "subscribe" => row.status # "none"
    /\ p.op = "cancel" => p.turns = "CANCELLED"
    /\ p.op = "reverse" => p.pack \in Usage /\ p.qty >= 1
    /\ p.op \in {"sell", "record"} =>
          /\ p.qty >= 1 /\ p.seen <= row.version /\ p.turns \in {"same", "EXPIRED"}
          /\ p.pack \in Usage /\ p.seen = row.version =>
                p.qty <= row.left /\ (p.turns = "same" => p.qty < row.left)
Fits(p) == p.op # "idle" /\ p.pack # "none" => p.op \in Requests /\ FitsRow(p, pack[p.pack])
AllFit == \A w \in Workers : Fits(tx[w])

QuotaInv == Counts /\ Bought /\ Kept /\ AllFit

\* Vouchers.  A voucher and the standing sale it was redeemed in name each other.
Reversed == \A s \in Sales : sale[s].state = "reversed" => sale[s].reversals >= 1
Reverses == \A w \in Workers : tx[w].op = "reverse" => sale[tx[w].sale].state # "unrung"
Names ==
    \A w \in Workers :
        /\ tx[w].voucher # 0 => tx[w].op \in {"sell", "reverse"}
        /\ tx[w].op = "sell" /\ tx[w].voucher # 0 => tx[w].becomes = "REDEEMED"
        /\ tx[w].op = "reverse" /\ tx[w].voucher # 0 => tx[w].becomes \in {"ACTIVE", "EXPIRED"}

RedeemedIn(i, s) == voucher[i].status = "REDEEMED" /\ voucher[i].sale = s
Carries(s, i) == sale[s].state = "completed" /\ sale[s].voucher = i
Backed ==
    /\ \A i \in Ids : voucher[i].status = "REDEEMED" =>
                        voucher[i].sale \in Sales /\ Carries(voucher[i].sale, i)
    /\ \A s \in Sales, i \in Ids : Carries(s, i) => RedeemedIn(i, s)
Aimed == \A w \in Workers : tx[w].op = "reverse" => tx[w].voucher = sale[tx[w].sale].voucher

VoucherInv == Reversed /\ Reverses /\ Names /\ (NeverReopened => Backed /\ Aimed)

\* Ends.  A subscription not sold yet has no end to have passed.
Dates == \A k \in Packs : pack[k].status = "none" => pack[k].ends = "never"

StaysPast(k) ==
    pack[k].ends = "past" /\ pack[k].status # "ACTIVE" /\ ~MayOpen(k, tx)
        => pack'[k].status # "ACTIVE" /\ ~MayOpen(k, tx')

\* Cancellation.  Without overlap a subscription has one request at most, and that
\* one does not open what is cancelled.
Alone == \A k \in Packs \ raced : \A v, w \in Workers :
            tx[v].pack = k /\ tx[w].pack = k => v = w
Respects(p) == p.op # "subscribe" /\ p.turns \in {"same", "CANCELLED"}
CancelInv ==
    /\ Alone
    /\ \A w \in Workers : \A k \in Packs \ raced :
         tx[w].pack = k /\ pack[k].status = "CANCELLED" => Respects(tx[w])

StaysCancelled(k) == pack[k].status = "CANCELLED" => pack'[k].status = "CANCELLED"
AllStay == \A k \in Packs \ raced' : StaysCancelled(k)

\* Use.  The one plan for a subscription still reads it as it is.
Current(p, row) ==
    /\ p.op \in {"sell", "record"} =>
         /\ p.seen = row.version
         /\ p.turns = IF p.pack \in Usage /\ row.left - p.qty <= 0 THEN "EXPIRED" ELSE "same"
    /\ p.op = "reverse" =>
         /\ p.turns \in {"same", "ACTIVE"}
         /\ \/ p.turns = "ACTIVE" \/ row.ends = "past" \/ row.status \in {"ACTIVE", "CANCELLED"}
ReadsNow == \A w \in Workers : \A k \in Packs \ raced : tx[w].pack = k => Current(tx[w], pack[k])
Unspent == \A k \in Packs : pack[k].status = "none" => pack[k].left = 0 /\ pack[k].used = 0
Open(row) == row.left > 0 /\ row.ends # "past" => row.status \in {"ACTIVE", "CANCELLED"}
AllOpen == \A k \in Usage \ raced : Open(pack[k])
UsableInv == ReadsNow /\ Unspent /\ AllOpen

\* Usage rows.  They stand until their sale is reversed, which gives them back.
Rung(s) == sale[s].state # "unrung"
RungFirst ==
    /\ \A s \in Sales, k \in Packs :
         usage[s][k].state # "none" => Rung(s) /\ pack[k].status # "none"
    /\ \A s \in Sales : sale[s].pack # "none" => Rung(s)
    /\ \A w \in Workers : tx[w].op \in {"reverse", "record"} => Rung(tx[w].sale)
    /\ \A w \in Workers : tx[w].op # "idle" => tx[w].op \in mix
RowsStand == \A s \in Sales : sale[s].pack # "none" /\ sale[s].reversals = 0 =>
                 usage[s][sale[s].pack].state = "live"
GivesBack(p) ==
    p.op = "reverse" /\ p.pack # "none" =>
        /\ p.pack \in Usage /\ sale[p.sale].pack = p.pack
        /\ sale[p.sale].reversals = 0 => p.qty = usage[p.sale][p.pack].qty
RestoresRow == \A w \in Workers : GivesBack(tx[w])
UsageInv == RungFirst /\ RowsStand /\ RestoresRow /\ UsageExplains

Tallied(k) == ("record" \in mix => k \notin raced) /\ \A s \in Sales : sale[s].reversals <= 1

\* Milestones.  One check at a time, after a slot that the spend is worth.
Checks == {w \in Workers : check[w].phase # "idle"}
CheckSound(c) ==
    c.phase # "idle" => /\ c.spend <= peak /\ c.slot >= 1 /\ c.slot <= Expected(c.spend)
                        /\ c.phase = "inserting" /\ ~doubled => c.count = Cardinality(By("rule"))
MilestoneInv ==
    /\ spend <= peak /\ MilestonesWithin
    /\ ~doubled => \A v, w \in Checks : v = w
    /\ \A w \in Workers : CheckSound(check[w])
=============================================================================
