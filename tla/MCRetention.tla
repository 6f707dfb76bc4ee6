---------------------------- MODULE MCRetention ----------------------------
(***************************************************************************)
(* Retention on small instances.  The clock goes from March to April 2021, *)
(* where a fiscal year ends.  The "claims" keep one fiscal year: March     *)
(* 2020 expires on the way.  "audit" keeps one calendar year: of the same  *)
(* months only December 2019 has expired.                                  *)
(***************************************************************************)
EXTENDS Retention

YM(y, m) == [year |-> y, month |-> m]
Valid(t, n, s) == [table |-> t, years |-> n, start |-> s, form |-> "valid"]
Policy(f) == [Valid("claims", 1, 4) EXCEPT !.form = f]
File(t, ym, k) == [table |-> t, month |-> ym, key |-> k]

March == YM(2021, 3)
April == YM(2021, 4)

TwoTables == <<Valid("claims", 1, 4), Policy("bad policy"), Valid("audit", 1, 1)>>

Files == {File("claims", YM(2020, 3), 1), File("claims", YM(2020, 3), 2),
          File("claims", YM(2020, 4), 3), File("audit", YM(2019, 12), 4)}
=============================================================================
