------------------------------ MODULE MCAnalytics ------------------------------
(* The rows, users and visits of the Analytics instance. *)
EXTENDS Analytics

Row(id, parts, tenant, owner, faulty, category, product, returning, amount, day) ==
  [id |-> id, parts |-> parts, tenant |-> tenant, owner |-> owner, faulty |-> faulty,
   category |-> category, product |-> product, returning |-> returning,
   amount |-> amount, day |-> day]

\* Of the texts, 0 is empty, 8 a blank and 13 is 3 with a blank before it.
MCStripped == 8 :> 0 @@ 13 :> 3

I1 == Row(1, {1, 10}, 1, 11, FALSE, 1, 0, 0, 2, 1)
I2 == Row(2, {2, 10}, 1, 11, FALSE, 2, NULL, 1, 3, 2)
J3 == Row(13, {3, 13}, 1, 12, FALSE, 3, 5, NULL, NULL, 2)
I4 == Row(4, {4, 10}, 1, 11, TRUE, 0, 5, 0, 1, NULL)
I5 == Row(5, {5, 10}, 2, 21, FALSE, 4, 5, 0, 2, 1)

MCFacts == {"clean"} \X {I1, I2, J3, I5} \cup {"issue"} \X {I4} \cup {"all"} \X {I2, I4}

Ann == [id |-> 11, tenant |-> 1, role |-> "NORMAL"]
Guest == [id |-> 0, tenant |-> 1, role |-> "GUEST"]
Admin == [id |-> 14, tenant |-> 1, role |-> "ADMIN"]
MCUsers == {Ann, Guest, Admin}

NoParams == [s \in Slots |-> Absent]
Text(mode, text) == [mode |-> mode, text |-> text]
Visit(user, sort, dir, search, size) ==
  [user |-> user, sort |-> sort, dir |-> dir, search |-> search, size |-> size]

MCPageAsks ==
  { Visit(Admin, "day", "desc", NULL, 2),
    Visit(Guest, "amount", "asc", NULL, 2),
    Visit(Ann, "rating", "asc", Text("contains", 10), 1),
    Visit(Admin, "amount", "desc", Text("exact", 1), 1) }

Study(user, scope, payload, by, metric, sort, dir, limit) ==
  [user |-> user, scope |-> scope, payload |-> payload,
   by |-> by, metric |-> metric, sort |-> sort, dir |-> dir, limit |-> limit]

MCStudioAsks ==
  { Study(Admin, "clean", <<>>, {"category"}, "orders", "category", "asc", 0),
    Study(Admin, "clean", <<"returning", "=">> :> Junk, {"category"}, "revenue", "revenue", "desc", 1),
    Study(Guest, "all", <<"category", "in">> :> {2, 0, 8} @@ <<"amount", "=">> :> 3,
          {"category", "day"}, "revenue", "quantity", "desc", 1),
    Study(Ann, "issues", <<"category", "=">> :> 8 @@ <<"day", ">=">> :> 1,
          {"category"}, "orders", "orders", "desc", 9),
    Study(Ann, "issues", <<"day", "<=">> :> Junk, {"category"}, "orders", "orders", "desc", 9) }

Board(user, scope, params, looked, asked, typed) ==
  [user |-> user, scope |-> scope, params |-> params,
   tiles |-> looked, fields |-> asked, edits |-> typed]

MCTiles == {"kpis", "timeseries", "breakdown", "products", "segments"}
MCEdits == { << <<"day", ">=">>, 2 >> }

Watch(user, scope, params) == Board(user, scope, params, MCTiles, {}, {})
Choose(user, f, typed) ==
  Board(user, "clean", [NoParams EXCEPT ![<<"day", ">=">>] = 1], {"kpis"}, {f}, typed)

MCBoardAsks ==
  { Watch(Ann, "issues", NoParams),
    Watch(Admin, "issues", NoParams),
    Watch(Guest, "all", [NoParams EXCEPT ![<<"amount", ">=">>] = 2, ![<<"returning", "=">>] = Junk]),
    Watch(Admin, "all", [NoParams EXCEPT ![<<"day", ">=">>] = 1, ![<<"day", "<=">>] = 2]),
    Choose(Guest, "id", {}),
    Choose(Ann, "category", MCEdits) }
=============================================================================
