------------------------------ MODULE VarCalls ------------------------------
(***************************************************************************)
(* The functions that make other calls of the library: each is the         *)
(* sequence of calls, with their messages, that the computation tasks run. *)
(* A function of a program is named by its family ("get_var1" stands for   *)
(* PIOc_get_var1_text, _uchar, ...), and g holds the suffix, the optional  *)
(* arguments that are there and the facts a branch depends on.             *)
(***************************************************************************)
EXTENDS AsyncHandlers, Naturals

(* A function with a message of its own: the calls before it, and it. *)
RunsAs(msg, g) == Service(msg, g).call.first \o <<Nested(msg, g, "return")>>

(* The suffixes are the C types and "any" for the variable's own type.     *)
(* Those whose memory type is PIO_LONG_INTERNAL have no size to ask for:   *)
(* "long" everywhere and, in one family, "ulonglong".                      *)
LongIf(longs, g) == IF longs \cap g = {} THEN {} ELSE {"long"}
Region(g) == g \cap {"start", "count", "stride"}

-----------------------------------------------------------------------------
(* pio_getput_int.c.  index is the start; the counts are ones.             *)
NumDims == <<Nested("INQ_VAR", {"ndims"}, "return")>>
Ones(g) == {"count"} \cup (IF "index" \in g THEN {"start"} ELSE {})

PIOc_get_var1_tc(g) == NumDims \o RunsAs("GET_VARS", Ones(g) \cup LongIf({"long"}, g))
PIOc_put_var1_tc(g) == NumDims \o RunsAs("PUT_VARS", Ones(g) \cup LongIf({"long"}, g))

(* "scalar" \in g: the variable has no dimensions; otherwise it has two.   *)
ndims(g) == IF "scalar" \in g THEN 0 ELSE 2
DimLens(g) == [d \in 1 .. ndims(g) |-> Nested("INQ_DIM", {"len"}, "return")]
Whole(g) == IF ndims(g) = 0 THEN {} ELSE {"start", "count"}

PIOc_get_var_tc(g) ==
    NumDims \o When(ndims(g) > 0, <<Nested("INQ_VAR", {"dimids"}, "return")>>) \o DimLens(g)
    \o RunsAs("GET_VARS", Whole(g) \cup LongIf({"long"}, g))

PIOc_put_var_tc(g) ==
    NumDims \o When(ndims(g) > 0, <<Checked("INQ_VAR", {"dimids"})>>) \o DimLens(g)
    \o RunsAs("PUT_VARS", Whole(g) \cup LongIf({"long"}, g))

(* pio_nc.c: PIOc_get_att asks for the attribute's own type first.         *)
PIOc_get_att(g) ==
    When("any" \in g, <<Nested("INQ_ATT", {"xtype"}, "return")>>)
    \o RunsAs("GET_ATT", LongIf({"long"}, g))
PIOc_put_att(g) == RunsAs("PUT_ATT", LongIf({"long"}, g))

-----------------------------------------------------------------------------
(* pio_darray.c: what a write asks the file for before it fills the        *)
(* caller's buffer.  A failure of the quiet inquiry means that there is no *)
(* attribute and ends the search.  "filling" \in g: the variable is in     *)
(* fill mode; "known" \in g: an earlier write has found the value.         *)
pio_inq_var_fill_expected(g) ==
    <<Nested("INQ_ATT", {"quiet"}, "return")>> \o PIOc_get_att({"any"})

find_var_fillvalue(g) ==
    <<Nested("INQ_VAR", {"xtype"}, "return"), Nested("INQ_TYPE", {"size"}, "return")>>
    \o RunsAs("INQ_VAR_FILL", {"no_fill", "fill_value"})
    \o When("filling" \notin g, pio_inq_var_fill_expected(g))

PIOc_write_darray(g) == When("known" \notin g, find_var_fillvalue(g))

(* "othertype" \in g: the suffix is not the variable's type, and the       *)
(* function returns PIO_EBADTYPE, the frame set.                           *)
PIOc_get_vard_tc(g) ==
    RunsAs("SETFRAME", {}) \o When("othertype" \notin g, RunsAs("READDARRAY", {}))
PIOc_put_vard_tc(g) ==
    RunsAs("SETFRAME", {}) \o When("othertype" \notin g, PIOc_write_darray(g))

-----------------------------------------------------------------------------
(* pio_get_nc.c, pio_put_nc.c *)
PIOc_get_vars(g) == RunsAs("GET_VARS", Region(g) \cup LongIf({"long", "ulonglong"}, g))
PIOc_get_vara(g) == RunsAs("GET_VARS", Region(g \ {"stride"}) \cup LongIf({"long"}, g))
PIOc_get_var(g)  == PIOc_get_var_tc(g)
PIOc_get_var1(g) == PIOc_get_var1_tc(g)

PIOc_put_vars(g) == RunsAs("PUT_VARS", Region(g) \cup LongIf({"long"}, g))
PIOc_put_vara(g) == PIOc_put_vars(g \ {"stride"})
PIOc_put_var(g)  == PIOc_put_var_tc(g)
PIOc_put_var1(g) == PIOc_put_var1_tc(g)

(* pio_get_vard.c, pio_put_vard.c: there is no suffix "long".              *)
PIOc_get_vard(g) == PIOc_get_vard_tc(g)
PIOc_put_vard(g) == PIOc_put_vard_tc(g)

-----------------------------------------------------------------------------
(* A function of a program, as the steps the computation tasks run.        *)
Families == {"get_vars", "get_vara", "get_var", "get_var1", "put_vars", "put_vara", "put_var",
             "put_var1", "get_vard", "put_vard", "get_att", "put_att"}

Steps(msg, g) ==
    CASE msg = "get_vars" -> PIOc_get_vars(g)
      [] msg = "get_vara" -> PIOc_get_vara(g)
      [] msg = "get_var"  -> PIOc_get_var(g)
      [] msg = "get_var1" -> PIOc_get_var1(g)
      [] msg = "put_vars" -> PIOc_put_vars(g)
      [] msg = "put_vara" -> PIOc_put_vara(g)
      [] msg = "put_var"  -> PIOc_put_var(g)
      [] msg = "put_var1" -> PIOc_put_var1(g)
      [] msg = "get_vard" -> PIOc_get_vard(g)
      [] msg = "put_vard" -> PIOc_put_vard(g)
      [] msg = "get_att"  -> PIOc_get_att(g)
      [] msg = "put_att"  -> PIOc_put_att(g)
      [] msg \notin Families -> RunsAs(msg, g)
=============================================================================
