----------------------------- MODULE AsyncCalls -----------------------------
(***************************************************************************)
(* What the PIOc_ functions exchange when the I/O tasks are a separate     *)
(* service (asynchronous mode).  Both sides run the same function.  The    *)
(* computation tasks first send the message and then broadcast "params"    *)
(* over the intercommunicator; the I/O tasks receive them in a handler     *)
(* (AsyncHandlers) and call the function.  From there on all tasks of the  *)
(* I/O system meet in broadcasts over my_comm: the MPI error code and the  *)
(* "derived" values from comproot, the return code of the library and,     *)
(* when it is good, the "results" from ioroot.                             *)
(*                                                                         *)
(* An item of a broadcast is its MPI type, the number of elements and the  *)
(* value it carries; g is the set of the caller's optional arguments that  *)
(* are there (non-NULL pointers), and of the facts a branch depends on.    *)
(***************************************************************************)
EXTENDS Sequences

INT(v)      == <<"INT", "1", v>>
Offset(v)   == <<"OFFSET", "1", v>>
Float(v)    == <<"FLOAT", "1", v>>
Unsigned(v) == <<"UNSIGNED", "1", v>>
SizeT(v)    == <<"SIZE_T", "1", v>>
Flag(v)     == <<"CHAR", "1", "present", v>>
IntFlag(v)  == <<"INT", "1", "present", v>>
Many(type, n, v) == <<type, n, v>>
TextOf(n, v)     == <<INT(n), Many("CHAR", n \o "+1", v)>>
Text(v)          == TextOf("namelen", v)

When(condition, items) == IF condition THEN items ELSE <<>>

(* An optional input: its presence flag, then the value if it is there. *)
Optional(v, g, item) == <<Flag(v)>> \o When(v \in g, <<item>>)

Ncid  == <<INT("ncid")>>
Ncvar == <<INT("ncid"), INT("varid")>>

(* agree: how the tasks learn the library's return code.  It is broadcast  *)
(* from ioroot and a bad one goes through check_netcdf ("bcast"), or it is *)
(* returned as it is ("quiet"), or check_netcdf sees it and the function   *)
(* returns success ("dropped"); "local" is each task's own code and "none" *)
(* means that the function has no code to share.                           *)
(* early: values comproot broadcasts before the MPI error code.            *)
(* first: the calls the computation tasks make before they send.           *)
Call(params, derived, results) ==
    [params |-> params, early |-> <<>>, derived |-> derived, results |-> results,
     agree |-> "bcast", first |-> <<>>]

(* onfail: when a nested call fails the function returns its code          *)
(* ("return"), hands it to check_netcdf first ("check"), or goes on.       *)
Nested(msg, given, onfail) == [msg |-> msg, given |-> given, onfail |-> onfail]
Checked(msg, given) == Nested(msg, given, "check")

-----------------------------------------------------------------------------
(* pio_nc.c *)
PIOc_inq(g) ==
    Call(Ncid \o <<Flag("ndims"), Flag("nvars"), Flag("ngatts"), Flag("unlimdimid")>>, <<>>,
         When("ndims" \in g, <<INT("ndims")>>) \o When("nvars" \in g, <<INT("nvars")>>)
         \o When("ngatts" \in g, <<INT("ngatts")>>)
         \o When("unlimdimid" \in g, <<INT("unlimdimid")>>))

PIOc_inq_unlimdims(g) ==
    Call(Ncid \o <<Flag("nunlimdims"), Flag("unlimdimids")>>, <<>>,
         <<INT("tmp_nunlimdims")>> \o When("nunlimdims" \in g, <<INT("nunlimdims")>>)
         \o When("unlimdimids" \in g, <<Many("INT", "tmp_nunlimdims", "unlimdimids")>>))

PIOc_inq_type(g) ==
    Call(Ncid \o <<INT("xtype"), Flag("name"), Flag("size")>>, <<>>,
         When("name" \in g, TextOf("slen", "name")) \o When("size" \in g, <<Offset("size")>>))

PIOc_inq_format(g) ==
    Call(Ncid \o <<Flag("format")>>, <<>>, When("format" \in g, <<INT("format")>>))

PIOc_inq_dim(g) ==
    Call(Ncid \o <<INT("dimid"), Flag("name"), Flag("len")>>, <<>>,
         When("name" \in g, TextOf("slen", "name")) \o When("len" \in g, <<Offset("len")>>))

PIOc_inq_dimid(g) ==
    Call(Ncid \o Text("name") \o <<Flag("id")>>, <<>>, When("id" \in g, <<INT("id")>>))

PIOc_inq_var(g) ==
    Call(Ncvar \o <<Flag("name"), Flag("xtype"), Flag("ndims"), Flag("dimids"), Flag("natts")>>,
         <<>>,
         When("name" \in g, TextOf("slen", "name")) \o When("xtype" \in g, <<INT("xtype")>>)
         \o When("ndims" \in g, <<INT("ndims")>>)
         \o When("dimids" \in g, <<INT("ndims"), Many("INT", "ndims", "dimids")>>)
         \o When("natts" \in g, <<INT("natts")>>))

PIOc_inq_varid(g) ==
    Call(Ncid \o Text("name"), <<>>, When("varid" \in g, <<INT("varid")>>))

(* "quiet" \in g: eh = 0, a failure is returned without being checked. *)
PIOc_inq_att_eh(g) ==
    [Call(Ncvar \o Text("name") \o <<Flag("xtype"), Flag("len"), INT("eh")>>, <<>>,
         When("xtype" \in g, <<INT("xtype")>>) \o When("len" \in g, <<Offset("len")>>))
     EXCEPT !.agree = IF "quiet" \in g THEN "quiet" ELSE "bcast"]

PIOc_inq_attname(g) ==
    Call(Ncvar \o <<INT("attnum"), Flag("name")>>, <<>>, When("name" \in g, Text("name")))

PIOc_inq_attid(g) ==
    Call(Ncvar \o Text("name") \o <<Flag("id")>>, <<>>, When("id" \in g, <<INT("id")>>))

PIOc_rename_dim(g) == Call(Ncid \o <<INT("dimid")>> \o Text("name"), <<>>, <<>>)
PIOc_rename_var(g) == Call(Ncvar \o Text("name"), <<>>, <<>>)
PIOc_rename_att(g) ==
    Call(Ncvar \o Text("name") \o TextOf("newnamelen", "newname"), <<>>, <<>>)
PIOc_del_att(g) == Call(Ncvar \o Text("name"), <<>>, <<>>)

PIOc_set_fill(g) ==
    Call(Ncid \o <<INT("fillmode"), IntFlag("old_mode")>>, <<>>,
         When("old_mode" \in g, <<INT("old_mode")>>))

PIOc_def_dim(g) ==
    Call(Ncid \o Text("name") \o <<INT("len")>>, <<>>, When("id" \in g, <<INT("id")>>))

(* "unlimited" \in g: the file has unlimited dimensions; "invalid" \in g:  *)
(* one of them is not the variable's first, which ends the function before *)
(* the library is called.  The id comes back whether or not it is wanted.  *)
PIOc_def_var(g) ==
    [Call(Ncid \o Text("name") \o <<INT("xtype"), INT("ndims"), Many("INT", "ndims", "dimids")>>,
          <<INT("rec_var"), INT("invalid_unlim_dim"), Offset("pio_type_size"),
            INT("mpi_type"), INT("mpi_type_size")>>,
          When("invalid" \notin g, <<INT("varid")>>))
     EXCEPT !.agree = IF "invalid" \in g THEN "none" ELSE "bcast",
            !.first = <<Checked("INQ_TYPE", {"size"}), Checked("INQ_UNLIMDIMS", {"nunlimdims"})>>
                      \o When("unlimited" \in g, <<Checked("INQ_UNLIMDIMS", {"unlimdimids"})>>)]

TypeOfVar == <<Checked("INQ_VAR", {"xtype"}), Checked("INQ_TYPE", {"size"})>>

PIOc_def_var_fill(g) ==
    [Call(Ncvar \o <<INT("fill_mode"), Offset("type_size")>>
            \o Optional("fill_value", g, Many("CHAR", "type_size", "fill_value")),
          <<INT("xtype"), Offset("type_size")>>, <<>>)
     EXCEPT !.first = TypeOfVar]

PIOc_inq_var_fill(g) ==
    [Call(Ncvar \o <<Offset("type_size"), Flag("no_fill"), Flag("fill_value")>>,
          <<INT("xtype"), Offset("type_size")>>,
          When("no_fill" \in g, <<INT("no_fill")>>)
          \o When("fill_value" \in g, <<Many("CHAR", "type_size", "fill_value")>>))
     EXCEPT !.first = TypeOfVar]

-----------------------------------------------------------------------------
(* pio_nc4.c *)
PIOc_def_var_deflate(g) ==
    Call(Ncvar \o <<INT("shuffle"), INT("deflate"), INT("deflate_level")>>, <<>>, <<>>)

PIOc_def_var_szip(g) ==
    Call(Ncvar \o <<INT("options_mask"), INT("pixels_per_block")>>, <<>>, <<>>)

PIOc_def_var_bzip2(g)     == Call(Ncvar \o <<INT("level")>>, <<>>, <<>>)
PIOc_def_var_zstandard(g) == Call(Ncvar \o <<INT("level")>>, <<>>, <<>>)

PIOc_inq_var_deflate(g) ==
    Call(Ncvar \o Optional("shuffle", g, INT("shuffle")) \o Optional("deflate", g, INT("deflate"))
           \o Optional("deflate_level", g, INT("deflate_level")), <<>>,
         When("shuffle" \in g, <<INT("shuffle")>>) \o When("deflate" \in g, <<INT("deflate")>>)
         \o When("deflate_level" \in g, <<INT("deflate_level")>>))

DimsOfVar == <<Checked("INQ_VAR", {"ndims"})>>

PIOc_def_var_chunking(g) ==
    [Call(Ncvar \o <<INT("storage"), INT("ndims")>>
            \o Optional("chunksizes", g, Many("OFFSET", "ndims", "chunksizes")),
          <<INT("ndims")>>, <<>>)
     EXCEPT !.first = DimsOfVar]

PIOc_inq_var_chunking(g) ==
    [Call(Ncvar \o <<Flag("storage"), INT("ndims"), Flag("chunksizes")>>, <<INT("ndims")>>,
          <<INT("ndims")>> \o When("storage" \in g, <<INT("storage")>>)
          \o When("chunksizes" \in g, <<Many("OFFSET", "ndims", "chunksizes")>>))
     EXCEPT !.first = <<Nested("INQ_VAR", {"ndims"}, "return")>>]

PIOc_def_var_endian(g) == Call(Ncvar \o <<INT("endian")>>, <<>>, <<>>)
PIOc_inq_var_endian(g) ==
    Call(Ncvar \o <<Flag("endian")>>, <<>>, When("endian" \in g, <<INT("endian")>>))

CacheSize == <<Offset("size"), Offset("nelems"), Float("preemption")>>
CacheFlags == <<Flag("size"), Flag("nelems"), Flag("preemption")>>
CacheResults(g) ==
    When("size" \in g, <<Offset("size")>>) \o When("nelems" \in g, <<Offset("nelems")>>)
    \o When("preemption" \in g, <<Float("preemption")>>)
IosysType == <<INT("iosysid"), INT("iotype")>>

PIOc_set_chunk_cache(g) ==
    [Call(IosysType \o CacheSize, <<>>, <<>>) EXCEPT !.agree = "dropped"]
PIOc_get_chunk_cache(g)     == Call(IosysType \o CacheFlags, <<>>, CacheResults(g))
PIOc_set_var_chunk_cache(g) == Call(Ncvar \o CacheSize, <<>>, <<>>)
PIOc_get_var_chunk_cache(g) == Call(Ncvar \o CacheFlags, <<>>, CacheResults(g))

PIOc_def_var_filter(g) ==
    Call(Ncvar \o <<INT("id"), SizeT("nparams"), Many("UNSIGNED", "nparams", "params")>>,
         <<>>, <<>>)

(* The lists come back only when their length, asked for too, is positive. *)
PIOc_inq_var_filter_ids(g) ==
    Call(Ncvar \o <<Flag("nfilters"), Flag("ids")>> \o When("ids" \in g, <<SizeT("idcnt")>>), <<>>,
         When("nfilters" \in g, <<Offset("nfilters")>>)
         \o When({"ids", "some"} \subseteq g, <<Many("UNSIGNED", "nfilters", "ids")>>))

PIOc_inq_var_filter_info(g) ==
    Call(Ncvar \o <<Unsigned("id"), Flag("nparams"), Flag("params")>>
           \o When("params" \in g, <<SizeT("paramsize")>>), <<>>,
         When("nparams" \in g, <<Offset("nparams")>>)
         \o When({"params", "some"} \subseteq g, <<Many("UNSIGNED", "nparams", "params")>>))

FilterLevel(g) ==
    Call(Ncvar \o <<Flag("hasfilter"), Flag("level")>>, <<>>,
         When("hasfilter" \in g, <<INT("hasfilter")>>) \o When("level" \in g, <<INT("level")>>))
PIOc_inq_var_bzip2(g)     == FilterLevel(g)
PIOc_inq_var_zstandard(g) == FilterLevel(g)

PIOc_inq_filter_avail(g) == Call(Ncid \o <<INT("id")>>, <<>>, <<>>)

PIOc_def_var_quantize(g) == Call(Ncvar \o <<INT("quantize_mode"), INT("nsd")>>, <<>>, <<>>)
PIOc_inq_var_quantize(g) ==
    Call(Ncvar \o <<Flag("quantize_mode"), Flag("nsd")>>, <<>>,
         When("quantize_mode" \in g, <<INT("quantize_mode")>>) \o When("nsd" \in g, <<INT("nsd")>>))

-----------------------------------------------------------------------------
(* pio_getput_int.c *)
TypeLen(g) == When("long" \notin g, <<Checked("INQ_TYPE", {"size"})>>)

PIOc_put_att_tc(g) ==
    [Call(Ncvar \o Text("name") \o <<INT("atttype"), Offset("len"), Offset("atttype_len"),
              INT("memtype"), Offset("memtype_len"), Many("BYTE", "len*memtype_len", "op")>>,
          <<Offset("atttype_len"), Offset("memtype_len")>>, <<>>)
     EXCEPT !.first = <<Checked("INQ_TYPE", {"size"})>> \o TypeLen(g)]

PIOc_get_att_tc(g) ==
    [Call(Ncvar \o Text("name") \o <<INT("iotype"), INT("atttype"), Offset("attlen"),
              Offset("atttype_len"), INT("memtype"), Offset("memtype_len")>>,
          <<Offset("attlen"), Offset("atttype_len"), Offset("memtype_len")>>,
          <<Many("BYTE", "attlen*memtype_len", "ip")>>)
     EXCEPT !.first = <<Nested("INQ_ATT", {"xtype", "len"}, "return"), Checked("INQ_TYPE", {"size"})>>
                      \o TypeLen(g)]

VarsParams(g) ==
    Ncvar \o <<INT("ndims")>> \o Optional("start", g, Many("OFFSET", "ndims", "start"))
    \o Optional("count", g, Many("OFFSET", "ndims", "count"))
    \o Optional("stride", g, Many("OFFSET", "ndims", "stride"))
    \o <<INT("xtype"), Offset("num_elem"), Offset("typelen")>>
VarsData == <<Many("BYTE", "num_elem*typelen", "buf")>>

PIOc_get_vars_tc(g) ==
    [Call(VarsParams(g), <<Offset("num_elem"), Offset("typelen"), INT("xtype"), INT("ndims")>>,
          VarsData)
     EXCEPT !.first = <<Checked("INQ_VAR", {"xtype"})>> \o TypeLen(g) \o DimsOfVar]

PIOc_put_vars_tc(g) ==
    [Call(VarsParams(g) \o VarsData, <<INT("ndims"), INT("xtype")>>, <<>>)
     EXCEPT !.first = <<Checked("INQ_VAR", {"xtype"})>> \o DimsOfVar \o TypeLen(g)]

-----------------------------------------------------------------------------
(* pioc.c, pioc_support.c, pio_file.c, pio_darray.c *)
Silent(params) == [Call(params, <<>>, <<>>) EXCEPT !.agree = "none"]

PIOc_advanceframe(g) == Silent(Ncvar)
PIOc_setframe(g)     == Silent(Ncvar \o <<INT("frame")>>)
PIOc_set_iosystem_error_handling(g) == Silent(<<INT("method"), Flag("old_method")>>)
PIOc_freedecomp(g)    == Silent(<<INT("iosysid"), INT("ioid")>>)
PIOc_free_iosystem(g) == Silent(<<INT("iosysid")>>)

(* level comes from comproot over union_comm, before the MPI error code;   *)
(* union_comm is my_comm in asynchronous mode.                             *)
PIOc_set_global_log_level(g) ==
    [Silent(<<INT("iosysid")>>) EXCEPT !.early = <<INT("level")>>]

DecompParams(g) ==
    <<INT("iosysid"), INT("pio_type"), INT("ndims"), Many("INT", "ndims", "gdimlen"),
      INT("maplen"), Many("OFFSET", "maplen", "compmap")>>
    \o Optional("rearranger", g, INT("rearranger"))
    \o Optional("iostart", g, Many("OFFSET", "ndims", "iostart"))
    \o Optional("iocount", g, Many("OFFSET", "ndims", "iocount"))

(* "subset" \in g: the rearranger, given or the default, is SUBSET. *)
PIOc_InitDecomp(g) ==
    [Silent(DecompParams(g)) EXCEPT
        !.results = When("subset" \notin g, <<INT("num_aiotasks")>>) \o <<INT("pio_next_ioid")>>]

(* With any other rearranger the caller gets PIO_EINVAL at once. *)
PIOc_InitDecomp_ReadOnly(g) ==
    [Silent(DecompParams(g)) EXCEPT
        !.results = When("subset" \in g, <<INT("pio_next_ioid")>>)]

PIOc_createfile_int(g) ==
    Call(TextOf("len", "filename") \o <<INT("iotype"), INT("mode"), INT("use_ext_ncid")>>
           \o Optional("ncid", g, INT("ncid")), <<>>,
         <<INT("writable"), INT("pio_next_ncid")>>)

PIOc_openfile_retry(g) ==
    Call(TextOf("len", "filename") \o <<INT("iotype"), INT("mode"), INT("use_ext_ncid")>>, <<>>,
         <<INT("writable"), INT("pio_next_ncid"), INT("nvars")>>
         \o When("nvars" \in g,
                 <<Many("INT", "nvars", "rec_var"), Many("INT", "nvars", "pio_type"),
                   Many("INT", "nvars", "pio_type_size"), Many("INT", "nvars*", "mpi_type"),
                   Many("INT", "nvars", "mpi_type_size"), Many("INT", "nvars", "ndims")>>))

(* The I/O tasks wait for each other on io_comm before and after ioroot    *)
(* deletes the file; all of them do, so that no task is held up for good.  *)
PIOc_deletefile(g) == Call(TextOf("len", "filename"), <<>>, <<>>)

pioc_change_def(g) == Call(Ncid, <<>>, <<>>)

(* The arrays that are buffered are written first, by calls of             *)
(* PIOc_write_darray_multi: in a program they are calls of its own.        *)
PIOc_sync(g) ==
    [Call(Ncid, <<>>, <<>>) EXCEPT !.agree = IF "writable" \in g THEN "local" ELSE "none"]

PIOc_closefile(g) ==
    [Call(Ncid, <<>>, <<>>)
     EXCEPT !.first = When("writable" \in g, <<Nested("SYNC", {"writable"}, "ignore")>>)]

PIOc_write_darray_multi(g) ==
    [Silent(Ncid \o <<INT("nvars"), Many("INT", "nvars", "varids"), INT("ioid"),
                Offset("arraylen"), Many("CHAR", "arraylen*piotype_size", "array")>>
              \o Optional("frame", g, Many("INT", "nvars", "frame"))
              \o Optional("fillvalue", g, Many("CHAR", "nvars*piotype_size", "fillvalue"))
              \o <<INT("flushtodisk")>>)
     EXCEPT !.derived = <<INT("fndims")>>,
            !.first = DimsOfVar \o When("several" \in g, DimsOfVar)]

PIOc_read_darray(g) == Silent(Ncvar \o <<INT("ioid"), Offset("arraylen")>>)
=============================================================================
