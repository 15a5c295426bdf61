---------------------------- MODULE AsyncHandlers ---------------------------
(***************************************************************************)
(* The message handlers of pio_msg.c: what an I/O task receives over the   *)
(* intercommunicator for each message and which call of the library it     *)
(* makes then.  g is the set of optional arguments of the original caller; *)
(* a handler learns of an argument only through the presence flag it       *)
(* receives, or passes a pointer of its own regardless of the caller.      *)
(***************************************************************************)
EXTENDS AsyncCalls

Handler(params, call) == [params |-> params, call |-> call]

-----------------------------------------------------------------------------
(* Handlers whose parameters are the arguments, one for one. *)
rename_dim_handler(g) ==
    Handler(Ncid \o <<INT("dimid")>> \o Text("name"), PIOc_rename_dim({}))
rename_var_handler(g) == Handler(Ncvar \o Text("name"), PIOc_rename_var({}))
rename_att_handler(g) ==
    Handler(Ncvar \o Text("name") \o TextOf("newnamelen", "newname"), PIOc_rename_att({}))
delete_att_handler(g) == Handler(Ncvar \o Text("name"), PIOc_del_att({}))
def_dim_handler(g) ==
    Handler(Ncid \o Text("name") \o <<INT("len")>>, PIOc_def_dim({"id"}))
inq_varid_handler(g) == Handler(Ncid \o Text("name"), PIOc_inq_varid({"varid"}))
def_var_handler(g) ==
    Handler(Ncid \o Text("name") \o <<INT("xtype"), INT("ndims"), Many("INT", "ndims", "dimids")>>,
            PIOc_def_var({"varid"} \cup (g \cap {"invalid"})))
def_var_endian_handler(g) == Handler(Ncvar \o <<INT("endian")>>, PIOc_def_var_endian({}))
def_var_deflate_handler(g) ==
    Handler(Ncvar \o <<INT("shuffle"), INT("deflate"), INT("deflate_level")>>,
            PIOc_def_var_deflate({}))
def_var_zstandard_handler(g) == Handler(Ncvar \o <<INT("level")>>, PIOc_def_var_zstandard({}))
def_var_quantize_handler(g) ==
    Handler(Ncvar \o <<INT("quantize_mode"), INT("nsd")>>, PIOc_def_var_quantize({}))
def_var_filter_handler(g) ==
    Handler(Ncvar \o <<INT("id"), SizeT("nparams"), Many("UNSIGNED", "nparams", "params")>>,
            PIOc_def_var_filter({}))
inq_filter_avail_handler(g) == Handler(Ncid \o <<INT("id")>>, PIOc_inq_filter_avail({}))
set_var_chunk_cache_handler(g) ==
    Handler(Ncvar \o <<Offset("size"), Offset("nelems"), Float("preemption")>>,
            PIOc_set_var_chunk_cache({}))
set_chunk_cache_handler(g) ==
    Handler(<<INT("iosysid"), INT("iotype"), Offset("size"), Offset("nelems"), Float("preemption")>>,
            PIOc_set_chunk_cache({}))
sync_file_handler(g)       == Handler(Ncid, PIOc_sync(g))
close_file_handler(g)      == Handler(Ncid, PIOc_closefile({}))
change_def_file_handler(g) == Handler(Ncid, pioc_change_def({}))
delete_file_handler(g)     == Handler(TextOf("len", "filename"), PIOc_deletefile({}))
setframe_handler(g)        == Handler(Ncvar \o <<INT("frame")>>, PIOc_setframe({}))
advanceframe_handler(g)    == Handler(Ncvar, PIOc_advanceframe({}))
read_darray_handler(g) ==
    Handler(Ncvar \o <<INT("ioid"), Offset("arraylen")>>, PIOc_read_darray({}))
freedecomp_handler(g)  == Handler(<<INT("iosysid"), INT("ioid")>>, PIOc_freedecomp({}))
finalize_handler(g)    == Handler(<<INT("iosysid")>>, PIOc_free_iosystem({}))
set_loglevel_handler(g) == Handler(<<INT("iosysid")>>, PIOc_set_global_log_level({}))

-----------------------------------------------------------------------------
(* Handlers that receive flags and pass on the pointers the flags announce. *)
inq_handler(g) ==
    Handler(Ncid \o <<Flag("ndims"), Flag("nvars"), Flag("ngatts"), Flag("unlimdimid")>>,
            PIOc_inq(g))
inq_unlimdims_handler(g) ==
    Handler(Ncid \o <<Flag("nunlimdims"), Flag("unlimdimids")>>, PIOc_inq_unlimdims(g))
inq_type_handler(g) ==
    Handler(Ncid \o <<INT("xtype"), Flag("name"), Flag("size")>>, PIOc_inq_type(g))
inq_format_handler(g) == Handler(Ncid \o <<Flag("format")>>, PIOc_inq_format(g))
inq_dim_handler(g) ==
    Handler(Ncid \o <<INT("dimid"), Flag("name"), Flag("len")>>, PIOc_inq_dim(g))
inq_dimid_handler(g) == Handler(Ncid \o Text("name") \o <<Flag("id")>>, PIOc_inq_dimid(g))
inq_var_handler(g) ==
    Handler(Ncvar \o <<Flag("name"), Flag("xtype"), Flag("ndims"), Flag("dimids"), Flag("natts")>>,
            PIOc_inq_var(g))
inq_att_handler(g) ==
    Handler(Ncvar \o Text("name") \o <<Flag("xtype"), Flag("len"), INT("eh")>>,
            PIOc_inq_att_eh(g))
inq_attname_handler(g) ==
    Handler(Ncvar \o <<INT("attnum"), Flag("name")>>, PIOc_inq_attname(g))
inq_attid_handler(g) == Handler(Ncvar \o Text("name") \o <<Flag("id")>>, PIOc_inq_attid(g))
set_fill_handler(g) ==
    Handler(Ncid \o <<INT("fillmode"), IntFlag("old_mode")>>, PIOc_set_fill(g))
inq_var_fill_handler(g) ==
    Handler(Ncvar \o <<Offset("type_size"), Flag("no_fill"), Flag("fill_value")>>,
            PIOc_inq_var_fill(g))
inq_var_endian_handler(g) == Handler(Ncvar \o <<Flag("endian")>>, PIOc_inq_var_endian(g))
inq_var_chunking_handler(g) ==
    Handler(Ncvar \o <<Flag("storage"), INT("ndims"), Flag("chunksizes")>>,
            PIOc_inq_var_chunking(g))
get_chunk_cache_handler(g) ==
    Handler(<<INT("iosysid"), INT("iotype"), Flag("size"), Flag("nelems"), Flag("preemption")>>,
            PIOc_get_chunk_cache(g))
get_var_chunk_cache_handler(g) ==
    Handler(Ncvar \o <<Flag("size"), Flag("nelems"), Flag("preemption")>>,
            PIOc_get_var_chunk_cache(g))
inq_var_zstandard_handler(g) ==
    Handler(Ncvar \o <<Flag("hasfilter"), Flag("level")>>, PIOc_inq_var_zstandard(g))
inq_var_quantize_handler(g) ==
    Handler(Ncvar \o <<Flag("quantize_mode"), Flag("nsd")>>, PIOc_inq_var_quantize(g))
seterrorhandling_handler(g) ==
    Handler(<<INT("method"), Flag("old_method")>>, PIOc_set_iosystem_error_handling(g))

-----------------------------------------------------------------------------
(* Handlers that receive a value after the flag that announces it. *)
inq_var_deflate_handler(g) ==
    Handler(Ncvar \o Optional("shuffle", g, INT("shuffle"))
              \o Optional("deflate", g, INT("deflate"))
              \o Optional("deflate_level", g, INT("deflate_level")),
            PIOc_inq_var_deflate(g))
inq_var_filter_ids_handler(g) ==
    Handler(Ncvar \o <<Flag("nfilters"), Flag("ids")>> \o When("ids" \in g, <<SizeT("idcnt")>>),
            PIOc_inq_var_filter_ids(g))
inq_var_filter_info_handler(g) ==
    Handler(Ncvar \o <<Unsigned("id"), Flag("nparams"), Flag("params")>>
              \o When("params" \in g, <<SizeT("paramsize")>>),
            PIOc_inq_var_filter_info(g))
def_var_fill_handler(g) ==
    Handler(Ncvar \o <<INT("fill_mode"), Offset("type_size")>>
              \o Optional("fill_value", g, Many("CHAR", "type_size", "fill_value")),
            PIOc_def_var_fill(g))
def_var_chunking_handler(g) ==
    Handler(Ncvar \o <<INT("storage"), INT("ndims")>>
              \o Optional("chunksizes", g, Many("OFFSET", "ndims", "chunksizes")),
            PIOc_def_var_chunking(g))
att_put_handler(g) ==
    Handler(Ncvar \o Text("name") \o <<INT("atttype"), Offset("len"), Offset("atttype_len"),
                INT("memtype"), Offset("memtype_len"), Many("BYTE", "len*memtype_len", "op")>>,
            PIOc_put_att_tc(g))
att_get_handler(g) ==
    Handler(Ncvar \o Text("name") \o <<INT("iotype"), INT("atttype"), Offset("attlen"),
                Offset("atttype_len"), INT("memtype"), Offset("memtype_len")>>,
            PIOc_get_att_tc(g))
VarsReceived(g) ==
    Ncvar \o <<INT("ndims")>> \o Optional("start", g, Many("OFFSET", "ndims", "start"))
    \o Optional("count", g, Many("OFFSET", "ndims", "count"))
    \o Optional("stride", g, Many("OFFSET", "ndims", "stride"))
    \o <<INT("xtype"), Offset("num_elem"), Offset("typelen")>>
put_vars_handler(g) ==
    Handler(VarsReceived(g) \o <<Many("BYTE", "num_elem*typelen", "buf")>>, PIOc_put_vars_tc(g))
get_vars_handler(g) == Handler(VarsReceived(g), PIOc_get_vars_tc(g))
initdecomp_dof_handler(g) ==
    Handler(<<INT("iosysid"), INT("pio_type"), INT("ndims"), Many("INT", "ndims", "gdimlen"),
              INT("maplen"), Many("OFFSET", "maplen", "compmap")>>
              \o Optional("rearranger", g, INT("rearranger"))
              \o Optional("iostart", g, Many("OFFSET", "ndims", "iostart"))
              \o Optional("iocount", g, Many("OFFSET", "ndims", "iocount")),
            PIOc_InitDecomp(g))
write_darray_multi_handler(g) ==
    Handler(Ncid \o <<INT("nvars"), Many("INT", "nvars", "varids"), INT("ioid"),
                Offset("arraylen"), Many("CHAR", "arraylen*piotype_size", "array")>>
              \o Optional("frame", g, Many("INT", "nvars", "frame"))
              \o Optional("fillvalue", g, Many("CHAR", "nvars*piotype_size", "fillvalue"))
              \o <<INT("flushtodisk")>>,
            PIOc_write_darray_multi(g))
create_file_handler(g) ==
    Handler(TextOf("len", "filename") \o <<INT("iotype"), INT("mode"), INT("use_ext_ncid")>>
              \o Optional("ncid", g, INT("ncid")),
            PIOc_createfile_int(g))
open_file_handler(g) ==
    Handler(TextOf("len", "filename") \o <<INT("iotype"), INT("mode"), INT("use_ext_ncid")>>,
            PIOc_openfile_retry(g))

-----------------------------------------------------------------------------
(* The function that sends each message and the handler the switch of     *)
(* pio_msg_handler2 calls for it.  A message without a case there has no   *)
(* handler: the I/O tasks leave the message loop with PIO_EINVAL.          *)
Pair(call, handler) == [call |-> call, handler |-> handler]

Service(msg, g) ==
    CASE msg = "INQ_TYPE" -> Pair(PIOc_inq_type(g), {inq_type_handler(g)})
      [] msg = "INQ_FORMAT" -> Pair(PIOc_inq_format(g), {inq_format_handler(g)})
      [] msg = "CREATE_FILE" -> Pair(PIOc_createfile_int(g), {create_file_handler(g)})
      [] msg = "SYNC" -> Pair(PIOc_sync(g), {sync_file_handler(g)})
      [] msg \in {"ENDDEF", "REDEF"} -> Pair(pioc_change_def(g), {change_def_file_handler(g)})
      [] msg = "OPEN_FILE" -> Pair(PIOc_openfile_retry(g), {open_file_handler(g)})
      [] msg = "CLOSE_FILE" -> Pair(PIOc_closefile(g), {close_file_handler(g)})
      [] msg = "DELETE_FILE" -> Pair(PIOc_deletefile(g), {delete_file_handler(g)})
      [] msg = "RENAME_DIM" -> Pair(PIOc_rename_dim(g), {rename_dim_handler(g)})
      [] msg = "RENAME_VAR" -> Pair(PIOc_rename_var(g), {rename_var_handler(g)})
      [] msg = "RENAME_ATT" -> Pair(PIOc_rename_att(g), {rename_att_handler(g)})
      [] msg = "DEL_ATT" -> Pair(PIOc_del_att(g), {delete_att_handler(g)})
      [] msg = "DEF_DIM" -> Pair(PIOc_def_dim(g), {def_dim_handler(g)})
      [] msg = "DEF_VAR" -> Pair(PIOc_def_var(g), {def_var_handler(g)})
      [] msg = "INQ_VAR_ZSTANDARD" -> Pair(PIOc_inq_var_zstandard(g), {inq_var_zstandard_handler(g)})
      [] msg = "DEF_VAR_ZSTANDARD" -> Pair(PIOc_def_var_zstandard(g), {def_var_zstandard_handler(g)})
      [] msg = "DEF_VAR_CHUNKING" -> Pair(PIOc_def_var_chunking(g), {def_var_chunking_handler(g)})
      [] msg = "DEF_VAR_FILL" -> Pair(PIOc_def_var_fill(g), {def_var_fill_handler(g)})
      [] msg = "DEF_VAR_ENDIAN" -> Pair(PIOc_def_var_endian(g), {def_var_endian_handler(g)})
      [] msg = "DEF_VAR_DEFLATE" -> Pair(PIOc_def_var_deflate(g), {def_var_deflate_handler(g)})
      [] msg = "INQ_VAR_ENDIAN" -> Pair(PIOc_inq_var_endian(g), {inq_var_endian_handler(g)})
      [] msg = "SET_VAR_CHUNK_CACHE" -> Pair(PIOc_set_var_chunk_cache(g), {set_var_chunk_cache_handler(g)})
      [] msg = "GET_VAR_CHUNK_CACHE" -> Pair(PIOc_get_var_chunk_cache(g), {get_var_chunk_cache_handler(g)})
      [] msg = "INQ" -> Pair(PIOc_inq(g), {inq_handler(g)})
      [] msg = "INQ_UNLIMDIMS" -> Pair(PIOc_inq_unlimdims(g), {inq_unlimdims_handler(g)})
      [] msg = "INQ_DIM" -> Pair(PIOc_inq_dim(g), {inq_dim_handler(g)})
      [] msg = "INQ_DIMID" -> Pair(PIOc_inq_dimid(g), {inq_dimid_handler(g)})
      [] msg = "INQ_VAR" -> Pair(PIOc_inq_var(g), {inq_var_handler(g)})
      [] msg = "INQ_VAR_CHUNKING" -> Pair(PIOc_inq_var_chunking(g), {inq_var_chunking_handler(g)})
      [] msg = "INQ_VAR_FILL" -> Pair(PIOc_inq_var_fill(g), {inq_var_fill_handler(g)})
      [] msg = "INQ_VAR_DEFLATE" -> Pair(PIOc_inq_var_deflate(g), {inq_var_deflate_handler(g)})
      [] msg = "GET_ATT" -> Pair(PIOc_get_att_tc(g), {att_get_handler(g)})
      [] msg = "PUT_ATT" -> Pair(PIOc_put_att_tc(g), {att_put_handler(g)})
      [] msg = "INQ_VARID" -> Pair(PIOc_inq_varid(g), {inq_varid_handler(g)})
      [] msg = "INQ_ATT" -> Pair(PIOc_inq_att_eh(g), {inq_att_handler(g)})
      [] msg = "INQ_ATTNAME" -> Pair(PIOc_inq_attname(g), {inq_attname_handler(g)})
      [] msg = "INQ_ATTID" -> Pair(PIOc_inq_attid(g), {inq_attid_handler(g)})
      [] msg = "GET_VARS" -> Pair(PIOc_get_vars_tc(g), {get_vars_handler(g)})
      [] msg = "PUT_VARS" -> Pair(PIOc_put_vars_tc(g), {put_vars_handler(g)})
      [] msg = "INITDECOMP_DOF" /\ "readonly" \in g -> Pair(PIOc_InitDecomp_ReadOnly(g), {initdecomp_dof_handler(g)})
      [] msg = "INITDECOMP_DOF" /\ "readonly" \notin g -> Pair(PIOc_InitDecomp(g), {initdecomp_dof_handler(g)})
      [] msg = "WRITEDARRAYMULTI" -> Pair(PIOc_write_darray_multi(g), {write_darray_multi_handler(g)})
      [] msg = "SETFRAME" -> Pair(PIOc_setframe(g), {setframe_handler(g)})
      [] msg = "ADVANCEFRAME" -> Pair(PIOc_advanceframe(g), {advanceframe_handler(g)})
      [] msg = "READDARRAY" -> Pair(PIOc_read_darray(g), {read_darray_handler(g)})
      [] msg = "SETERRORHANDLING" -> Pair(PIOc_set_iosystem_error_handling(g), {seterrorhandling_handler(g)})
      [] msg = "SET_CHUNK_CACHE" -> Pair(PIOc_set_chunk_cache(g), {set_chunk_cache_handler(g)})
      [] msg = "GET_CHUNK_CACHE" -> Pair(PIOc_get_chunk_cache(g), {get_chunk_cache_handler(g)})
      [] msg = "FREEDECOMP" -> Pair(PIOc_freedecomp(g), {freedecomp_handler(g)})
      [] msg = "SET_FILL" -> Pair(PIOc_set_fill(g), {set_fill_handler(g)})
      [] msg = "SETLOGLEVEL" -> Pair(PIOc_set_global_log_level(g), {set_loglevel_handler(g)})
      [] msg = "DEF_VAR_QUANTIZE" -> Pair(PIOc_def_var_quantize(g), {def_var_quantize_handler(g)})
      [] msg = "INQ_VAR_QUANTIZE" -> Pair(PIOc_inq_var_quantize(g), {inq_var_quantize_handler(g)})
      [] msg = "DEF_VAR_FILTER" -> Pair(PIOc_def_var_filter(g), {def_var_filter_handler(g)})
      [] msg = "INQ_FILTER_AVAIL" -> Pair(PIOc_inq_filter_avail(g), {inq_filter_avail_handler(g)})
      [] msg = "INQ_VAR_FILTER_IDS" -> Pair(PIOc_inq_var_filter_ids(g), {inq_var_filter_ids_handler(g)})
      [] msg = "INQ_VAR_FILTER_INFO" -> Pair(PIOc_inq_var_filter_info(g), {inq_var_filter_info_handler(g)})
      [] msg = "EXIT" -> Pair(PIOc_free_iosystem(g), {finalize_handler(g)})
      [] msg = "DEF_VAR_SZIP" -> Pair(PIOc_def_var_szip(g), {})
      [] msg = "DEF_VAR_BZIP2" -> Pair(PIOc_def_var_bzip2(g), {})
      [] msg = "INQ_VAR_BZIP2" -> Pair(PIOc_inq_var_bzip2(g), {})
=============================================================================
