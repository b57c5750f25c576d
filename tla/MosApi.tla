-------------------------------- MODULE MosApi --------------------------------
(***************************************************************************)
(* The calls of programs into MOS (RST 08h, 10h and 18h: vectors16.asm,    *)
(* mos_api.asm), and the start and end of programs, in ADL mode or in Z80  *)
(* mode in one 64K segment (exec16, exec24 and the widening of registers   *)
(* in misc.asm).  MOS knows a Z80 program by MBASE alone, and a program    *)
(* may run another one, of either mode, by mos_oscli.                      *)
(*                                                                         *)
(* A register is an upper byte and a 16-bit word; the word is a name, "0"  *)
(* for zero.  The C functions may answer anything; of what a call leaves   *)
(* in registers, only those it answers in are kept.  Flags are left out.   *)
(***************************************************************************)
EXTENDS Integers, Sequences, TLC

CONSTANTS
  Segments,      \* the upper bytes that Z80 programs run at
  Uppers,        \* what the upper bytes of a program's registers may hold
  MaxPrograms    \* bound: programs that run one another

\* Segment 0 is the flash, which holds MOS and no program.
ASSUME MosApiAssumption ==
  Segments \subseteq 1 .. 255 /\ Uppers \subseteq 0 .. 255 /\ MaxPrograms \in Nat

Reg(u, w) == [u |-> u, w |-> w]
Wide == {"BC", "DE", "HL", "IX", "IY"}
Pads == {"pad0", "pad3", "pad6"}            \* places in _scratchpad
NotCalled == [fn |-> "none"]

VARIABLES
  programs,   \* those that run one another: mode, segment, MBASE before it
  calls,      \* the calls in progress: of each program in mos_OSCLI, and perhaps of the last one
  mbase,      \* MB
  callSM,     \* the routine that enters a program: its opcode and its fifth byte
  answer,     \* what the last call answered, and in which registers
  lost        \* a program returned into a byte that is no RET

apiVars == <<programs, calls, mbase, callSM, answer, lost>>

-----------------------------------------------------------------------------
(* A handler: the C function, its arguments in the order of C, and what is *)
(* done to upper bytes when MB is not zero: SET_xxx24 for the registers in *)
(* near, for those in opt unless the word is zero, for those in typed      *)
(* unless C says that the value is a number, for those in asked if C asks  *)
(* for it, whatever MB; FIX_HLU24 for those in fix.                        *)
(* Then the registers it answers in, and where from: "L" is the low byte   *)
(* of C's result in HL, "A" a result in A, a place in _scratchpad what C   *)
(* wrote there.  A byte pushed with the rest of its pair is the byte to C. *)

InL == [A |-> "L"]
InA == [A |-> "A"]
NoAnswer == [r \in {} |-> "A"]
Api(fn, near, args, out) ==
  [fn |-> fn, near |-> near, fix |-> {}, opt |-> {}, typed |-> {}, asked |-> {}, args |-> args, out |-> out]
Fixing(h, rs) == [h EXCEPT !.fix = rs]
Optional(h, rs) == [h EXCEPT !.opt = rs]

mos_api_not_implemented == Api("none", {}, << >>, [HL |-> "not_implemented", A |-> "not_implemented"])

mos_api_getkey == Api("getkey", {}, << >>, InA)
mos_api_load == Api("mos_LOAD_API", {"HL", "DE"}, <<"HL", "DE", "BC">>, InL)
mos_api_save == Api("mos_SAVE_API", {"HL", "DE"}, <<"HL", "DE", "BC">>, InL)
mos_api_cd == Api("mos_CD_API", {"HL"}, <<"HL">>, InL)
mos_api_dir == Api("mos_DIR_API", {"HL"}, <<"HL">>, InL)
mos_api_del == Api("mos_DEL", {"HL"}, <<"HL">>, InL)
mos_api_ren == Api("mos_REN_API", {"HL", "DE"}, <<"HL", "DE">>, InL)
mos_api_copy == Api("mos_COPY_API", {"HL", "DE"}, <<"HL", "DE">>, InL)
mos_api_mkdir == Api("mos_MKDIR_API", {"HL"}, <<"HL">>, InL)
mos_api_sysvars == Api("none", {}, << >>, [IX |-> "sysvars"])
mos_api_editline == Api("mos_EDITLINE", {"HL"}, <<"HL", "BC", "DE">>, InL)
mos_api_fopen == Api("mos_FOPEN", {"HL"}, <<"HL", "C">>, InL)
mos_api_fclose == Api("mos_FCLOSE", {}, <<"C">>, InL)
mos_api_fgetc == Api("mos_FGETC", {}, <<"C">>, InL)
mos_api_fputc == Api("mos_FPUTC", {}, <<"C", "B">>, NoAnswer)
mos_api_feof == Api("mos_FEOF", {}, <<"C">>, InA)
mos_api_getError == Api("mos_GETERROR", {"HL"}, <<"E", "HL", "BC">>, NoAnswer)
mos_api_oscli == Api("mos_OSCLI", {"HL"}, <<"HL">>, InL)
mos_api_getrtc == Api("mos_GETRTC", {"HL"}, <<"HL">>, InA)
mos_api_unpackrtc == Api("mos_UNPACKRTC", {"HL"}, <<"HL", "C">>, NoAnswer)
mos_api_setrtc == Api("mos_SETRTC", {"HL"}, <<"HL">>, NoAnswer)
mos_api_setintvector == Api("mos_SETINTVECTOR", {}, <<"E", "HL">>, [HL |-> "HL"])
\* A callback: the caller says, in C, whether it is an address of its segment.
mos_api_setkbvector == [Api("user_kbvector", {}, <<"HL">>, NoAnswer) EXCEPT !.asked = {"HL"}]
mos_api_getkbmap == Api("none", {}, << >>, [IX |-> "keymap"])
mos_api_i2c_open == Api("mos_I2C_OPEN", {}, <<"C">>, NoAnswer)
mos_api_i2c_close == Api("mos_I2C_CLOSE", {}, << >>, NoAnswer)
mos_api_i2c_write == Api("mos_I2C_WRITE", {"HL"}, <<"C", "B", "HL">>, InA)
mos_api_i2c_read == Api("mos_I2C_READ", {"HL"}, <<"C", "B", "HL">>, InA)
mos_api_uopen == Api("open_UART1", {"IX"}, <<"IX">>, InA)
mos_api_uclose == Api("close_UART1", {}, << >>, NoAnswer)
mos_api_ugetc == Api("UART1_serial_GETCH", {}, << >>, InA)
mos_api_uputc == Api("UART1_serial_PUTCH", {}, <<"C">>, NoAnswer)
mos_api_getfil == Api("mos_GETFIL", {}, <<"C">>, [HL |-> "HL"])
mos_api_fread == Api("mos_FREAD", {"HL"}, <<"C", "HL", "DE">>, [DE |-> "HL"])
mos_api_fwrite == Api("mos_FWRITE", {"HL"}, <<"C", "HL", "DE">>, [DE |-> "HL"])
mos_api_flseek == Api("mos_FLSEEK", {}, <<"C", "HL", "DE">>, InA)
mos_api_flseek_p == Fixing(Api("mos_FLSEEKP", {}, <<"C", "HL">>, InA), {"HL"})

mos_api_pmatch == Api("pmatch", {"HL", "DE"}, <<"HL", "DE", "C">>, InL)
mos_api_getargument ==
  Api("getArgument", {"HL"}, <<"HL", "BC", "pad0">>, [HL |-> "HL", DE |-> "pad0"])
mos_api_extractstring ==
  Optional(Api("extractString", {"HL"}, <<"HL", "pad3", "DE", "pad0", "C">>,
               [A |-> "L", HL |-> "pad0", DE |-> "pad3"]), {"DE"})
mos_api_extractnumber ==
  Optional(Api("extractNumber", {"HL"}, <<"HL", "pad3", "DE", "pad0", "C">>,
               [A |-> "A", HL |-> "pad0", DE |-> "pad3"]), {"DE"})
mos_api_escapestring ==
  Optional(Api("escapeString", {"HL"}, <<"HL", "DE", "pad0">>, [A |-> "L", BC |-> "pad0"]), {"DE"})
mos_api_setvarval ==
  [Api("setVarVal", {"HL"}, <<"HL", "IX", "pad0", "pad3">>, [A |-> "L", C |-> "pad3", IY |-> "pad0"])
    EXCEPT !.typed = {"IX"}]
mos_api_readvarval ==
  Optional(Api("readVarVal", {"HL"}, <<"HL", "IX", "pad0", "pad3", "pad6">>,
               [A |-> "L", C |-> "pad6", DE |-> "pad3", IY |-> "pad0"]), {"IX"})
mos_api_gsinit == Api("gsInit", {"HL", "DE"}, <<"HL", "DE", "C">>, InL)
mos_api_gsread == Api("gsRead", {"DE"}, <<"DE", "pad0">>, [A |-> "L", C |-> "pad0"])
mos_api_gstrans ==
  Optional(Api("gsTrans", {"HL"}, <<"HL", "IX", "DE", "pad0", "C">>, [A |-> "L", BC |-> "pad0"]), {"IX"})
mos_api_substituteargs ==
  Optional(Api("substituteArgs", {"HL", "IX"}, <<"HL", "IX", "IY", "DE", "C">>, [BC |-> "HL"]), {"IY"})
mos_api_resolvepath ==
  Optional(Api("resolvePath", {"HL"}, <<"HL", "IX", "pad3", "pad0", "IY", "B">>,
               [A |-> "L", C |-> "pad0", DE |-> "pad3"]), {"IX", "IY"})
mos_api_getdirectoryforpath ==
  Optional(Api("getDirectoryForPath", {"HL"}, <<"HL", "IX", "pad0", "C">>, [A |-> "L", DE |-> "pad0"]), {"IX"})
mos_api_getfilepathleafname == Api("getFilepathLeafname", {"HL"}, <<"HL">>, [HL |-> "HL"])
mos_api_isdirectory == Api("isDirectory", {"HL"}, <<"HL">>, InA)
mos_api_getabsolutepath ==
  Api("resolveRelativePath", {"HL", "IX"}, <<"HL", "IX", "pad0">>, [A |-> "L", DE |-> "pad0"])
mos_api_clear_vdp_flags == Api("none", {}, << >>, [A |-> "flags"])
mos_api_wait_vdp_flags == Api("wait_VDP", {}, <<"C">>, InA)
\* Any flag or number that names no function is refused, and a Z80 program is.
mos_api_getfunction == Api("getfunction", {}, << >>, [A |-> "status", HL |-> "function"])
\* For programs in ADL mode only (mos_api).
mos_api_emos_gateway == Api("emos_gateway", {}, <<"HL">>, InL)

sd_api_getunlockcode == Fixing(Api("SD_getUnlockCode", {}, <<"HL">>, NoAnswer), {"HL"})
sd_api_init == Fixing(Api("SD_init_API", {}, <<"HL">>, InA), {"HL"})
sd_api_readblocks == Api("SD_readBlocks_API", {"DE", "HL"}, <<"HL", "DE", "BC">>, InA)
sd_api_writeblocks == Api("SD_writeBlocks_API", {"DE", "HL"}, <<"HL", "DE", "BC">>, InA)

\* A FIL may be one that MOS gave out (mos_api_getfil), outside the segment: its
\* upper byte counts unless it is zero.
Fil(fn, near, args, out) == Fixing(Api(fn, near, args, out), {"HL"})
ffs_api_fopen == Fil("f_open", {"DE"}, <<"HL", "DE", "C">>, InL)
ffs_api_fclose == Fil("f_close", {}, <<"HL">>, InL)
ffs_api_fread == Fil("f_read", {"DE"}, <<"HL", "DE", "BC", "pad0">>, [A |-> "L", BC |-> "pad0"])
ffs_api_fwrite == Fil("f_write", {"DE"}, <<"HL", "DE", "BC", "pad0">>, [A |-> "L", BC |-> "pad0"])
ffs_api_flseek == Fil("f_lseek", {}, <<"HL", "DE", "BC">>, InL)
ffs_api_ftruncate == Fil("f_truncate", {}, <<"HL">>, InL)
ffs_api_fsync == Fil("f_sync", {}, <<"HL">>, InL)
ffs_api_fgets == Fil("f_gets", {"DE"}, <<"DE", "BC", "HL">>, [DE |-> "HL"])
ffs_api_fputc == Fil("f_putc", {}, <<"C", "HL">>, [BC |-> "HL"])
ffs_api_fputs == Fil("f_puts", {"DE"}, <<"DE", "HL">>, [BC |-> "HL"])
ffs_api_ftell == Fil("fat_tell", {"DE"}, <<"HL", "DE">>, InA)
ffs_api_feof == Fil("fat_EOF", {}, <<"HL">>, InA)
ffs_api_fsize == Fil("fat_size", {"DE"}, <<"HL", "DE">>, InA)
ffs_api_ferror == Fil("fat_error", {}, <<"HL">>, InA)
ffs_api_flseek_p == Fil("fat_lseek", {"DE"}, <<"HL", "DE">>, InA)
ffs_api_dopen == Api("f_opendir", {"DE", "HL"}, <<"HL", "DE">>, InL)
ffs_api_dclose == Api("f_closedir", {"HL"}, <<"HL">>, InL)
ffs_api_dread == Api("f_readdir", {"DE", "HL"}, <<"HL", "DE">>, InL)
ffs_api_dfindfirst == Api("f_findfirst", {"HL", "DE", "BC", "IX"}, <<"HL", "DE", "BC", "IX">>, InL)
ffs_api_dfindnext == Fixing(Api("f_findnext", {}, <<"HL", "DE">>, InL), {"HL", "DE"})
ffs_api_stat == Fil("f_stat", {"DE"}, <<"DE", "HL">>, InL)
ffs_api_unlink == Api("f_unlink", {"HL"}, <<"HL">>, InL)
ffs_api_rename == Api("f_rename", {"HL", "DE"}, <<"HL", "DE">>, InL)
ffs_api_mkdir == Api("f_mkdir", {"HL"}, <<"HL">>, InL)
ffs_api_chdir == Api("f_chdir", {"HL"}, <<"HL">>, InL)
ffs_api_getcwd == Api("f_getcwd", {"HL"}, <<"HL", "BC">>, InL)
ffs_api_mount == Api("mos_mount", {}, << >>, InA)
ffs_api_getfree == Optional(Api("fat_getfree", {"BC", "DE"}, <<"HL", "DE", "BC">>, InA), {"HL"})
ffs_api_getlabel == Optional(Api("f_getlabel", {"BC", "DE"}, <<"HL", "DE", "BC">>, InL), {"HL"})
\* There is no RET before the next handler, which answers that nothing was done.
ffs_api_setlabel == Fixing(Api("f_setlabel", {}, <<"HL">>, mos_api_not_implemented.out), {"HL"})

rst_10_handler == Api("EMOS_vdu_PUTCH", {}, <<"A">>, NoAnswer)
\* With zero in the word of BC, up to a delimiter; else BC bytes.
rst_18_handler == Api("EMOS_vdu_WRITE", {"HL"}, <<"HL", "BC">>, NoAnswer)
rst_18_handler_1 == Api("up to a delimiter", {"HL"}, <<"HL", "A">>, NoAnswer)

-----------------------------------------------------------------------------
(* The two tables of mos_api.                                              *)

Free(k) == [i \in 1 .. k |-> mos_api_not_implemented]

mos_api_block1 ==
  <<mos_api_getkey, mos_api_load, mos_api_save, mos_api_cd, mos_api_dir, mos_api_del,
       mos_api_ren, mos_api_mkdir, mos_api_sysvars, mos_api_editline, mos_api_fopen,
       mos_api_fclose, mos_api_fgetc, mos_api_fputc, mos_api_feof, mos_api_getError,
       mos_api_oscli, mos_api_copy, mos_api_getrtc, mos_api_setrtc, mos_api_setintvector,
       mos_api_uopen, mos_api_uclose, mos_api_ugetc, mos_api_uputc, mos_api_getfil,
       mos_api_fread, mos_api_fwrite, mos_api_flseek, mos_api_setkbvector, mos_api_getkbmap,
       mos_api_i2c_open, mos_api_i2c_close, mos_api_i2c_write, mos_api_i2c_read,
       mos_api_unpackrtc, mos_api_flseek_p>> \o Free(3)
  \o <<mos_api_pmatch, mos_api_getargument, mos_api_extractstring, mos_api_extractnumber,
       mos_api_escapestring>> \o Free(3)
  \o <<mos_api_setvarval, mos_api_readvarval, mos_api_gsinit, mos_api_gsread, mos_api_gstrans,
       mos_api_substituteargs>> \o Free(2)
  \o <<mos_api_resolvepath, mos_api_getdirectoryforpath, mos_api_getfilepathleafname,
       mos_api_isdirectory, mos_api_getabsolutepath>> \o Free(3)
  \o <<mos_api_clear_vdp_flags, mos_api_wait_vdp_flags>> \o Free(14)
  \o <<mos_api_getfunction, mos_api_emos_gateway>> \o Free(30)
  \o <<sd_api_getunlockcode, sd_api_init, sd_api_readblocks, sd_api_writeblocks>> \o Free(12)

mos_api_block2 ==
  <<ffs_api_fopen, ffs_api_fclose, ffs_api_fread, ffs_api_fwrite, ffs_api_flseek,
       ffs_api_ftruncate, ffs_api_fsync>> \o Free(2)
  \o <<ffs_api_fgets, ffs_api_fputc, ffs_api_fputs>> \o Free(1)
  \o <<ffs_api_ftell, ffs_api_feof, ffs_api_fsize, ffs_api_ferror, ffs_api_dopen,
       ffs_api_dclose, ffs_api_dread, ffs_api_dfindfirst, ffs_api_dfindnext, ffs_api_stat,
       ffs_api_unlink, ffs_api_rename>> \o Free(2) \o <<ffs_api_mkdir, ffs_api_chdir>>
  \o Free(1) \o <<ffs_api_getcwd, ffs_api_mount>> \o Free(2)
  \o <<ffs_api_getfree, ffs_api_getlabel, ffs_api_setlabel>> \o Free(1) \o <<ffs_api_flseek_p>>

SWITCH_A(block, i) == block[i + 1]
mos_api(n) ==
  LET block == IF n < 128 THEN mos_api_block1 ELSE mos_api_block2
      h == IF (n % 128) + 1 \in DOMAIN block THEN SWITCH_A(block, n % 128) ELSE mos_api_not_implemented
  IN IF h.fn = "emos_gateway" /\ mbase # 0 THEN mos_api_not_implemented ELSE h

-----------------------------------------------------------------------------
(* What C declares of those functions: the parameters, and whether the     *)
(* result is a byte (in A), wider (in HL) or none.  A pointer is to        *)
(* something of the caller ("own"), which may be null ("null"), to what    *)
(* the caller may name by a full address ("object"), or must ("full").     *)

Declared(params, result) == [params |-> params, result |-> result]
File == <<"object">>
FatFs ==
     "f_open" :> Declared(<<"object", "own", "byte">>, "wide")
  @@ [f \in {"f_close", "f_truncate", "f_sync", "f_setlabel"} |-> Declared(File, "wide")]
  @@ [f \in {"f_read", "f_write"} |-> Declared(<<"object", "own", "number", "pad">>, "wide")]
  @@ "f_lseek" :> Declared(<<"object", "number", "number">>, "wide")
  @@ [f \in {"f_opendir", "f_rename"} |-> Declared(<<"own", "own">>, "wide")]
  @@ [f \in {"f_closedir", "f_mkdir", "f_unlink", "f_chdir"} |-> Declared(<<"own">>, "wide")]
  @@ "f_readdir" :> Declared(<<"own", "own">>, "wide")
  @@ "f_findfirst" :> Declared(<<"own", "own", "own", "own">>, "wide")
  @@ "f_findnext" :> Declared(<<"object", "object">>, "wide")
  @@ "f_stat" :> Declared(<<"own", "object">>, "wide")
  @@ "f_getcwd" :> Declared(<<"own", "number">>, "wide")
  @@ "f_getlabel" :> Declared(<<"null", "own", "own">>, "wide")
  @@ "f_putc" :> Declared(<<"byte", "object">>, "wide")
  @@ "f_puts" :> Declared(<<"own", "object">>, "wide")
  @@ "f_gets" :> Declared(<<"own", "number", "object">>, "wide")
Mos ==
     [f \in {"mos_LOAD_API", "mos_SAVE_API"} |-> Declared(<<"own", "own", "number">>, "wide")]
  @@ [f \in {"mos_CD_API", "mos_DIR_API", "mos_DEL", "mos_MKDIR_API", "mos_OSCLI"} |-> Declared(<<"own">>, "wide")]
  @@ [f \in {"mos_REN_API", "mos_COPY_API"} |-> Declared(<<"own", "own">>, "wide")]
  @@ "mos_EDITLINE" :> Declared(<<"own", "number", "number">>, "wide")
  @@ "mos_FOPEN" :> Declared(<<"own", "byte">>, "wide")
  @@ [f \in {"mos_FCLOSE", "mos_FGETC", "mos_GETFIL"} |-> Declared(<<"byte">>, "wide")]
  @@ "mos_FPUTC" :> Declared(<<"byte", "byte">>, "none")
  @@ [f \in {"mos_FREAD", "mos_FWRITE"} |-> Declared(<<"byte", "own", "number">>, "wide")]
  @@ "mos_FLSEEK" :> Declared(<<"byte", "number", "number">>, "byte")
  @@ "mos_FLSEEKP" :> Declared(<<"byte", "object">>, "byte")
  @@ [f \in {"mos_FEOF", "wait_VDP"} |-> Declared(<<"byte">>, "byte")]
  @@ "mos_GETERROR" :> Declared(<<"byte", "own", "number">>, "none")
  @@ "mos_GETRTC" :> Declared(<<"own">>, "byte")
  @@ "mos_UNPACKRTC" :> Declared(<<"own", "byte">>, "none")
  @@ "mos_SETRTC" :> Declared(<<"own">>, "none")
  @@ "mos_SETINTVECTOR" :> Declared(<<"byte", "full">>, "wide")
  @@ [f \in {"fat_tell", "fat_size", "fat_lseek"} |-> Declared(<<"object", "own">>, "byte")]
  @@ [f \in {"fat_EOF", "fat_error"} |-> Declared(File, "byte")]
  @@ "fat_getfree" :> Declared(<<"null", "own", "own">>, "byte")
  @@ "mos_mount" :> Declared(<< >>, "wide")
Texts ==
     "pmatch" :> Declared(<<"own", "own", "byte">>, "wide")
  @@ "setVarVal" :> Declared(<<"own", "value", "pad", "pad">>, "wide")
  @@ "readVarVal" :> Declared(<<"own", "null", "pad", "pad", "pad">>, "wide")
  @@ "gsInit" :> Declared(<<"own", "own", "byte">>, "wide")
  @@ "gsRead" :> Declared(<<"own", "pad">>, "wide")
  @@ "gsTrans" :> Declared(<<"own", "null", "number", "pad", "byte">>, "wide")
  @@ "extractNumber" :> Declared(<<"own", "pad", "null", "pad", "byte">>, "byte")
  @@ "extractString" :> Declared(<<"own", "pad", "null", "pad", "byte">>, "wide")
  @@ "escapeString" :> Declared(<<"own", "null", "pad">>, "wide")
  @@ "getArgument" :> Declared(<<"own", "number", "pad">>, "wide")
  @@ "substituteArgs" :> Declared(<<"own", "own", "null", "number", "byte">>, "wide")
Paths ==
     "isDirectory" :> Declared(<<"own">>, "byte")
  @@ "getFilepathLeafname" :> Declared(<<"own">>, "wide")
  @@ "getDirectoryForPath" :> Declared(<<"own", "null", "pad", "byte">>, "wide")
  @@ "resolvePath" :> Declared(<<"own", "null", "pad", "pad", "null", "byte">>, "wide")
  @@ "resolveRelativePath" :> Declared(<<"own", "own", "pad">>, "wide")
Devices ==
     "mos_I2C_OPEN" :> Declared(<<"byte">>, "none") @@ "mos_I2C_CLOSE" :> Declared(<< >>, "none")
  @@ [f \in {"mos_I2C_WRITE", "mos_I2C_READ"} |-> Declared(<<"byte", "byte", "own">>, "byte")]
  @@ "open_UART1" :> Declared(<<"own">>, "byte") @@ "close_UART1" :> Declared(<< >>, "none")
  @@ "UART1_serial_GETCH" :> Declared(<< >>, "byte") @@ "UART1_serial_PUTCH" :> Declared(<<"byte">>, "none")
  @@ "getkey" :> Declared(<< >>, "byte") @@ "user_kbvector" :> Declared(<<"callback">>, "none")
  @@ "SD_getUnlockCode" :> Declared(<<"object">>, "none") @@ "SD_init_API" :> Declared(<<"object">>, "byte")
  @@ [f \in {"SD_readBlocks_API", "SD_writeBlocks_API"} |-> Declared(<<"own", "own", "number">>, "byte")]
  @@ "emos_gateway" :> Declared(<<"full">>, "wide") @@ "EMOS_vdu_PUTCH" :> Declared(<<"byte">>, "none")
  @@ "EMOS_vdu_WRITE" :> Declared(<<"own", "number">>, "none")
  @@ "up to a delimiter" :> Declared(<<"own", "byte">>, "none")
Prototypes == FatFs @@ Mos @@ Texts @@ Paths @@ Devices

-----------------------------------------------------------------------------
(* Programs start.                                                         *)

MosApiInit ==
  /\ programs = << >> /\ calls = << >> /\ mbase = 0
  /\ callSM = <<"?", "?">> /\ answer = NotCalled /\ lost = FALSE

Top == programs[Len(programs)]
Runs == Len(calls) < Len(programs)

\* From the prompt, or from a command line that a program gives to mos_oscli.
CommandLine ==
  /\ Len(programs) < MaxPrograms
  /\ programs # << >> => Len(calls) = Len(programs) /\ calls[Len(calls)].fn = "mos_OSCLI"

Enters(mode, seg) ==
  /\ programs' = Append(programs, [mode |-> mode, seg |-> seg, mb |-> mbase])
  /\ answer' = NotCalled /\ UNCHANGED <<calls, lost>>

\* Mutation: MB is left as it is.
exec24KeepsMb ==
  /\ CommandLine /\ Enters("ADL", 0)
  /\ UNCHANGED mbase /\ callSM' = <<"JP", callSM[2]>>

\* MB is cleared; JP to the program: it returns to exec24 itself.
exec24 ==
  /\ CommandLine /\ Enters("ADL", 0)
  /\ mbase' = 0 /\ callSM' = <<"JP", callSM[2]>>
\* MB is its segment; CALL.IS to the program, which returns to the RET behind that.
exec16(seg) ==
  /\ CommandLine /\ Enters("Z80", seg)
  /\ mbase' = seg /\ callSM' = <<"CALL.IS", "RET">>

\* A program returns, through the routine as it is now; MB is what it was.
execSM ==
  /\ Runs
  /\ programs' = SubSeq(programs, 1, Len(programs) - 1) /\ mbase' = Top.mb
  /\ lost' = (lost \/ (Top.mode = "Z80" /\ callSM[2] # "RET"))
  /\ answer' = NotCalled /\ UNCHANGED <<calls, callSM>>

-----------------------------------------------------------------------------
(* Programs call.                                                          *)

Register(r, regs) == IF r \in Wide THEN regs[r] ELSE Reg(0, r)
SET_24(v) == Reg(mbase, v.w)
FIX_HLU24(v) == IF v.u = 0 THEN SET_24(v) ELSE v

\* Mutation: a pointer that may be null is widened like any other.
WidensNull(h, r, v, c) == r \in h.near \cup h.opt \/ (r \in h.typed /\ c # "1")

\* The registers whose upper byte becomes MB.
TakesMb(h, r, v, c) ==
  \/ r \in h.near
  \/ r \in h.opt /\ v.w # "0"
  \/ r \in h.typed /\ c # "1"

\* The register that a handler pushes; c is what C holds.
Pushed(h, r, regs, c) ==
  LET v == Register(r, regs)
  IN IF r \in h.asked THEN (IF c = "0" THEN v ELSE SET_24(v))
     ELSE IF mbase = 0 THEN v
     ELSE IF TakesMb(h, r, v, c) THEN SET_24(v)
     ELSE IF r \in h.fix THEN FIX_HLU24(v) ELSE v

Calls(h, regs, c) ==
  /\ Runs
  /\ calls' = Append(calls,
       [fn |-> h.fn, c |-> c, out |-> h.out,
        meant |-> [i \in DOMAIN h.args |-> Register(h.args[i], regs)],
        args |-> [i \in DOMAIN h.args |-> Pushed(h, h.args[i], regs, c)]])
  /\ answer' = NotCalled /\ UNCHANGED <<programs, mbase, callSM, lost>>

AnswersIn(fn, out) ==
  /\ answer' = [fn |-> fn, by |-> Top.mode, out |-> out]
  /\ UNCHANGED <<programs, mbase, callSM, lost>>

GetFunction(c, b) ==
  IF mbase # 0 THEN [A |-> "20", HL |-> "0"]
  ELSE IF c # "0" \/ b = "beyond" THEN [A |-> "19", HL |-> "0"]
  ELSE [A |-> "0", HL |-> IF b = "reserved" THEN "0" ELSE "function"]

AnswersAtOnce(h, out) == Runs /\ AnswersIn(h.fn, out) /\ UNCHANGED calls

\* The zero words and the values of C that a handler looks at.
RegisterFiles(zeros) ==
  {[r \in Wide |-> Reg(u, IF r = z THEN "0" ELSE r)] : u \in Uppers, z \in zeros \cup {"none"}}
Cs(h) == IF h.typed = {} /\ h.asked = {} THEN {"any"} ELSE {"0", "1"}

rst_08(n) ==
  LET h == mos_api(n)
  IN CASE h.fn = "none" -> AnswersAtOnce(h, h.out)
       [] h.fn = "getfunction" ->
            \E c \in {"0", "1"}, b \in {"function", "reserved", "beyond"} : AnswersAtOnce(h, GetFunction(c, b))
       [] OTHER -> \E regs \in RegisterFiles(h.opt), c \in Cs(h) : Calls(h, regs, c)
rst_10 == \E regs \in RegisterFiles({}) : Calls(rst_10_handler, regs, "any")
rst_18 ==
  \E regs \in RegisterFiles({"BC"}) :
    Calls(IF regs["BC"].w = "0" THEN rst_18_handler_1 ELSE rst_18_handler, regs, "any")

\* C returns, its result in the register that its type says.
Result(fn, from) ==
  CASE from \in {"L", "HL"} -> IF Prototypes[fn].result = "wide" THEN "result" ELSE "junk"
    [] from = "A" -> IF Prototypes[fn].result = "byte" THEN "result" ELSE "junk"
    [] OTHER -> from
Returns ==
  LET call == calls[Len(calls)]
  IN /\ programs # << >> /\ Len(calls) = Len(programs)
     /\ AnswersIn(call.fn, [r \in DOMAIN call.out |-> Result(call.fn, call.out[r])])
     /\ calls' = SubSeq(calls, 1, Len(calls) - 1)

MosApiNext ==
  \/ exec24
  \/ \E seg \in Segments : exec16(seg)
  \/ execSM
  \/ \E n \in 0 .. 255 : rst_08(n)
  \/ rst_10 \/ rst_18
  \/ Returns

MosApiSpec == MosApiInit /\ [][MosApiNext]_apiVars

-----------------------------------------------------------------------------
(* What a parameter may be when the program p has v in the register, and c *)
(* in C: in Z80 mode its pointers are in its segment, whatever the upper   *)
(* byte of the register holds.                                             *)

Meant(p, type, v, c) ==
  LET own == Reg(p.seg, v.w)
  IN CASE type = "pad" -> {Reg(0, d) : d \in Pads}
       [] type = "callback" -> IF c = "0" THEN {v} ELSE {own}
       [] type \in {"byte", "number", "full"} -> {v}
       [] OTHER ->
            IF p.mode = "ADL" \/ (type = "null" /\ v.w = "0") \/ (type = "value" /\ c = "1") THEN {v}
            ELSE IF type = "object" /\ v.u # 0 THEN {v, own}
            ELSE {own}

\* The answers that are lost: ffs_api_mount takes A for a result that C leaves in
\* HL, and ffs_api_setlabel runs on into mos_api_not_implemented.
LostAnswers == {"mos_mount", "f_setlabel"}

\* What C is given, and what a program is told.
IsMeant(call, p) ==
  LET params == Prototypes[call.fn].params
  IN /\ DOMAIN call.args = DOMAIN params
     /\ \A k \in DOMAIN params : call.args[k] \in Meant(p, params[k], call.meant[k], call.c)
IsResult(fn, out) ==
  fn \notin {"none"} \cup LostAnswers => \A r \in DOMAIN out : out[r] \notin {"junk", "not_implemented"}

\* Each C function gets the parameters it declares, and each pointer of them is
\* what the calling program means by it in its own mode and segment, whoever
\* runs it and whatever ran before (mos_api.asm: the widening in each handler).
\* What comes back is C's result or what C wrote, but for the two lost answers; no
\* program in Z80 mode gets the address of a function.
CallsMeanTheSame ==
  /\ \A i \in DOMAIN calls : IsMeant(calls[i], programs[i])
  /\ answer # NotCalled => IsResult(answer.fn, answer.out)
  /\ answer # NotCalled /\ answer.fn = "getfunction" /\ answer.by = "Z80" => answer.out["HL"] = "0"

\* Each program runs under the MB of its own mode and segment, also after one that
\* it started, so MOS tells the two modes apart; and as long as a Z80 program has to
\* return, the one routine that every start rewrites ends with its RET (exec16,
\* exec24 in misc.asm).
ProgramsResume ==
  /\ mbase = IF programs = << >> \/ Top.mode = "ADL" THEN 0 ELSE Top.seg
  /\ (\E i \in DOMAIN programs : programs[i].mode = "Z80") => callSM[2] = "RET"
  /\ ~lost

-----------------------------------------------------------------------------
(* What each handler has to do for the function that it calls: what it     *)
(* does to the upper byte of each register, and where it takes the result  *)
(* from.  The tables have no parameter, so TLC finds that this holds by    *)
(* evaluating them.                                                        *)

Handlers ==
  {mos_api_block1[i] : i \in DOMAIN mos_api_block1} \cup {mos_api_block2[i] : i \in DOMAIN mos_api_block2}
    \cup {rst_10_handler, rst_18_handler, rst_18_handler_1}

Widens(h, r, type) ==
  CASE type = "pad" -> r \in Pads
    [] type \in {"byte", "number", "full"} -> r \notin h.near \cup h.opt \cup h.typed \cup h.asked \cup h.fix
    [] type = "callback" -> r \in h.asked
    [] type = "null" -> r \in h.opt \ (h.near \cup h.typed \cup h.asked \cup h.fix)
    [] type = "value" -> r \in h.typed \ (h.near \cup h.opt \cup h.asked \cup h.fix)
    [] type = "object" -> r \in (h.near \cup h.fix) \ (h.opt \cup h.typed \cup h.asked)
    [] OTHER -> r \in h.near \ h.asked
Suits(h) ==
  LET params == Prototypes[h.fn].params
  IN /\ DOMAIN h.args = DOMAIN params
     /\ \A k \in DOMAIN params : Widens(h, h.args[k], params[k])
     /\ IsResult(h.fn, [r \in DOMAIN h.out |-> Result(h.fn, h.out[r])])
     /\ (h.near \cup h.opt \cup h.typed \cup h.asked \cup h.fix) \cap Pads = {}

ASSUME HandlersAssumption ==
  \A h \in Handlers : h.fn \notin {"none", "getfunction"} => Suits(h)
=============================================================================
