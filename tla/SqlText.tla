------------------------------ MODULE SqlText ------------------------------
(***************************************************************************)
(* The SQL text argument of DSQL_prepare and DSQL_execute_immediate, what  *)
(* try_capture_sql_entry makes of it and what sql_str shows of the result. *)
(* Bytes are positions: the statement is the first `stmt' bytes at sql,    *)
(* the first NUL in memory is behind `nul' bytes.  Firebird passes the     *)
(* statement's length, or 0 for a NUL-terminated one.                      *)
(***************************************************************************)
EXTENDS Naturals

CONSTANTS SQL_MAX,    \* 512
          MaxBytes    \* bound: length of a statement, distance to a NUL

ASSUME SqlAssumption == SQL_MAX \in Nat /\ SQL_MAX > 1 /\ MaxBytes \in Nat

MinOf(a, b) == IF a <= b THEN a ELSE b

(* stmt: bytes of the statement; nul: bytes before the first NUL; length:  *)
(* the argument; ptr: sql is not null; fault: the text cannot be read.     *)
Calls ==
    {c \in [stmt : 0..MaxBytes, nul : 0..MaxBytes, length : 0..MaxBytes,
            ptr : BOOLEAN, fault : BOOLEAN] :
        /\ c.length = 0 => c.stmt = c.nul
        /\ c.length # 0 => c.stmt = c.length}

(* bpf_probe_read_user_str: up to SQL_MAX - 1 bytes and a NUL.             *)
Copied(c) == IF c.fault THEN 0 ELSE MinOf(c.nul, SQL_MAX - 1)

(* Mutant: forgets the byte that the NUL takes.                            *)
IsTruncatedOffByOne(c) == c.length > SQL_MAX
IsTruncated(c) == Copied(c) >= SQL_MAX - 1 /\ c.length > Copied(c)

(* Mutant: the length argument is always taken at its word.                *)
SqlLenAsGiven(c) == c.length
(* length 0 means strlen: what was read.                                   *)
SqlLen(c) == IF c.length = 0 THEN Copied(c) ELSE c.length

(* sql_str: at most sql_len and SQL_MAX bytes, cut at the first NUL, which *)
(* the buffer has behind n bytes.                                          *)
Visible(sql_len, n) == MinOf(MinOf(sql_len, SQL_MAX), n)
=============================================================================
