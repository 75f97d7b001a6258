---------------------------- MODULE ToolArguments ----------------------------
(***************************************************************************)
(* The arguments of a tool call and what the handlers' ways of reading     *)
(* them make of each: the accessors of the MCP library, which never fail   *)
(* and know nothing of the tool's schema, Go's type assertions, and the    *)
(* checks of internal/tools/validate.go.                                   *)
(*                                                                         *)
(* A JSON value is a record with one field that names its kind.  Numbers   *)
(* are in halves, to have fractions.  Texts are a few strings that stand   *)
(* for the cases the checks tell apart; an address is the sequence of what *)
(* stands between its dots.                                                *)
(***************************************************************************)
EXTENDS Integers, Sequences

CONSTANTS
    Absent,    \* an argument that is missing; a path or a name that is no text is as good
    NotText,   \* an item of a list of texts that is no text
    Refused    \* what a handler makes of arguments it refuses

Null == [null |-> TRUE]
Truth(b) == [truth |-> b]
Number(halves) == [number |-> halves]
Digits(halves) == [digits |-> halves]   \* a number as a text
Text(s) == [text |-> s]

Is(v, kind) == v # Absent /\ kind \in DOMAIN v

-----------------------------------------------------------------------------
(* Reading an argument                                                     *)

\* Cut towards zero.
Truncated(halves) == IF halves < 0 THEN -((-halves) \div 2) ELSE halves \div 2

\* A number, or the text of an integer.
GetInt(v, default) ==
    IF Is(v, "number") THEN Truncated(v.number)
    ELSE IF Is(v, "digits") /\ v.digits % 2 = 0 THEN v.digits \div 2
    ELSE default

\* A boolean, a number or a text that reads as a boolean.
GetBool(v, default) ==
    IF Is(v, "truth") THEN v.truth
    ELSE IF Is(v, "number") THEN v.number # 0
    ELSE IF Is(v, "digits") /\ v.digits \in {0, 2} THEN v.digits = 2
    ELSE IF Is(v, "text") /\ v.text \in {"true", "false"} THEN v.text = "true"
    ELSE default

GetString(v, default) == IF Is(v, "text") THEN v.text ELSE default

\* The sequence without its items in S.
Dropping(S, p) ==
    LET kept[n \in 0..Len(p)] ==
          IF n = 0 THEN <<>>
          ELSE IF p[n] \in S THEN kept[n - 1]
          ELSE Append(kept[n - 1], p[n])
    IN  kept[Len(p)]

\* The items that are texts; the others are dropped without a word, and what is no
\* list has no items.
GetStringSlice(list) == Dropping({NotText}, list)

\* int(toFloat(v)): what is not a number is 0.
ToInt(v) == IF Is(v, "number") THEN Truncated(v.number) ELSE 0

-----------------------------------------------------------------------------
(* The checks                                                              *)

ValidPort(n) == 1 <= n /\ n <= 65535

ValidMAC(s) == s = "aa:bb:cc:dd:ee:ff"
ValidSecureOn(s) == s = "" \/ ValidMAC(s)

\* Only the last of four parts is looked at, and as a text.
ValidDHCPIP(ip) == Len(ip) = 4 /\ ip[4] \notin {"0", "1", "254", "255"}

\* 10.x, 172.16-31.x, 192.168.x
ValidPrivateIP(ip) ==
    /\ Len(ip) = 4
    /\ \/ ip[1] = "10"
       \/ ip[1] = "172" /\ ip[2] \in {"16", "31"}
       \/ ip[1] = "192" /\ ip[2] = "168"

\* A magnet link names no host.
ValidDownload(url) ==
    \/ url.scheme = "magnet"
    \/ url.scheme \in {"http", "https", "nzb"} /\ url.host \notin {"localhost", "127.0.0.1"}

\* No separator, no "..", and one of two extensions.
ValidDiskName(s) == s \in {"a.raw", "b.qcow2"}

=============================================================================
