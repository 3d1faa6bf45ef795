------------------------------- MODULE Config -------------------------------
(***************************************************************************)
(* config_parse_args of src/config/config.c: the options of the command    *)
(* line, one per step, in any order and repeated at will.                  *)
(*                                                                         *)
(* Numbers are read by strtol into a long and stored in a field that may   *)
(* be narrower.  U32 stands for 2^32: the model checker is given a value   *)
(* it can compute with.                                                    *)
(***************************************************************************)
EXTENDS Integers

CONSTANTS
  U32,
  Number,       \* what strtol can return
  CONFIG_MAX_BACKENDS,
  MaxNumbers    \* bound: options with a number on the command line

CT_TIMEOUT_MAX_MS == 3600000

ASSUME ConfigAssumption ==
  /\ U32 \in Nat /\ U32 > CT_TIMEOUT_MAX_MS
  /\ Number \subseteq Int
  /\ CONFIG_MAX_BACKENDS \in Nat \ {0}
  /\ MaxNumbers \in Nat

VARIABLES
  cfg,      \* what has been stored so far
  numbers,  \* options with a number read so far
  rc        \* "parsing", then what config_parse_args returns

cfgvars == <<cfg, numbers, rc>>

Required == {"iface", "vip", "director_ip"}

Timeout == {"ct_tcp_timeout_ms", "ct_udp_timeout_ms"}

Probing == {"hc_interval_ms", "hc_timeout_ms", "hc_rise", "hc_fall"}

Numeric == {"ttl", "table_size", "max_flows", "metrics_port"} \cup Probing \cup Timeout

Defaults ==
  [ttl |-> 64, table_size |-> 65537, max_flows |-> 1000000, metrics_port |-> 9105,
   hc_interval_ms |-> 1000, hc_timeout_ms |-> 500, hc_rise |-> 2, hc_fall |-> 3,
   ct_tcp_timeout_ms |-> 120000, ct_udp_timeout_ms |-> 45000]

cpInit ==
  /\ cfg = [given |-> {}, n_backends |-> 0, tui_enabled |-> FALSE, admin_fifo |-> FALSE,
            num |-> Defaults]
  /\ numbers = 0
  /\ rc = "parsing"

-----------------------------------------------------------------------------
Reading ==
  /\ rc = "parsing"
  /\ numbers' = numbers

Store(new) ==
  /\ cfg' = new
  /\ rc' = rc

Reject ==
  /\ cfg' = cfg
  /\ rc' = "invalid"

(* --iface takes anything; an address has to parse. *)
GiveRequired(o) ==
  /\ Reading
  /\ \/ Store([cfg EXCEPT !.given = @ \cup {o}])
     \/ o # "iface" /\ Reject

(* --backend: too many, not ADDRESS:PORT, or one more. *)
GiveBackend ==
  /\ Reading
  /\ \/ cfg.n_backends < CONFIG_MAX_BACKENDS /\ Store([cfg EXCEPT !.n_backends = @ + 1])
     \/ Reject

(* The check each option makes of its number; only the timeouts look       *)
(* whether the argument ended where the number did.                        *)
Accepted(o, v, whole) ==
  CASE o = "ttl"          -> v > 0 /\ v <= 255
    [] o = "table_size"   -> v > 2 /\ v <= U32 - 1
    [] o = "metrics_port" -> v >= 0 /\ v <= 65535
    [] o \in Timeout      -> whole /\ v > 0 /\ v <= CT_TIMEOUT_MAX_MS
    [] OTHER              -> v > 0

(* The cast to the field's type; max_flows is as wide as a long. *)
Cast(o, v) ==
  CASE o = "ttl"          -> v % 256
    [] o = "metrics_port" -> v % 65536
    [] o = "max_flows"    -> v
    [] OTHER              -> v % U32

GiveNumber(o, v, whole) ==
  /\ rc = "parsing" /\ numbers < MaxNumbers
  /\ numbers' = numbers + 1
  /\ IF Accepted(o, v, whole) THEN Store([cfg EXCEPT !.num[o] = Cast(o, v)]) ELSE Reject

GiveTui == Reading /\ Store([cfg EXCEPT !.tui_enabled = TRUE])

GiveAdminFifo == Reading /\ Store([cfg EXCEPT !.admin_fifo = TRUE])

(* --help, and anything getopt_long does not know. *)
GiveOther ==
  /\ Reading
  /\ cfg' = cfg
  /\ rc' \in {"help", "invalid"}

EndOfOptions ==
  /\ rc = "parsing"
  /\ rc' = IF cfg.given = Required /\ cfg.n_backends > 0 THEN "ready" ELSE "invalid"
  /\ UNCHANGED <<cfg, numbers>>

config_parse_args ==
  \/ \E o \in Required : GiveRequired(o)
  \/ GiveBackend
  \/ \E o \in Numeric, v \in Number, whole \in BOOLEAN : GiveNumber(o, v, whole)
  \/ GiveTui \/ GiveAdminFifo \/ GiveOther
  \/ EndOfOptions

-----------------------------------------------------------------------------
(* What the checks of the probing options suggest and the code does not    *)
(* do: TLC refutes it (README.md, "What the code does not do").  A         *)
(* multiple of 2^32 is above zero and is stored as zero                    *)
(* (config.c:199-203).                                                     *)
ProbingIsPositive == \A o \in Probing : cfg.num[o] > 0
=============================================================================
