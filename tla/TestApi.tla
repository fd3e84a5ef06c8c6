------------------------------- MODULE TestApi -------------------------------
(***************************************************************************)
(* The user-space API of ADF4377_Test/so/adf4377_test_api.c: the functions *)
(* a Python shared library calls, all working on one static handle        *)
(* adf4377_dev.  The driver calls underneath (adf4377_init,               *)
(* adf4377_remove, the register accessors) are not in the repository and  *)
(* are modelled from the spec: init allocates a new handle and binds the *)
(* SPI bus chosen by the arguments, storing the handle only on success;  *)
(* remove releases the bus and frees the handle, and returns the error of *)
(* the bus teardown without freeing when that fails.                      *)
(*                                                                         *)
(* Handles are numbered in allocation order; busOf[h] is the bus handle h *)
(* was bound to; bound is the set of handles that still hold their bus.   *)
(***************************************************************************)
EXTENDS Integers, Sequences

CONSTANTS
  Bus,        \* the (spi_device, spi_cs) pairs a caller may pass
  MaxInits    \* bound on the number of successful adf4377_init calls

ASSUME BusAssumption == Bus # {}
ASSUME MaxInitsAssumption == MaxInits \in Nat \ {0}

NULL == 0
EINVAL == -22
ETRANSPORT == -5    \* any error the spidev transport returns

Calls == {"none", "init", "access", "remove"}

VARIABLES
  dev,      \* static struct adf4377_dev *adf4377_dev
  busOf,    \* handles allocated by successful inits, with their bus
  bound,    \* handles whose bus binding is still held
  ret,      \* the value the last API call returned
  call      \* the API function called last (history, for properties)

vars == << dev, busOf, bound, ret, call >>

Handle == 1 .. Len(busOf)

Init ==
  /\ dev = NULL
  /\ busOf = << >>
  /\ bound = {}
  /\ ret = 0
  /\ call = "none"

\* adf4377_test_init(spi_device, spi_cs): set the bus parameters, then
\* ret = adf4377_init(&adf4377_dev, &adf4377_ip).  On failure the driver
\* has released and freed its new handle and left adf4377_dev as it was.
adf4377_test_init(b) ==
  /\ Len(busOf) < MaxInits
  /\ \/ /\ busOf' = Append(busOf, b)
        /\ dev' = Len(busOf) + 1
        /\ bound' = bound \cup {Len(busOf) + 1}
        /\ ret' = 0
     \/ /\ ret' \in {ETRANSPORT, EINVAL}
        /\ UNCHANGED << dev, busOf, bound >>
  /\ call' = "init"

\* Mutant: an accessor passes on the ioctl's byte count (3) as success.
AccessReturnsCount ==
  /\ \/ dev = NULL /\ ret' = EINVAL
     \/ dev # NULL /\ ret' \in {3, ETRANSPORT}
  /\ call' = "access"
  /\ UNCHANGED << dev, busOf, bound >>

\* adf4377_test_read_reg / write_reg / update_bits / set_rfout: -EINVAL
\* without a handle, otherwise the driver call's result on adf4377_dev.
Access ==
  /\ \/ dev = NULL /\ ret' = EINVAL
     \/ dev # NULL /\ ret' \in {0, ETRANSPORT}
  /\ call' = "access"
  /\ UNCHANGED << dev, busOf, bound >>

\* Mutant: adf4377_dev is not cleared after adf4377_remove (line 91 dropped).
RemoveKeepsHandle ==
  /\ \/ /\ dev = NULL
        /\ ret' = 0
        /\ UNCHANGED << dev, bound >>
     \/ /\ dev # NULL
        /\ \/ bound' = bound \ {dev} /\ ret' = 0
           \/ UNCHANGED bound /\ ret' = ETRANSPORT
        /\ UNCHANGED dev
  /\ call' = "remove"
  /\ UNCHANGED busOf

\* adf4377_test_remove: 0 without a handle; otherwise
\* ret = adf4377_remove(adf4377_dev); adf4377_dev = NULL; return ret.
adf4377_test_remove ==
  /\ \/ /\ dev = NULL
        /\ ret' = 0
        /\ UNCHANGED << dev, bound >>
     \/ /\ dev # NULL
        /\ \/ bound' = bound \ {dev} /\ ret' = 0
           \/ UNCHANGED bound /\ ret' = ETRANSPORT
        /\ dev' = NULL
  /\ call' = "remove"
  /\ UNCHANGED busOf

Next ==
  \/ \E b \in Bus : adf4377_test_init(b)
  \/ Access
  \/ adf4377_test_remove

Spec == Init /\ [][Next]_vars

(***************************************************************************)
(* Properties                                                             *)
(***************************************************************************)
TypeOK ==
  /\ busOf \in Seq(Bus)
  /\ Len(busOf) <= MaxInits
  /\ dev \in Handle \cup {NULL}
  /\ bound \subseteq Handle
  /\ ret \in {0, EINVAL, ETRANSPORT}
  /\ call \in Calls

(* The static handle the accessors use is always one whose bus binding is *)
(* still held: no sequence of init, access and remove calls, failing or   *)
(* not, leaves adf4377_dev pointing at a removed (freed) device.          *)
DevLive == dev # NULL => dev \in bound

(* Spec section 5: exactly one Device Handle holds a given bus binding at *)
(* a time.  adf4377_test_init overwrites adf4377_dev without checking for *)
(* a live handle, so a second init on the same bus binds it twice.        *)
ExclusiveBus ==
  \A h1, h2 \in bound : h1 # h2 => busOf[h1] # busOf[h2]

=============================================================================
