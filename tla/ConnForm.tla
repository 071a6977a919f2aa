------------------------------ MODULE ConnForm ------------------------------
(***************************************************************************)
(* The connection dialog: which rows it shows, what a change of driver,    *)
(* DSN, password store or SSL does to the others, what is wrong with it,   *)
(* and the record it builds (conndialog.rs, connspec.rs).  A text is "" or *)
(* a value; a form keeps the text of every field it has shown, hidden ones *)
(* too.                                                                    *)
(***************************************************************************)
EXTENDS Naturals

CONSTANTS
  Edits             \* bound: changes one user makes to the form

VARIABLES form, edits
formVars == <<form, edits>>

Engines == {"postgres", "mysql", "sqlite", "oracle"}

\* The table of fields: what each engine asks for.
Fields(engine) ==
  CASE engine = "postgres" ->
         {"host", "port", "user", "password", "database", "schema", "ssl"}
    [] engine = "mysql" -> {"host", "port", "user", "password", "database", "ssl"}
    [] engine = "sqlite" -> {"path", "mode"}
    [] engine = "oracle" ->
         {"host", "port", "user", "password", "service", "schema", "ssl", "wallet"}

DefaultPort(engine) ==
  CASE engine = "postgres" -> "5432" [] engine = "mysql" -> "3306"
    [] engine = "oracle" -> "1521" [] engine = "sqlite" -> ""

Default(engine, kind) ==
  CASE kind = "port" -> DefaultPort(engine) [] kind = "ssl" -> "prefer"
    [] kind = "mode" -> "rw" [] OTHER -> ""

NeedsPassword(engine) == engine # "sqlite"

\* All the modes there are, the strict ones among them, and those on offer.
Tls == {"require", "verify-ca", "verify-full"}
AllSslModes == {"disable", "allow", "prefer"} \cup Tls
SslModes(engine) ==
  CASE engine = "sqlite" -> {} [] engine = "mysql" -> AllSslModes \ {"allow"}
    [] OTHER -> AllSslModes

Modes == {"rw", "ro", "rwc"}

\* A whole number from 1 to 65535; `"70000"` stands for those that are not.
IsPort(text) == text \in {"5432", "3306", "1521", "9"}

\* QRY_PW_ and the name in capitals; "lower" stands for what no variable is called.
DefaultVar(name) == <<"QRY_PW_", name>>
BadVar == <<"lower", "">>
NoVar == <<"", "">>

-----------------------------------------------------------------------------
(* Drafts *)

\* The texts of `fields`; what was never typed is "".
Kinds == UNION {Fields(e) : e \in Engines}
Texts(engine, text(_)) ==
  [k \in Kinds |-> IF k \in Fields(engine) THEN text(k) ELSE ""]

BlankForm == [engine |-> "postgres", name |-> "", lastName |-> "", useDsn |-> FALSE, dsn |-> "",
            values |-> Texts("postgres", LAMBDA k : Default("postgres", k)),
            store |-> "keychain", envVar |-> NoVar, password |-> "", purpose |-> "new",
            was |-> <<"none">>]

\* The rows shown: the engine's, the DSN in their place, the variable in the
\* password's, and a wallet unless SSL is off.
PasswordRow(f) == IF f.store = "environment" THEN "envVar" ELSE "password"
Visible(f) ==
  IF f.useDsn
  THEN {"dsn"} \cup (IF NeedsPassword(f.engine) THEN {PasswordRow(f)} ELSE {})
  ELSE LET shown == {k \in Fields(f.engine) : k # "wallet" \/ f.values["ssl"] # "disable"}
       IN  {IF k = "password" THEN PasswordRow(f) ELSE k : k \in shown}

Shows(f, kind) == kind \in Visible(f)

\* The form on another engine: shared fields keep their text, the port moves
\* with the default it was, a choice not on offer goes back to its default.
Switch(f, to) ==
  LET untouched == f.values["port"] \in {"", DefaultPort(f.engine)}
      offered(k) == CASE k = "ssl" -> f.values[k] \in SslModes(to)
                      [] k = "mode" -> f.values[k] \in Modes
                      [] OTHER -> f.values[k] # ""
      text(k) == IF k = "port" /\ untouched THEN DefaultPort(to)
                 ELSE IF offered(k) THEN f.values[k] ELSE Default(to, k)
  IN  [f EXCEPT !.engine = to, !.values = Texts(to, text)]

\* What follows a change: the variable's default follows the name.
Relaid(f) ==
  LET follows == f.store = "environment" /\ f.envVar \in {NoVar, DefaultVar(f.lastName)}
  IN  [f EXCEPT !.envVar = IF follows THEN DefaultVar(f.name) ELSE @, !.lastName = f.name]

-----------------------------------------------------------------------------
(* Records *)

\* A mutant: a keychain password left be is forgotten.
SecretTypedOnly(f) ==
  IF ~NeedsPassword(f.engine) THEN <<"none">>
  ELSE CASE f.store = "environment" -> <<"env", f.envVar>>
         [] f.store = "keychain" /\ f.password # "" -> <<"keyring">>
         [] OTHER -> <<"prompt">>

\* Where the password lives.  One left be while editing stays where it was; one
\* that was never typed is asked for.
Secret(f) ==
  IF ~NeedsPassword(f.engine) THEN <<"none">>
  ELSE CASE f.store = "environment" -> <<"env", f.envVar>>
         [] f.store = "ask" -> <<"prompt">>
         [] f.store = "keychain" /\ f.password # "" -> <<"keyring">>
         [] OTHER -> IF f.purpose = "edit" /\ f.was = <<"keyring">> THEN f.was
                     ELSE <<"prompt">>

\* The record to save and open; a value that is the default is left out, and so
\* is one of a row the form does not show.
Build(f) ==
  LET value(k) == IF f.useDsn \/ ~Shows(f, k) THEN "" ELSE f.values[k]
      stored(k) == IF k = "port" /\ (~IsPort(value(k)) \/ value(k) = DefaultPort(f.engine))
                   THEN ""
                   ELSE IF k = "mode" /\ value(k) = "rw" THEN "" ELSE value(k)
  IN  [engine |-> f.engine, name |-> f.name, dsn |-> IF f.useDsn THEN f.dsn ELSE "",
       texts |-> [k \in Kinds \ {"password"} |-> stored(k)], secret |-> Secret(f)]

\* The form on an existing record.
Editing(r) ==
  LET e == r.engine
      text(k) ==
        CASE k = "password" -> ""
          [] k = "port" -> IF r.texts[k] = "" THEN DefaultPort(e) ELSE r.texts[k]
          [] k = "ssl" -> IF r.texts[k] \in SslModes(e) THEN r.texts[k] ELSE "prefer"
          [] k = "mode" -> IF r.texts[k] \in Modes THEN r.texts[k] ELSE "rw"
          [] OTHER -> r.texts[k]
      store == CASE r.secret[1] = "keyring" -> "keychain" [] r.secret[1] = "env" -> "environment"
                 [] OTHER -> "ask"
  IN  [engine |-> e, name |-> r.name, lastName |-> r.name, useDsn |-> r.dsn # "", dsn |-> r.dsn,
       values |-> Texts(e, text), store |-> store,
       envVar |-> IF r.secret[1] = "env" THEN r.secret[2] ELSE NoVar,
       password |-> "", purpose |-> "edit", was |-> r.secret]

\* A copy asks for its password each time, whatever the original did with a
\* keychain one.
Duplicate(r) ==
  [Editing([r EXCEPT !.secret = IF @ = <<"keyring">> THEN <<"prompt">> ELSE @])
     EXCEPT !.purpose = "duplicate", !.was = <<"none">>]

Wrong(f, k) ==
  CASE k = "name" -> f.name = ""
    [] k = "dsn" -> Shows(f, k) /\ f.dsn = ""
    [] k = "envVar" -> Shows(f, k) /\ f.envVar \in {NoVar, BadVar}
    [] k = "port" -> Shows(f, k) /\ f.values[k] # "" /\ ~IsPort(f.values[k])
    [] k = "database" -> Shows(f, k) /\ f.engine = "postgres" /\ f.values[k] = ""
    [] k \in {"path", "host", "user", "service"} -> Shows(f, k) /\ f.values[k] = ""
    [] OTHER -> FALSE

\* Nothing is wrong with it: only then is it submitted.
Valid(f) == \A k \in Kinds \cup {"name", "dsn", "envVar"} : ~Wrong(f, k)

\* `to_config` makes the driver's configuration of the record.  (To Oracle a text
\* that is no mode is a wallet.)
Configures(r) ==
  LET has(k) == r.texts[k] # ""
  IN  /\ r.dsn = ""
      /\ CASE r.engine = "sqlite" -> has("path")
           [] r.engine = "postgres" -> has("host") /\ has("user") /\ has("database")
           [] r.engine = "oracle" -> has("host") /\ has("user") /\ has("service")
           [] OTHER -> has("host") /\ has("user")
      /\ r.engine \in {"postgres", "mysql"} => r.texts["ssl"] \in AllSslModes \cup {""}

\* What a driver then refuses before the network: TLS, which only Oracle's speaks,
\* and there a wallet without it.
Refused(r) ==
  LET tls == r.texts["ssl"] \in Tls
  IN  IF r.engine = "oracle" THEN r.texts["wallet"] # "" /\ ~tls ELSE tls

-----------------------------------------------------------------------------
(* Filling it in *)

FormInit ==
  /\ form = BlankForm
  /\ edits = Edits

Changed(f) ==
  /\ edits > 0
  /\ form' = Relaid(f)
  /\ edits' = edits - 1

PickEngine == \E e \in Engines \ {form.engine} : Changed(Switch(form, e))

TypeText ==
  \E k \in Fields(form.engine) \ {"port", "ssl", "mode", "password"} :
    Shows(form, k) /\ form.values[k] = "" /\ Changed([form EXCEPT !.values[k] = "x"])

\* A user who fills in all that a row needs at once.
TypeAll ==
  LET typed(k) == k \notin {"port", "ssl", "mode", "password"} /\ Shows(form, k)
  IN  Changed([form EXCEPT !.name = "n",
                 !.values = [k \in Kinds |-> IF typed(k) THEN "x" ELSE form.values[k]]])

TypePort == /\ Shows(form, "port")
            /\ \E p \in {"", "9", "70000"} : Changed([form EXCEPT !.values["port"] = p])

TypeName == \E n \in {"", "m"} : Changed([form EXCEPT !.name = n])

TypePassword == Shows(form, "password") /\ Changed([form EXCEPT !.password = "x"])

TypeVar == Shows(form, "envVar") /\ Changed([form EXCEPT !.envVar = BadVar])

ToggleDsn == Changed([form EXCEPT !.useDsn = ~@, !.dsn = "d"])

PickStore ==
  /\ Shows(form, "password") \/ Shows(form, "envVar")
  /\ \E s \in {"keychain", "ask", "environment"} : Changed([form EXCEPT !.store = s])

PickSsl == /\ Shows(form, "ssl")
           /\ \E m \in SslModes(form.engine) : Changed([form EXCEPT !.values["ssl"] = m])

PickMode == /\ Shows(form, "mode")
            /\ \E m \in Modes : Changed([form EXCEPT !.values["mode"] = m])

\* The record is there and is opened again, to change or to copy it.
Reopen ==
  /\ Valid(form)
  /\ Changed(Editing(Build(form))) \/ Changed(Duplicate(Build(form)))

FormNext ==
  \/ PickEngine \/ TypeText \/ TypeAll \/ TypePort \/ TypeName \/ TypePassword
  \/ TypeVar \/ ToggleDsn \/ PickStore \/ PickSsl \/ PickMode \/ Reopen

FormSpec == FormInit /\ [][FormNext]_formVars

-----------------------------------------------------------------------------
(* Properties *)

\* Opening a record that was just built and submitting it untouched builds the
\* same record: nothing the rows show, hide or leave at a default is lost, and
\* its password stays where it is kept ("leaving it be keeps whatever the
\* connection already used").
EditingKeepsTheRecord ==
  Valid(form) => Build(Editing(Build(form))) = Build(form)

\* A form that validates, other than by a DSN, makes a configuration, on whichever
\* engine it ended, with a mode that engine offers: "Validation runs before any
\* connect attempt" (conndialog.rs:7).
ValidFormsConfigure ==
  Valid(form) /\ ~form.useDsn =>
    /\ Configures(Build(form))
    /\ form.engine # "sqlite" => Build(form).texts["ssl"] \in SslModes(form.engine)

\* Valid is not accepted: the form lets through strict modes that only Oracle's
\* driver takes, and a wallet at `allow` and `prefer`, which that driver does not.
\* But what a driver refuses is in sight: no row that is hidden, or was another
\* engine's, has a part in it.
AsksForRefusal(f) ==
  LET strict == Shows(f, "ssl") /\ f.values["ssl"] \in Tls
  IN  IF f.engine = "oracle"
      THEN Shows(f, "wallet") /\ f.values["wallet"] # "" /\ ~strict
      ELSE strict
RefusalsShow ==
  Valid(form) /\ ~form.useDsn => (Refused(Build(form)) <=> AsksForRefusal(form))

\* What the dialog builds can be edited without loss; what it lets through makes a
\* configuration, refused only for what its rows show.
FormsBuildRecords == EditingKeepsTheRecord /\ ValidFormsConfigure /\ RefusalsShow

=============================================================================
