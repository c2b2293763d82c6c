---------------------------- MODULE SourceSettings ----------------------------
(***************************************************************************)
(* The settings of one LDAP source on their way through the edit page:     *)
(* config_to_form_values fills the page, the browser sends it back,        *)
(* parse_ldap_form checks it (src/app/web/source_forms.py), save_source    *)
(* stores it (src/app/web/routes.py), and build_provider makes a provider  *)
(* of it (src/app/web/services.py), which checks it again.  A tab may be    *)
(* open while another one saves.                                           *)
(***************************************************************************)
EXTENDS Naturals

CONSTANTS
  Page,         \* browser tabs on the form (a bound of the model)
  Template,     \* query templates, numbered in the order of QUERY_TEMPLATES
  ParamOf,      \* the parameter of a template, or NoParam
  NoParam,
  Text,         \* what a text field may hold, "" included
  Plain,        \* what the fields that are only copied may hold, "" included
  Password      \* "" included

Blank == ""

Param == {ParamOf[t] : t \in Template} \ {NoParam}

\* The template whose input comes last in the page, of those with parameter q.
IsLast(t, q) == t \in Template /\ ParamOf[t] = q /\ \A u \in Template : ParamOf[u] = q => u <= t

ASSUME TemplateAssumption ==
  /\ Template \subseteq Nat \ {0} /\ 1 \in Template
  /\ DOMAIN ParamOf = Template
  /\ \A q \in Param : \E t \in Template : IsLast(t, q)   \* as in every finite list
ASSUME TextAssumption == Blank \in Text /\ Blank \in Plain /\ Blank \in Password

VARIABLES
  config,     \* DataSource.config_json, or NoConfig before the source exists
  secret,     \* DataSource.encrypted_secret, as it decrypts; blank for none
  page        \* what each tab shows

vars == <<config, secret, page>>

NoConfig == [group_dn |-> "no source"]
NoPage == [mode |-> "closed"]

Default == 1     \* DEFAULT_TEMPLATE_KEY, which is also the first of the list
NoTemplate == 0  \* template_key == ""

\* Switches of the page and of the configuration alike.
Transport == [use_ssl : BOOLEAN, use_start_tls : BOOLEAN, allow_plaintext : BOOLEAN]
Config == [transport : Transport, group_dn : Text, template_key : Template \union {NoTemplate},
           template_parameters : [Param -> Text], plain : Plain]

\* The page has an input for each template with a parameter.
Input == {i \in [Template -> Text] : \A t \in Template : ParamOf[t] = NoParam => i[t] = Blank}
Form == [transport : Transport, group_dn : Text, template_key : Template,
         input : Input, plain : Plain]

TypeOK ==
  /\ config \in Config \union {NoConfig}
  /\ secret \in Password
  /\ page \in [Page -> [mode : {"new", "edit"}, form : Form] \union {NoPage}]

Exists == config # NoConfig

-----------------------------------------------------------------------------
(* The page.                                                               *)

Shown(t, parameters) == IF ParamOf[t] = NoParam THEN Blank ELSE parameters[ParamOf[t]]

\* Mutant: the start-TLS switch is forgotten as well.
TransportForgotten(transport) ==
  [transport EXCEPT !.use_start_tls = FALSE, !.allow_plaintext = FALSE]

\* config_to_form_values has no allow_plaintext: its box is never ticked.
TransportShown(transport) == [transport EXCEPT !.allow_plaintext = FALSE]

\* config_to_form_values, and the page made of it: with no template chosen the
\* browser offers the first.
FormOf(c) ==
  [transport    |-> TransportShown(c.transport),
   group_dn     |-> c.group_dn,
   template_key |-> IF c.template_key = NoTemplate THEN Default ELSE c.template_key,
   input        |-> [t \in Template |-> Shown(t, c.template_parameters)],
   plain        |-> c.plain]

\* _default_form_values
EmptyForm ==
  [transport    |-> [use_ssl |-> TRUE, use_start_tls |-> FALSE, allow_plaintext |-> FALSE],
   group_dn     |-> Blank,
   template_key |-> Default,
   input        |-> [t \in Template |-> Blank],
   plain        |-> Blank]

\* The browser sends every input; templates with the same parameter have
\* inputs of the same name, of which form.items() keeps the last.
Sent(f, q) == f.input[CHOOSE t \in Template : IsLast(t, q)]

-----------------------------------------------------------------------------
(* parse_ldap_form.                                                        *)

TransportAccepted(transport) ==
  /\ transport.use_ssl \/ transport.use_start_tls \/ transport.allow_plaintext
  /\ ~(transport.use_ssl /\ transport.use_start_tls)

\* Mutant: a parameter may be left empty.
QueryUnchecked(f) == f.template_key \in Template

\* With a group the template does not matter; without, its parameter must be there.
QueryAccepted(f) ==
  \/ f.group_dn # Blank
  \/ ParamOf[f.template_key] = NoParam
  \/ Sent(f, ParamOf[f.template_key]) # Blank

\* No field has an error.
Accepted(f, password, isEdit) ==
  /\ TransportAccepted(f.transport)
  /\ QueryAccepted(f)
  /\ f.plain # Blank
  /\ password # Blank \/ isEdit

\* LdapSourceForm.to_config_json
ConfigOf(f) ==
  [transport           |-> f.transport,
   group_dn            |-> f.group_dn,
   template_key        |-> IF f.group_dn # Blank THEN NoTemplate ELSE f.template_key,
   template_parameters |-> [q \in Param |->
                              IF f.group_dn = Blank /\ ParamOf[f.template_key] = q
                                THEN Sent(f, q) ELSE Blank],
   plain               |-> f.plain]

\* The page after an error: every field as it was sent, without the password.
Redisplayed(f) ==
  [f EXCEPT !.input = [t \in Template |->
     IF ParamOf[t] = NoParam THEN Blank ELSE Sent(f, ParamOf[t])]]

-----------------------------------------------------------------------------
(* build_provider.                                                         *)

\* template_key=config.get("template_key") or DEFAULT_TEMPLATE_KEY
TemplateUsed(c) == IF c.template_key = NoTemplate THEN Default ELSE c.template_key

\* LdapConfig.validate and build_query_filter raise nothing.
ProviderAccepts(c) ==
  /\ c.plain # Blank
  /\ c.transport.use_ssl \/ c.transport.use_start_tls \/ c.transport.allow_plaintext
  /\ \/ c.group_dn # Blank
     \/ ParamOf[TemplateUsed(c)] = NoParam
     \/ c.template_parameters[ParamOf[TemplateUsed(c)]] # Blank

-----------------------------------------------------------------------------
\* new_source_form and edit_source_form
OpenNew(p) ==
  /\ page' = [page EXCEPT ![p] = [mode |-> "new", form |-> EmptyForm]]
  /\ UNCHANGED <<config, secret>>

OpenEdit(p) ==
  /\ Exists
  /\ page' = [page EXCEPT ![p] = [mode |-> "edit", form |-> FormOf(config)]]
  /\ UNCHANGED <<config, secret>>

\* Mutant: a blank password is stored like any other.
Overwritten(password) == password

\* A blank password keeps the stored one.
Replaced(password) == IF password = Blank THEN secret ELSE password

\* save_source with an accepted form; the tab goes on to the list of sources.
Save(p, f, password) ==
  /\ page[p].mode = "new" => ~Exists
  /\ Accepted(f, password, page[p].mode = "edit")
  /\ config' = ConfigOf(f)
  /\ secret' = Replaced(password)
  /\ page' = [page EXCEPT ![p] = NoPage]

\* A field has an error, or a new source's name is taken: the page comes back.
Refuse(p, f, password) ==
  /\ \/ ~Accepted(f, password, page[p].mode = "edit")
     \/ page[p].mode = "new" /\ Exists
  /\ page' = [page EXCEPT ![p].form = Redisplayed(f)]
  /\ UNCHANGED <<config, secret>>

Close(p) ==
  /\ page' = [page EXCEPT ![p] = NoPage]
  /\ UNCHANGED <<config, secret>>

\* Any field may have been changed when the page is sent, and several at once.
Submit(p) ==
  /\ page[p] # NoPage
  /\ \E f \in Form, password \in Password :
       Save(p, f, password) \/ Refuse(p, f, password)

Next == \E p \in Page : OpenNew(p) \/ OpenEdit(p) \/ Close(p) \/ Submit(p)

Init ==
  /\ config = NoConfig
  /\ secret = Blank
  /\ page = [p \in Page |-> NoPage]

Spec == Init /\ [][Next]_vars

-----------------------------------------------------------------------------
\* The form and the provider check the same settings apart, with code of their
\* own: what the form lets pass is never refused when a comparison builds the
\* provider, and it binds with a password of its own, never with the one of
\* the .env file (services.py:80), whatever was edited since.
StoredConfigBuilds == Exists => ProviderAccepts(config) /\ secret # Blank

\* What is stored is what to_config_json makes: no template beside a group, and
\* no parameter but that of the template; and only a source that exists is edited.
Canonical ==
  Exists =>
    /\ (config.template_key = NoTemplate) <=> (config.group_dn # Blank)
    /\ \A q \in Param :
         config.template_parameters[q] # Blank =>
           config.group_dn = Blank /\ ParamOf[config.template_key] = q
EditsExist == \A p \in Page : page[p].mode = "edit" => Exists

\* The inductive invariant: the second validation never fails where the first
\* passed, because nothing reaches the row but through to_config_json.
IInv == TypeOK /\ Canonical /\ EditsExist /\ StoredConfigBuilds

\* routes.py:785 and source_form.html: an administrator changes what is to be
\* changed and nothing else.  Whatever else an accepted edit changes, it keeps
\* every setting whose field was left as the page showed it, and the query if
\* its fields were; and one that leaves the box for plaintext connections as
\* shown, which is unticked, leaves the source encrypted (RoundTripKeeps).
EditsStayLocal ==
  Exists =>
    LET shown == FormOf(config)
    IN  \A f \in Form : Accepted(f, Blank, TRUE) =>
          LET after == ConfigOf(f)
          IN  /\ \A switch \in {"use_ssl", "use_start_tls"} :
                   f.transport[switch] = shown.transport[switch]
                     => after.transport[switch] = config.transport[switch]
              /\ f.group_dn = shown.group_dn => after.group_dn = config.group_dn
              /\ f.plain = shown.plain => after.plain = config.plain
              /\ /\ f.group_dn = shown.group_dn
                 /\ f.template_key = shown.template_key
                 /\ f.input = shown.input
                 => /\ after.template_key = config.template_key
                    /\ after.template_parameters = config.template_parameters
              /\ f.transport.allow_plaintext = shown.transport.allow_plaintext
                 => /\ after.transport.use_ssl \/ after.transport.use_start_tls
                    /\ ~after.transport.allow_plaintext

\* tests/test_source_forms.py:235: no setting is lost between the form, the
\* stored configuration and the form that is made of it: sent back as it is
\* shown, it would be stored as it was.
RoundTripKeeps == Exists => ConfigOf(FormOf(config)) = config
=============================================================================
