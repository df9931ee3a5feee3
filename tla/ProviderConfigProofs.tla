------------------------ MODULE ProviderConfigProofs ------------------------
(***************************************************************************)
(* Lemmas about how config.Load merges the environment into the file, for  *)
(* any texts and any names, and for every variable of a provider with      *)
(* every value it and its K_FILE can have.                                 *)
(***************************************************************************)
EXTENDS ProviderConfig, TLAPS

(* A field for which the environment has no value keeps that of the file.  *)
THEOREM FieldsSurvive ==
  ASSUME NEW name \in Providers, NEW old \in Provider, NEW env \in ProviderVariables
  PROVE  LET loaded == LoadedProvider(name, old, env) IN
         /\ \A f \in {"type", "issuer", "client"} :
              GetEnv(env[f]) = Empty /\ old[f] # Empty => loaded[f] = old[f]
         /\ GetEnv(env.enabled) = Empty => loaded.enabled = old.enabled
<1>1. old # Absent
  BY AbsentAssumption
<1>2. CASE ~Discovered(env)
  BY <1>1, <1>2 DEF LoadedProvider
<1>3. CASE Discovered(env)
  <2> DEFINE loaded == LoadedProvider(name, old, env)
             type == Override(old.type, env.type)
  <2>1. loaded = [type |-> IF type = Empty THEN name ELSE type,
                  issuer |-> Override(old.issuer, env.issuer),
                  client |-> Override(old.client, env.client),
                  enabled |-> Enabled(old, env, Override(old.client, env.client))]
    BY <1>1, <1>3 DEF LoadedProvider, Merge
  <2> HIDE DEF loaded
  <2>2. GetEnv(env.type) = Empty /\ old.type # Empty => loaded.type = old.type
    BY <2>1 DEF Override
  <2>3. GetEnv(env.issuer) = Empty => loaded.issuer = old.issuer
    BY <2>1 DEF Override
  <2>4. GetEnv(env.client) = Empty => loaded.client = old.client
    BY <2>1 DEF Override
  <2>5. GetEnv(env.enabled) = Empty => loaded.enabled = old.enabled
    BY <1>1, <2>1 DEF Enabled
  <2> QED
    BY <2>2, <2>3, <2>4, <2>5 DEF loaded
<1> QED
  BY <1>2, <1>3

(* The environments that TLC tries are among them.                         *)
LEMMA SmallEnvironmentsAreEnvironments == SmallEnvironments \subseteq ProviderVariables
<1> DEFINE Of(values) == {v \in Variable(values) : v.file = Unset}
           other == CHOOSE t \in Texts : t \notin Providers
           some == CHOOSE t \in Texts : TRUE
<1>1. other \in Texts /\ some \in Texts /\ TrueWords \cup FalseWords \subseteq Texts
  BY ConfigAssumption
<1> HIDE DEF other, some
<1>2. ASSUME NEW values \in SUBSET Texts
      PROVE  Of(values) \subseteq Variable(Texts)
  BY DEF Variable
<1>3. /\ Of({other}) \subseteq Variable(Texts)
      /\ Of({some}) \subseteq Variable(Texts)
      /\ Of(TrueWords \cup FalseWords) \subseteq Variable(Texts)
  BY <1>1, <1>2
<1>4. SmallEnvironments = {env \in [type : Of({other}), issuer : Of({some}), client : Of({some}),
                                    enabled : Of(TrueWords \cup FalseWords)] : EnabledParses(env)}
  BY DEF SmallEnvironments, other, some
<1> HIDE DEF Of
<1> QED
  BY <1>3, <1>4 DEF ProviderVariables

=============================================================================
