---------------------------- MODULE MCClientProfile ----------------------------
EXTENDS ClientProfile, TLC

CONSTANTS crypto, novice, swing, fomo, steady

MCOptions ==
    [markets |-> {crypto}, experience |-> {novice}, style |-> {swing},
     painPoints |-> {fomo}, riskPreference |-> {steady}]
=============================================================================
