------------------------ MODULE MCProduce ------------------------
(* One zone of each type in zones.csv, with its capacity there. *)
EXTENDS ProduceTestEvents

MCZones == {"MATAF_01", "MASAA_L2", "HARAM_GATE_79", "JAM_BRIDGE_L1", "MINA_CAMP_A",
            "ARAFAT_Z1", "MUZ_Z1", "ALULA_HEGRA"}
MCzone_ids == <<"ALULA_HEGRA", "ARAFAT_Z1", "HARAM_GATE_79", "JAM_BRIDGE_L1",
                "MASAA_L2", "MATAF_01", "MINA_CAMP_A", "MUZ_Z1">>
MCCapacity == [z \in MCZones |->
    CASE z = "MATAF_01" -> 48000 [] z = "MASAA_L2" -> 18000 [] z = "HARAM_GATE_79" -> 8000
      [] z = "JAM_BRIDGE_L1" -> 55000 [] z = "MINA_CAMP_A" -> 15000 [] z = "ARAFAT_Z1" -> 40000
      [] z = "MUZ_Z1" -> 60000 [] z = "ALULA_HEGRA" -> 3000]
MCZoneType == [z \in MCZones |->
    CASE z = "MATAF_01" -> "TAWAF" [] z = "MASAA_L2" -> "SAI" [] z = "HARAM_GATE_79" -> "ENTRANCE"
      [] z = "JAM_BRIDGE_L1" -> "RITUAL" [] z = "MINA_CAMP_A" -> "ACCOMMODATION"
      [] z = "ARAFAT_Z1" -> "GATHERING" [] z = "MUZ_Z1" -> "OVERNIGHT" [] z = "ALULA_HEGRA" -> "TOURISM"]
=============================================================================
